--------------------------- MODULE EventBusProofs --------------------------
(***************************************************************************)
(* What holds of EventBus for every set of types, tickers, handlers and    *)
(* sources, every script, capacity and number of workers.                  *)
(*   - An event of the order path is not lost.                             *)
(*   - The delivery of a coalesced stream does not go back: the versions   *)
(*     that threads, lanes and deliveries hold are told apart (Numbered).  *)
(*   - A handler is passed over for a ticker only behind Threshold dead    *)
(*     letters of its own: a call is made once, so that every failure      *)
(*     leaves a letter of its own (OnceOK, BreakerOK).                     *)
(*   - Shutdown drains the lanes that have room for its sentinel: only     *)
(*     lanes it has told end, and what is put behind the sentinel is new   *)
(*     (StopKept).                                                         *)
(*   - The types of the variables.                                         *)
(***************************************************************************)
EXTENDS EventBus, DualHeapQueue, SequenceTheorems, FiniteSetTheorems, TLAPS

ThreadType == [at : {"ready", "put"}, nth : Nat, ver : Nat,
               todo : Seq(Type \X Ticker), full : BOOLEAN]

\* What a thread is at is a coalesced event once it has a version, and one that
\* may be made room for once it has found its lane full.
EmitterOK ==
  \A x \in DOMAIN emitter :
    /\ emitter[x] \in ThreadType
    /\ emitter[x].at = "put" =>
         emitter[x].todo # <<>> /\ Current(x).type \in Coalesced
    /\ emitter[x].full =>
         emitter[x].todo # <<>> /\ Policy[Current(x).type] = "oldest"

IsEvent(e) == e.type \in Type /\ e.ticker \in Ticker

QueueOK ==
  /\ DOMAIN queue = Lane
  /\ \A l \in Lane :
    /\ queue[l] \in Seq(Range(queue[l]))
    /\ \A i \in Range(queue[l]) : IsEvent(i.ev) /\ i.ver \in Nat /\ LaneOf(i.ev) = l

WorkerOK ==
  /\ DOMAIN worker = Lane
  /\ \A l \in Lane :
    worker[l].at \in {"deliver", "wait"} =>
      /\ IsEvent(worker[l].ev)
      /\ worker[l].left \in Seq(Handler) /\ worker[l].left # <<>>

BegunOK == \A i \in begun : IsEvent(i.ev) /\ i.ver \in Nat

Structure == /\ EmitterOK /\ QueueOK /\ WorkerOK /\ BegunOK
             /\ version \in [Type \X Ticker -> Nat]

\* Two holders of a version of the same coalesced stream.
Same(d, e) == d.type \in Coalesced /\ Stream(d) = Stream(e)

\* The versions of a stream that threads, lanes and deliveries hold are different
\* ones, and the latest is the greatest.
PutNumbered ==
  \A x \in DOMAIN emitter : emitter[x].at = "put" =>
    /\ emitter[x].ver <= version[Stream(Current(x))]
    /\ \A y \in DOMAIN emitter \ {x} :
         emitter[y].at = "put" /\ Same(Current(x), Current(y)) => emitter[x].ver # emitter[y].ver
    /\ \A l \in Lane : \A m \in DOMAIN queue[l] :
         Same(Current(x), queue[l][m].ev) => emitter[x].ver # queue[l][m].ver
    /\ \A j \in begun : Same(Current(x), j.ev) => emitter[x].ver # j.ver

LaneNumbered ==
  \A l \in Lane : \A m \in DOMAIN queue[l] : queue[l][m].ev.type \in Coalesced =>
    /\ queue[l][m].ver <= version[Stream(queue[l][m].ev)]
    /\ \A n \in DOMAIN queue[l] \ {m} :
         Same(queue[l][m].ev, queue[l][n].ev) => queue[l][m].ver # queue[l][n].ver
    /\ \A j \in begun : Same(queue[l][m].ev, j.ev) => queue[l][m].ver # j.ver

BegunNumbered ==
  \A j \in begun : j.ev.type \in Coalesced => j.ver <= version[Stream(j.ev)]

Numbered == PutNumbered /\ LaneNumbered /\ BegunNumbered
---------------------------------------------------------------------------
(* Sequences and what they hold.                                           *)

LEMMA OfItsRange ==
  ASSUME NEW S, NEW s \in Seq(S)
  PROVE  s \in Seq(Range(s))
<1>1. Len(s) \in Nat /\ DOMAIN s = 1 .. Len(s)
  OBVIOUS
<1>2. s \in [1 .. Len(s) -> Range(s)]
  BY <1>1, LenProperties DEF Range
<1> QED BY <1>1, <1>2, SeqDef

LEMMA Appended ==
  ASSUME NEW s, s \in Seq(Range(s)), NEW e
  PROVE  /\ Append(s, e) \in Seq(Range(Append(s, e)))
         /\ Range(Append(s, e)) = Range(s) \cup {e}
         /\ DOMAIN Append(s, e) = DOMAIN s \cup {Len(s) + 1}
         /\ \A n \in DOMAIN s : Append(s, e)[n] = s[n]
         /\ Append(s, e)[Len(s) + 1] = e /\ Len(s) + 1 \notin DOMAIN s
<1> DEFINE S == Range(s) \cup {e}
<1>1. s \in Seq(S)
  <2>1. Range(s) \subseteq S
    OBVIOUS
  <2> QED BY <2>1
<1>2. Append(s, e) \in Seq(S)
  BY <1>1
<1>3. DOMAIN s = 1 .. Len(s) /\ Len(s) \in Nat
  BY <1>1
<1>4. /\ DOMAIN Append(s, e) = 1 .. (Len(s) + 1)
      /\ \A n \in DOMAIN s : Append(s, e)[n] = s[n]
      /\ Append(s, e)[Len(s) + 1] = e
  BY <1>1, <1>3
<1>5. DOMAIN Append(s, e) = DOMAIN s \cup {Len(s) + 1} /\ Len(s) + 1 \notin DOMAIN s
  BY <1>3, <1>4
<1>6. Range(Append(s, e)) = Range(s) \cup {e}
  BY <1>4, <1>5 DEF Range
<1> QED BY <1>2, <1>4, <1>5, <1>6, OfItsRange

LEMMA Popped ==
  ASSUME NEW s, s \in Seq(Range(s)), s # <<>>
  PROVE  /\ Tail(s) \in Seq(Range(Tail(s)))
         /\ Range(s) = Range(Tail(s)) \cup {Head(s)}
         /\ 1 \in DOMAIN s /\ Head(s) = s[1]
         /\ \A n \in DOMAIN Tail(s) : n + 1 \in DOMAIN s /\ n + 1 # 1 /\ Tail(s)[n] = s[n + 1]
<1>1. /\ DOMAIN s = 1 .. Len(s) /\ Len(s) \in Nat /\ Len(s) >= 1 /\ Head(s) = s[1]
      /\ Tail(s) \in Seq(Range(s)) /\ DOMAIN Tail(s) = 1 .. (Len(s) - 1)
      /\ \A n \in 1 .. (Len(s) - 1) : Tail(s)[n] = s[n + 1]
  BY EmptySeq
<1>2. \A n \in DOMAIN Tail(s) : n + 1 \in DOMAIN s /\ n + 1 # 1 /\ Tail(s)[n] = s[n + 1]
  BY <1>1
<1>3. \A m \in DOMAIN s \ {1} : m - 1 \in DOMAIN Tail(s) /\ (m - 1) + 1 = m
  BY <1>1
<1>4. \A m \in DOMAIN s \ {1} : s[m] \in Range(Tail(s))
  BY <1>2, <1>3 DEF Range
<1>5. 1 \in DOMAIN s
  BY <1>1
<1>6. Range(Tail(s)) \subseteq Range(s)
  BY <1>2 DEF Range
<1>7. Range(s) = Range(Tail(s)) \cup {Head(s)}
  <2>1. ASSUME NEW m \in DOMAIN s PROVE s[m] \in Range(Tail(s)) \cup {Head(s)}
    BY <1>1, <1>4
  <2>2. Range(s) \subseteq Range(Tail(s)) \cup {Head(s)}
    BY <2>1 DEF Range
  <2>3. Head(s) \in Range(s)
    BY <1>1, <1>5 DEF Range
  <2> QED BY <1>6, <2>2, <2>3
<1> QED BY <1>1, <1>2, <1>5, <1>7, OfItsRange
---------------------------------------------------------------------------
(* Every action keeps the structure.                                       *)

LEMMA NewThread ==
  ASSUME NEW todo \in Seq(Type \X Ticker), NEW n \in Nat
  PROVE  /\ Thread(todo) \in ThreadType
         /\ [Thread(todo) EXCEPT !.nth = n] \in ThreadType
         /\ [Thread(todo) EXCEPT !.nth = n].at = "ready"
         /\ ~[Thread(todo) EXCEPT !.nth = n].full
BY DEF Thread, ThreadType

LEMMA VersionedThread ==
  ASSUME NEW t \in ThreadType, NEW v \in Nat
  PROVE  LET w == [t EXCEPT !.at = "put", !.ver = v]
         IN  /\ w \in ThreadType /\ w.todo = t.todo /\ w.full = t.full
             /\ w.at = "put" /\ w.ver = v /\ w.nth = t.nth
BY DEF ThreadType

LEMMA AtAnEvent ==
  ASSUME EmitterOK, NEW x \in DOMAIN emitter, emitter[x].todo # <<>>
  PROVE  IsEvent(Current(x)) /\ Tail(emitter[x].todo) \in Seq(Type \X Ticker)
<1>1. emitter[x].todo \in Seq(Type \X Ticker)
  BY DEF EmitterOK, ThreadType
<1>2. emitter[x].todo[1] \in Type \X Ticker
  BY <1>1, EmptySeq
<1>3. IsEvent(Current(x))
  BY <1>2 DEF Current, IsEvent
<1> QED BY <1>1, <1>3

\* A step of one thread leaves the others as they are.
LEMMA OneThread ==
  ASSUME EmitterOK, NEW x \in DOMAIN emitter, NEW w \in ThreadType,
         emitter' = [emitter EXCEPT ![x] = w],
         w.at = "put" => w.todo # <<>> /\ w.todo[1][1] \in Coalesced,
         w.full => w.todo # <<>> /\ Policy[w.todo[1][1]] = "oldest"
  PROVE  /\ EmitterOK'
         /\ DOMAIN emitter' = DOMAIN emitter /\ emitter'[x] = w
         /\ \A y \in DOMAIN emitter \ {x} : emitter'[y] = emitter[y] /\ Current(y)' = Current(y)
<1>1. /\ DOMAIN emitter' = DOMAIN emitter /\ emitter'[x] = w
      /\ \A y \in DOMAIN emitter \ {x} : emitter'[y] = emitter[y]
  OBVIOUS
<1>2. \A y \in DOMAIN emitter \ {x} : Current(y)' = Current(y)
  BY <1>1 DEF Current
<1>3. Current(x)'.type = w.todo[1][1]
  BY <1>1 DEF Current
<1>4. EmitterOK'
  BY <1>1, <1>2, <1>3 DEF EmitterOK
<1> QED BY <1>1, <1>2, <1>4

\* Taking a version is a step of that kind.
LEMMA TakesVersion ==
  ASSUME Structure, NEW x \in DOMAIN emitter, TakeVersion(x)
  PROVE  /\ Structure'
         /\ DOMAIN emitter' = DOMAIN emitter
         /\ \A y \in DOMAIN emitter \ {x} : emitter'[y] = emitter[y] /\ Current(y)' = Current(y)
         /\ Current(x)' = Current(x) /\ Stream(Current(x)) \in Type \X Ticker
         /\ emitter'[x].at = "put" /\ emitter'[x].ver = version[Stream(Current(x))] + 1
<1> USE DEF Structure
<1> DEFINE s == Stream(Current(x))
           v == version[s] + 1
           w == [emitter[x] EXCEPT !.at = "put", !.ver = v]
<1>1. emitter[x].todo # <<>> /\ Current(x).type \in Coalesced
  BY DEF TakeVersion
<1>2. s \in Type \X Ticker /\ version[s] \in Nat
  BY <1>1, AtAnEvent DEF IsEvent, Stream
<1>3. emitter' = [emitter EXCEPT ![x] = w]
  BY DEF TakeVersion
<1>4. emitter[x] \in ThreadType /\ (emitter[x].full => Policy[Current(x).type] = "oldest")
  BY DEF EmitterOK
<1>5. w \in ThreadType /\ w.todo = emitter[x].todo /\ w.full = emitter[x].full
      /\ w.at = "put" /\ w.ver = v /\ w.nth = emitter[x].nth
  <2>1. v \in Nat
    BY <1>2
  <2>2. emitter[x] \in ThreadType
    BY <1>4
  <2> HIDE DEF v
  <2> QED BY <2>1, <2>2, VersionedThread
<1>6. w.todo[1][1] = Current(x).type
  BY <1>5 DEF Current
<1> HIDE DEF w
<1>7. /\ EmitterOK' /\ DOMAIN emitter' = DOMAIN emitter /\ emitter'[x] = w
      /\ \A y \in DOMAIN emitter \ {x} : emitter'[y] = emitter[y] /\ Current(y)' = Current(y)
  BY <1>1, <1>3, <1>4, <1>5, <1>6, OneThread
<1>8. Current(x)' = Current(x)
  BY <1>5, <1>7 DEF Current
<1>9. version' \in [Type \X Ticker -> Nat]
  BY <1>2 DEF TakeVersion
<1>10. QueueOK' /\ WorkerOK' /\ BegunOK'
  BY DEF TakeVersion, QueueOK, WorkerOK, BegunOK, LaneOf, lanes, delivery
<1> QED BY <1>2, <1>5, <1>7, <1>8, <1>9, <1>10

LEMMA FindsFull ==
  ASSUME Structure, NEW x \in DOMAIN emitter, FindFull(x)
  PROVE  /\ Structure'
         /\ DOMAIN emitter' = DOMAIN emitter
         /\ \A y \in DOMAIN emitter : Current(y)' = Current(y)
              /\ emitter'[y].at = emitter[y].at /\ emitter'[y].ver = emitter[y].ver
<1> USE DEF Structure
<1> DEFINE w == [emitter[x] EXCEPT !.full = TRUE]
<1>1. emitter[x].todo # <<>> /\ Policy[Current(x).type] = "oldest"
  BY DEF FindFull, Putting
<1>3. emitter' = [emitter EXCEPT ![x] = w]
  BY DEF FindFull
<1>4. emitter[x] \in ThreadType /\ (emitter[x].at = "put" => Current(x).type \in Coalesced)
  BY DEF EmitterOK
<1>5. w \in ThreadType /\ w.todo = emitter[x].todo /\ w.at = emitter[x].at
      /\ w.ver = emitter[x].ver /\ w.nth = emitter[x].nth
  BY <1>4 DEF ThreadType
<1>6. w.todo[1][1] = Current(x).type
  BY <1>5 DEF Current
<1> HIDE DEF w
<1>7. /\ EmitterOK' /\ DOMAIN emitter' = DOMAIN emitter /\ emitter'[x] = w
      /\ \A y \in DOMAIN emitter \ {x} : emitter'[y] = emitter[y] /\ Current(y)' = Current(y)
  BY <1>1, <1>3, <1>4, <1>5, <1>6, OneThread
<1>8. Current(x)' = Current(x)
  BY <1>5, <1>7 DEF Current
<1>10. QueueOK' /\ WorkerOK' /\ BegunOK' /\ version' = version
  BY DEF FindFull, QueueOK, WorkerOK, BegunOK, LaneOf, lanes, delivery
<1> QED BY <1>5, <1>7, <1>8, <1>10

LEMMA Enqueues ==
  ASSUME Structure, NEW x \in DOMAIN emitter, Enqueue(x)
  PROVE  /\ Structure'
         /\ DOMAIN emitter' = DOMAIN emitter /\ emitter'[x].at = "ready"
         /\ \A y \in DOMAIN emitter \ {x} : emitter'[y] = emitter[y] /\ Current(y)' = Current(y)
         /\ LaneOf(Current(x)) \in Lane /\ IsEvent(Current(x))
<1> USE DEF Structure
<1> DEFINE w == [Thread(Tail(emitter[x].todo)) EXCEPT !.nth = emitter[x].nth + 1]
           l == LaneOf(Current(x))
           i == Item(Current(x), emitter[x].ver)
<1>1. emitter[x].todo # <<>>
  BY DEF Enqueue, Putting
<1>2. IsEvent(Current(x)) /\ Tail(emitter[x].todo) \in Seq(Type \X Ticker)
  BY <1>1, AtAnEvent
<1>3. emitter[x] \in ThreadType /\ emitter[x].nth + 1 \in Nat /\ emitter[x].ver \in Nat
  BY DEF EmitterOK, ThreadType
<1>4. w \in ThreadType /\ w.at = "ready" /\ ~w.full
  BY <1>2, <1>3, NewThread
<1>5. emitter' = [emitter EXCEPT ![x] = w]
  BY DEF Enqueue
<1> HIDE DEF w
<1>6. /\ EmitterOK' /\ DOMAIN emitter' = DOMAIN emitter /\ emitter'[x] = w
      /\ \A y \in DOMAIN emitter \ {x} : emitter'[y] = emitter[y] /\ Current(y)' = Current(y)
  BY <1>4, <1>5, OneThread
<1>7. l \in Lane
  <2>1. Hash[Current(x).ticker] \in Nat /\ Workers[Current(x).type] \in Nat \ {0}
    BY <1>2, BusAssumption DEF IsEvent
  <2>2. Hash[Current(x).ticker] % Workers[Current(x).type] \in 0 .. Workers[Current(x).type] - 1
    BY <2>1
  <2> QED BY <1>2, <2>2 DEF Lane, LaneOf, IsEvent
<1>8. queue' = [queue EXCEPT ![l] = Append(@, i)]
  BY DEF Enqueue
<1>9. i.ev = Current(x) /\ i.ver \in Nat
  BY <1>3 DEF Item
<1>10. QueueOK'
  <2>1. DOMAIN queue' = Lane /\ queue'[l] = Append(queue[l], i)
    BY <1>7, <1>8 DEF QueueOK
  <2>2. queue[l] \in Seq(Range(queue[l]))
    BY <1>7 DEF QueueOK
  <2>3. queue'[l] \in Seq(Range(queue'[l])) /\ Range(queue'[l]) = Range(queue[l]) \cup {i}
    BY <2>1, <2>2, Appended
  <2>4. \A j \in Range(queue'[l]) : IsEvent(j.ev) /\ j.ver \in Nat /\ LaneOf(j.ev) = l
    BY <1>2, <1>7, <1>9, <2>3 DEF QueueOK
  <2>5. \A k \in Lane \ {l} : queue'[k] = queue[k]
    BY <1>8 DEF QueueOK
  <2> QED BY <2>1, <2>3, <2>4, <2>5 DEF QueueOK, LaneOf, IsEvent
<1>11. WorkerOK' /\ BegunOK' /\ version' = version
  BY DEF Enqueue, WorkerOK, BegunOK, delivery
<1> QED BY <1>2, <1>4, <1>6, <1>7, <1>10, <1>11

LEMMA Evicts ==
  ASSUME Structure, NEW x \in DOMAIN emitter, Evict(x)
  PROVE  /\ Structure'
         /\ DOMAIN emitter' = DOMAIN emitter
         /\ \A y \in DOMAIN emitter : Current(y)' = Current(y)
              /\ emitter'[y].at = emitter[y].at /\ emitter'[y].ver = emitter[y].ver
         /\ Policy[Current(x).type] = "oldest"
         /\ \A l \in Lane : queue'[l] = queue[l]
              \/ (queue'[l] = Tail(queue[l]) /\ queue[l] # <<>> /\ l = LaneOf(Current(x)))
<1> USE DEF Structure
<1> DEFINE w == [emitter[x] EXCEPT !.full = FALSE]
<1>1. emitter[x].todo # <<>> /\ Policy[Current(x).type] = "oldest"
  BY DEF Evict, EmitterOK
<1>3. emitter' = [emitter EXCEPT ![x] = w]
  BY DEF Evict
<1>4. emitter[x] \in ThreadType /\ (emitter[x].at = "put" => Current(x).type \in Coalesced)
  BY DEF EmitterOK
<1>5. w \in ThreadType /\ w.todo = emitter[x].todo /\ w.at = emitter[x].at
      /\ w.ver = emitter[x].ver /\ w.nth = emitter[x].nth
  BY <1>4 DEF ThreadType
<1>6. w.todo[1][1] = Current(x).type
  BY <1>5 DEF Current
<1> HIDE DEF w
<1>7. /\ EmitterOK' /\ DOMAIN emitter' = DOMAIN emitter /\ emitter'[x] = w
      /\ \A y \in DOMAIN emitter \ {x} : emitter'[y] = emitter[y] /\ Current(y)' = Current(y)
  BY <1>1, <1>3, <1>4, <1>5, <1>6, OneThread
<1>8. Current(x)' = Current(x)
  BY <1>5, <1>7 DEF Current
<1>9. /\ DOMAIN queue' = Lane
      /\ \A l \in Lane : queue'[l] = queue[l]
           \/ (queue'[l] = Tail(queue[l]) /\ queue[l] # <<>> /\ l = LaneOf(Current(x)))
  <2> DEFINE k == LaneOf(Current(x))
  <2>1. queue' = queue \/ queue' = [queue EXCEPT ![k] = IF @ = <<>> THEN @ ELSE Tail(@)]
    BY DEF Evict
  <2>0. DOMAIN queue = Lane
    BY DEF QueueOK
  <2> HIDE DEF k, Structure
  <2>2. /\ DOMAIN queue' = Lane
        /\ \A l \in Lane : queue'[l] = queue[l]
             \/ (queue'[l] = Tail(queue[l]) /\ queue[l] # <<>> /\ l = k)
    <3>1. CASE queue' = queue
      BY <2>0, <3>1
    <3>2. CASE queue' = [queue EXCEPT ![k] = IF queue[k] = <<>> THEN queue[k] ELSE Tail(queue[k])]
      BY <2>0, <3>2
    <3> QED BY <2>1, <3>1, <3>2
  <2> QED BY <2>2 DEF k
<1>10. QueueOK'
  <2>1. ASSUME NEW l \in Lane
        PROVE  /\ queue'[l] \in Seq(Range(queue'[l]))
               /\ \A i \in Range(queue'[l]) : IsEvent(i.ev) /\ i.ver \in Nat /\ LaneOf(i.ev) = l
    <3>1. CASE queue'[l] = queue[l]
      BY <3>1 DEF QueueOK
    <3>2. CASE queue'[l] = Tail(queue[l]) /\ queue[l] # <<>>
      BY <3>2, Popped DEF QueueOK
    <3> QED BY <1>9, <3>1, <3>2
  <2> QED BY <1>9, <2>1 DEF QueueOK
<1>11. WorkerOK' /\ BegunOK' /\ version' = version
  BY DEF Evict, WorkerOK, BegunOK, delivery
<1> QED BY <1>1, <1>5, <1>7, <1>8, <1>9, <1>10, <1>11

\* The items of a lane that is shortened by its head.
LEMMA Shortened ==
  ASSUME QueueOK, NEW l \in Lane, queue[l] # <<>>,
         queue' = [queue EXCEPT ![l] = Tail(@)]
  PROVE  /\ QueueOK'
         /\ queue'[l] = Tail(queue[l]) /\ \A k \in Lane \ {l} : queue'[k] = queue[k]
         /\ Range(queue[l]) = Range(queue'[l]) \cup {Head(queue[l])}
         /\ IsEvent(Head(queue[l]).ev) /\ Head(queue[l]).ver \in Nat
         /\ LaneOf(Head(queue[l]).ev) = l
<1>1. /\ DOMAIN queue' = Lane /\ queue'[l] = Tail(queue[l])
      /\ \A k \in Lane \ {l} : queue'[k] = queue[k]
  BY DEF QueueOK
<1>2. /\ queue'[l] \in Seq(Range(queue'[l]))
      /\ Range(queue[l]) = Range(queue'[l]) \cup {Head(queue[l])}
  BY <1>1, Popped DEF QueueOK
<1>3. Head(queue[l]) \in Range(queue[l])
  BY <1>2
<1>4. /\ IsEvent(Head(queue[l]).ev) /\ Head(queue[l]).ver \in Nat
      /\ LaneOf(Head(queue[l]).ev) = l
  BY <1>3 DEF QueueOK
<1>5. QueueOK'
  BY <1>1, <1>2 DEF QueueOK
<1> QED BY <1>1, <1>2, <1>4, <1>5

\* The worker after an event, or after one of its handlers.
LEMMA AfterOK ==
  ASSUME WorkerOK, NEW l \in Lane, NEW e, NEW left,
         left # <<>> => IsEvent(e) /\ left \in Seq(Handler),
         worker' = [worker EXCEPT ![l] = After(l, e, left)]
  PROVE  WorkerOK'
<1>1. DOMAIN worker' = Lane /\ worker'[l] = After(l, e, left)
      /\ \A k \in Lane \ {l} : worker'[k] = worker[k]
  BY DEF WorkerOK
<1>2. worker'[l].at \in {"deliver", "wait"} =>
        IsEvent(worker'[l].ev) /\ worker'[l].left \in Seq(Handler) /\ worker'[l].left # <<>>
  <2>1. CASE left = <<>>
    <3>1. worker'[l].at = "ended" \/ worker'[l].at = "get"
      BY <1>1, <2>1 DEF After
    <3> QED BY <3>1
  <2>2. CASE left # <<>>
    BY <1>1, <2>2 DEF After
  <2> QED BY <2>1, <2>2
<1> QED BY <1>1, <1>2 DEF WorkerOK, IsEvent

LEMMA Takes ==
  ASSUME Structure, NEW l \in Lane, Take(l)
  PROVE  Structure'
<1> USE DEF Structure
<1> DEFINE i == Head(queue[l])
<1>1. /\ QueueOK' /\ IsEvent(i.ev) /\ i.ver \in Nat
  BY Shortened DEF Take
<1>2. WorkerOK'
  <2> DEFINE left == IF Fresh(i) THEN Subscribers[i.ev.type] ELSE <<>>
  <2>1. worker' = [worker EXCEPT ![l] = After(l, i.ev, left)]
    BY DEF Take
  <2>2. left # <<>> => left \in Seq(Handler)
    BY <1>1, BusAssumption DEF IsEvent
  <2> HIDE DEF left
  <2> QED BY <1>1, <2>1, <2>2, AfterOK
<1>3. BegunOK'
  <2>1. begun' \subseteq begun \cup {i}
    BY DEF Take
  <2> QED BY <1>1, <2>1 DEF BegunOK, IsEvent
<1>4. EmitterOK' /\ version' = version
  BY DEF Take, EmitterOK, Current
<1> QED BY <1>1, <1>2, <1>3, <1>4

LEMMA StopsTaking ==
  ASSUME Structure, NEW l \in Lane, TakeStop(l)
  PROVE  Structure'
<1>1. EmitterOK' /\ QueueOK' /\ BegunOK' /\ version' = version
  BY DEF Structure, TakeStop, EmitterOK, Current, QueueOK, BegunOK, LaneOf, IsEvent
<1>2. WorkerOK'
  <2>1. /\ DOMAIN worker' = Lane /\ worker'[l].at = "ended"
        /\ \A k \in Lane \ {l} : worker'[k] = worker[k]
    <3>1. worker[l].at = "get" /\ worker' = [worker EXCEPT ![l] = [@ EXCEPT !.at = "ended"]]
      BY DEF TakeStop
    <3> QED BY <3>1 DEF Structure, WorkerOK
  <2> QED BY <2>1 DEF Structure, WorkerOK, IsEvent
<1> QED BY <1>1, <1>2 DEF Structure

\* A worker that goes on behind a handler, as it does in four actions.
LEMMA GoesOn ==
  ASSUME Structure, NEW l \in Lane, worker[l].at \in {"deliver", "wait"}, GoOn(l)
  PROVE  WorkerOK'
<1>1. /\ IsEvent(worker[l].ev) /\ worker[l].left \in Seq(Handler)
      /\ worker[l].left # <<>> /\ WorkerOK
  BY DEF Structure, WorkerOK
<1>2. Tail(worker[l].left) \in Seq(Handler)
  BY <1>1
<1> QED BY <1>1, <1>2, AfterOK DEF GoOn

LEMMA CallsHandler ==
  ASSUME Structure, NEW l \in Lane, CallHandler(l)
  PROVE  /\ Structure'
         /\ \A x \in DOMAIN emitter' : emitter'[x].at = "put" =>
              x \in DOMAIN emitter /\ emitter'[x] = emitter[x] /\ Current(x)' = Current(x)
<1> USE DEF Structure
<1> DEFINE c    == At(l)
           does == Emits[c[2]][c[1].type]
           todo == [i \in DOMAIN does |-> <<does[i], c[1].ticker>>]
<1>1. /\ IsEvent(worker[l].ev) /\ worker[l].left \in Seq(Handler) /\ worker[l].left # <<>>
  BY DEF CallHandler, WorkerOK
<1>2. IsEvent(c[1]) /\ c[2] \in Handler
  BY <1>1, EmptySeq DEF At
<1>3. does \in Seq(Type)
  BY <1>2, BusAssumption DEF IsEvent
<1>4. todo \in Seq(Type \X Ticker)
  <2> HIDE DEF does, c
  <2>1. Len(does) \in Nat /\ DOMAIN does = 1 .. Len(does) /\ \A i \in DOMAIN does : does[i] \in Type
    BY <1>3
  <2>2. todo \in [1 .. Len(does) -> Type \X Ticker]
    BY <1>2, <2>1 DEF IsEvent
  <2> QED BY <2>1, <2>2, SeqDef
<1>5. emitter' = [x \in DOMAIN emitter \cup {c} |-> IF x = c THEN Thread(todo) ELSE emitter[x]]
  BY DEF CallHandler
<1> HIDE DEF todo, c
<1>6. Thread(todo) \in ThreadType /\ Thread(todo).at = "ready" /\ ~Thread(todo).full
  BY <1>4 DEF Thread, ThreadType
<1>7. /\ DOMAIN emitter' = DOMAIN emitter \cup {c} /\ emitter'[c] = Thread(todo)
      /\ \A x \in DOMAIN emitter \ {c} : emitter'[x] = emitter[x] /\ Current(x)' = Current(x)
  BY <1>5 DEF Current
<1>8. EmitterOK'
  BY <1>6, <1>7 DEF EmitterOK
<1>9. \A x \in DOMAIN emitter' : emitter'[x].at = "put" =>
        x \in DOMAIN emitter /\ emitter'[x] = emitter[x] /\ Current(x)' = Current(x)
  BY <1>6, <1>7
<1>10. WorkerOK'
  <2>1. worker[l].at = "deliver" /\ worker' = [worker EXCEPT ![l] = [@ EXCEPT !.at = "wait"]]
    BY DEF CallHandler
  <2>2. /\ DOMAIN worker' = Lane /\ \A k \in Lane \ {l} : worker'[k] = worker[k]
        /\ worker'[l] = [worker[l] EXCEPT !.at = "wait"]
    BY <2>1 DEF WorkerOK
  <2>3. worker'[l].ev = worker[l].ev /\ worker'[l].left = worker[l].left
    BY <2>2
  <2> QED BY <1>1, <2>2, <2>3 DEF WorkerOK, IsEvent
<1>11. QueueOK' /\ BegunOK' /\ version' = version
  BY DEF CallHandler, lanes, QueueOK, BegunOK, LaneOf, IsEvent
<1> QED BY <1>8, <1>9, <1>10, <1>11

LEMMA EndsCall ==
  ASSUME Structure, NEW c \in DOMAIN emitter, HandlerReturns(c) \/ HandlerRaises(c)
  PROVE  /\ Structure'
         /\ DOMAIN emitter' \subseteq DOMAIN emitter
         /\ \A x \in DOMAIN emitter' : emitter'[x] = emitter[x] /\ Current(x)' = Current(x)
         /\ UNCHANGED <<version, queue, begun, emitted>>
<1> USE DEF Structure
<1>1. emitter' = Restrict(emitter, DOMAIN emitter \ {c})
  BY DEF HandlerReturns, HandlerRaises, EndCall
<1>2. /\ DOMAIN emitter' \subseteq DOMAIN emitter
      /\ \A x \in DOMAIN emitter' : emitter'[x] = emitter[x] /\ Current(x)' = Current(x)
  BY <1>1 DEF Restrict, Current
<1>3. EmitterOK'
  BY <1>2 DEF EmitterOK
<1>4. UNCHANGED <<version, queue, begun, emitted>>
  BY DEF HandlerReturns, HandlerRaises, EndCall, lanes
<1>5. QueueOK' /\ BegunOK'
  BY <1>4 DEF QueueOK, BegunOK, LaneOf, IsEvent
<1>6. WorkerOK'
  <2>1. worker' = worker \/ \E l \in WaitingFor(c) : GoOn(l)
    BY DEF HandlerReturns, HandlerRaises, EndCall
  <2>2. CASE worker' = worker
    BY <2>2 DEF WorkerOK, IsEvent
  <2>3. ASSUME NEW l \in WaitingFor(c), GoOn(l)
        PROVE  WorkerOK'
    BY <2>3, GoesOn DEF WaitingFor
  <2> QED BY <2>1, <2>2, <2>3
<1> QED BY <1>2, <1>3, <1>4, <1>5, <1>6

\* The other steps change nothing that the structure is about but a worker.
Quiet == UNCHANGED <<emitter, version, queue, begun, emitted>>

LEMMA QuietSteps ==
  ASSUME Structure,
         \/ \E l \in Lane : SkipHandler(l) \/ Timeout(l)
         \/ \E k \in Key : CoolDown(k)
         \/ SignalStop \/ Join \/ UNCHANGED vars
  PROVE  Structure' /\ Quiet
<1>1. Quiet
  BY DEF Quiet, SkipHandler, Timeout, CoolDown, SignalStop, Join, vars, lanes, delivery
<1>2. (EmitterOK /\ QueueOK /\ BegunOK /\ version \in [Type \X Ticker -> Nat])'
  BY <1>1 DEF Quiet, Structure, EmitterOK, Current, QueueOK, BegunOK, LaneOf, IsEvent
<1>3. WorkerOK'
  <2>1. CASE UNCHANGED worker
    BY <2>1 DEF Structure, WorkerOK, IsEvent
  <2>2. ASSUME NEW l \in Lane, SkipHandler(l) \/ Timeout(l)
        PROVE  WorkerOK'
    BY <2>2, GoesOn DEF SkipHandler, Timeout, GoOn
  <2>3. CASE (\E k \in Key : CoolDown(k)) \/ SignalStop \/ Join \/ UNCHANGED vars
    BY <2>1, <2>3 DEF CoolDown, SignalStop, Join, vars, delivery
  <2> QED BY <2>2, <2>3
<1> QED BY <1>1, <1>2, <1>3 DEF Structure

\* Every step is one of these.
LEMMA Steps ==
  ASSUME [Next]_vars
  PROVE  \/ \E x \in DOMAIN emitter : TakeVersion(x) \/ Enqueue(x) \/ FindFull(x) \/ Evict(x)
         \/ \E l \in Lane : Take(l) \/ TakeStop(l) \/ CallHandler(l)
         \/ \E c \in DOMAIN emitter : HandlerReturns(c) \/ HandlerRaises(c)
         \/ \/ \E l \in Lane : SkipHandler(l) \/ Timeout(l)
            \/ \E k \in Key : CoolDown(k)
            \/ SignalStop \/ Join \/ UNCHANGED vars
BY DEF Next, Emitting, Working, Calls

LEMMA StructureInit == Init => Structure
<1> SUFFICES ASSUME Init PROVE Structure
  OBVIOUS
<1>1. /\ DOMAIN emitter = Sources
      /\ \A x \in Sources : /\ emitter[x] \in ThreadType
                            /\ emitter[x].at = "ready" /\ ~emitter[x].full
  <2>1. ASSUME NEW s \in Source
        PROVE  Script[s] \in Seq(Type \X Ticker) /\ emitter[<<s>>] = Thread(Script[s])
    BY BusAssumption DEF Init, Sources
  <2>2. \A todo \in Seq(Type \X Ticker) :
           Thread(todo) \in ThreadType /\ Thread(todo).at = "ready" /\ ~Thread(todo).full
    BY DEF Thread, ThreadType
  <2>3. DOMAIN emitter = Sources /\ \A x \in Sources : \E s \in Source : x = <<s>>
    BY DEF Init, Sources
  <2> QED BY <2>1, <2>2, <2>3
<1>2. EmitterOK
  BY <1>1 DEF EmitterOK
<1>3. QueueOK
  <2>1. DOMAIN queue = Lane /\ \A l \in Lane : queue[l] = <<>>
    BY DEF Init
  <2>2. Range(<<>>) = {} /\ <<>> \in Seq({})
    BY DEF Range
  <2>3. \A l \in Lane : Range(queue[l]) = {} /\ queue[l] \in Seq({})
    BY <2>1, <2>2
  <2> QED BY <2>1, <2>3 DEF QueueOK
<1>4. WorkerOK
  BY DEF Init, WorkerOK, Parked
<1>5. BegunOK /\ version \in [Type \X Ticker -> Nat]
  BY DEF Init, BegunOK
<1> QED BY <1>2, <1>3, <1>4, <1>5 DEF Structure

LEMMA StructureNext == Structure /\ [Next]_vars => Structure'
<1> SUFFICES ASSUME Structure, [Next]_vars PROVE Structure'
  OBVIOUS
<1>1. ASSUME NEW x \in DOMAIN emitter, TakeVersion(x) \/ Enqueue(x) \/ FindFull(x) \/ Evict(x)
      PROVE  Structure'
  BY <1>1, TakesVersion, Enqueues, FindsFull, Evicts
<1>2. ASSUME NEW l \in Lane, Take(l) \/ TakeStop(l) \/ CallHandler(l)
      PROVE  Structure'
  BY <1>2, Takes, StopsTaking, CallsHandler
<1>3. ASSUME NEW c \in DOMAIN emitter, HandlerReturns(c) \/ HandlerRaises(c)
      PROVE  Structure'
  BY <1>3, EndsCall
<1> QED BY <1>1, <1>2, <1>3, QuietSteps, Steps

---------------------------------------------------------------------------
(* An event of the order path is never dropped: its lane is never evicted  *)
(* from, as all events of a lane are of one type, and no version is        *)
(* compared when it is taken.                                              *)

\* An item stays waiting, or begins to be delivered.
Stays(e) == e \in Begun' \cup Waiting(LaneOf(e))'

LEMMA StillThere ==
  ASSUME NEW e, e \in Begun \cup Waiting(LaneOf(e)),
         begun \subseteq begun', queue'[LaneOf(e)] = queue[LaneOf(e)]
  PROVE  Stays(e)
BY DEF Stays, Begun, Waiting

LEMMA CriticalStays ==
  ASSUME Structure, [Next]_vars, NEW e, IsEvent(e), LaneOf(e) \in Lane, Critical(e),
         e \in Begun \cup Waiting(LaneOf(e))
  PROVE  Stays(e)
<1>1. ASSUME NEW x \in DOMAIN emitter, TakeVersion(x) \/ FindFull(x)
      PROVE  Stays(e)
  BY <1>1, StillThere DEF TakeVersion, FindFull, lanes, delivery
<1>2. ASSUME NEW x \in DOMAIN emitter, Enqueue(x)
      PROVE  Stays(e)
  <2> DEFINE l == LaneOf(Current(x))
             i == Item(Current(x), emitter[x].ver)
  <2>1. begun' = begun /\ queue' = [queue EXCEPT ![l] = Append(@, i)] /\ l \in Lane
    BY <1>2, Enqueues DEF Enqueue, delivery
  <2>2. CASE l # LaneOf(e)
    <3> HIDE DEF l
    <3>1. queue'[LaneOf(e)] = queue[LaneOf(e)]
      BY <2>1, <2>2 DEF Structure, QueueOK
    <3> QED BY <2>1, <3>1, StillThere
  <2>3. CASE l = LaneOf(e)
    <3>1. queue'[l] = Append(queue[l], i) /\ queue[l] \in Seq(Range(queue[l]))
      BY <2>1 DEF Structure, QueueOK
    <3>2. Range(queue[l]) \subseteq Range(queue'[l])
      BY <3>1, Appended
    <3> QED BY <2>1, <2>3, <3>2 DEF Stays, Begun, Waiting
  <2> QED BY <2>2, <2>3
<1>3. ASSUME NEW x \in DOMAIN emitter, Evict(x)
      PROVE  Stays(e)
  <2>1. begun' = begun
    BY <1>3 DEF Evict, delivery
  <2>2. LaneOf(e) # LaneOf(Current(x))
    BY <1>3, Evicts DEF LaneOf, Critical
  <2>3. queue'[LaneOf(e)] = queue[LaneOf(e)]
    BY <1>3, <2>2, Evicts
  <2> QED BY <2>1, <2>3, StillThere
<1>4. ASSUME NEW l \in Lane, Take(l)
      PROVE  Stays(e)
  <2> DEFINE i == Head(queue[l])
  <2>1. /\ Range(queue[l]) = Range(queue'[l]) \cup {i} /\ LaneOf(i.ev) = l
        /\ \A k \in Lane \ {l} : queue'[k] = queue[k]
    BY <1>4, Shortened DEF Take, Structure
  <2>2. begun \subseteq begun' /\ (Fresh(i) => i \in begun')
    BY <1>4 DEF Take
  <2>3. CASE LaneOf(e) # l
    BY <2>1, <2>2, <2>3, StillThere
  <2>4. CASE LaneOf(e) = l
    <3>1. i.ev.type = e.type
      BY <2>1, <2>4 DEF LaneOf
    <3>2. Fresh(i)
      BY <3>1, BusAssumption DEF Fresh, Critical
    <3> QED BY <2>1, <2>2, <2>4, <3>2 DEF Stays, Begun, Waiting
  <2> QED BY <2>3, <2>4
<1>5. ASSUME NEW l \in Lane, TakeStop(l) \/ CallHandler(l)
      PROVE  Stays(e)
  BY <1>5, StillThere DEF TakeStop, CallHandler, lanes
<1>6. ASSUME NEW c \in DOMAIN emitter, HandlerReturns(c) \/ HandlerRaises(c)
      PROVE  Stays(e)
  BY <1>6, StillThere, EndsCall
<1> QED BY <1>1, <1>2, <1>3, <1>4, <1>5, <1>6, Steps, QuietSteps, StillThere DEF Quiet

\* What has been emitted is an event of a lane.
EmittedOK == \A e \in emitted : IsEvent(e) /\ LaneOf(e) \in Lane

\* A step emits nothing, or the event that Enqueue appends to its lane.
LEMMA Emission ==
  ASSUME Structure, [Next]_vars
  PROVE  \/ emitted' = emitted
         \/ \E x \in DOMAIN emitter : /\ Enqueue(x)
                                      /\ emitted' = emitted \cup {Current(x)}
BY Steps, QuietSteps, EndsCall
   DEF TakeVersion, Enqueue, FindFull, Evict, Take, TakeStop, CallHandler, Quiet

KeptInv == Structure /\ EmittedOK /\ CriticalKept

LEMMA KeptNext == KeptInv /\ [Next]_vars => KeptInv'
<1> SUFFICES ASSUME KeptInv, [Next]_vars PROVE KeptInv'
  OBVIOUS
<1> USE DEF KeptInv
<1>1. Structure'
  BY StructureNext
<1>2. ASSUME NEW e \in emitted
      PROVE  /\ IsEvent(e) /\ LaneOf(e) \in Lane
             /\ Critical(e) => e \in Begun' \cup Waiting(LaneOf(e))'
  BY CriticalStays DEF EmittedOK, CriticalKept, Stays
<1>3. ASSUME NEW x \in DOMAIN emitter, Enqueue(x), NEW e, e = Current(x)
      PROVE  IsEvent(e) /\ LaneOf(e) \in Lane /\ e \in Waiting(LaneOf(e))'
  <2> DEFINE l == LaneOf(e)
             i == Item(e, emitter[x].ver)
  <2>1. queue' = [queue EXCEPT ![l] = Append(@, i)] /\ l \in Lane /\ IsEvent(e)
    BY <1>3, Enqueues DEF Enqueue
  <2>2. queue'[l] = Append(queue[l], i) /\ queue[l] \in Seq(Range(queue[l]))
    BY <2>1 DEF Structure, QueueOK
  <2>3. i \in Range(queue'[l]) /\ i.ev = e
    BY <2>2, Appended DEF Item
  <2> QED BY <2>1, <2>3 DEF Waiting
<1>4. \A e \in emitted' : /\ IsEvent(e) /\ LaneOf(e) \in Lane
                          /\ Critical(e) => e \in Begun' \cup Waiting(LaneOf(e))'
  <2>1. CASE emitted' = emitted
    BY <1>2, <2>1
  <2>2. ASSUME NEW x \in DOMAIN emitter, Enqueue(x), emitted' = emitted \cup {Current(x)},
               NEW e \in emitted'
        PROVE  /\ IsEvent(e) /\ LaneOf(e) \in Lane
               /\ Critical(e) => e \in Begun' \cup Waiting(LaneOf(e))'
    <3>1. CASE e \in emitted
      BY <1>2, <3>1
    <3>2. CASE e = Current(x)
      BY <1>3, <2>2, <3>2
    <3> QED BY <2>2, <3>1, <3>2
  <2> QED BY <2>1, <2>2, Emission
<1>5. EmittedOK' /\ CriticalKept'
  BY <1>4 DEF EmittedOK, CriticalKept, IsEvent, LaneOf, Critical
<1> QED BY <1>1, <1>5

\* When emit has returned, an event of the order path is in its lane or its
\* delivery has begun, whatever the number of threads, workers and types and
\* whatever their capacities, hash and policies.
THEOREM CriticalNeverLost == Spec => []CriticalKept
<1>1. Init => KeptInv
  BY StructureInit DEF Init, KeptInv, EmittedOK, CriticalKept
<1> QED BY <1>1, KeptNext, PTL DEF Spec, KeptInv

---------------------------------------------------------------------------
(* The versions of a stream are given once, and what is delivered has the  *)
(* latest: a delivery is of a newer version than those before it.          *)

\* What holds a version after a step held it before.
SameHolders ==
  \A y \in DOMAIN emitter' : emitter'[y].at = "put" =>
    /\ y \in DOMAIN emitter /\ emitter[y].at = "put"
    /\ emitter'[y].ver = emitter[y].ver /\ Current(y)' = Current(y)

LEMMA NumberedHeld ==
  ASSUME Numbered, SameHolders, UNCHANGED <<version, begun>>,
         \A l \in Lane : queue'[l] = queue[l]
  PROVE  Numbered'
<1>1. PutNumbered'
  BY DEF Numbered, PutNumbered, SameHolders, Same, Stream
<1>2. LaneNumbered' /\ BegunNumbered'
  BY DEF Numbered, LaneNumbered, BegunNumbered, Same, Stream
<1> QED BY <1>1, <1>2 DEF Numbered

\* The head of a lane leaves it, perhaps to be delivered.
LEMMA NumberedShifted ==
  ASSUME Structure, Numbered, SameHolders, version' = version, NEW l \in Lane, queue[l] # <<>>,
         queue'[l] = Tail(queue[l]), \A k \in Lane \ {l} : queue'[k] = queue[k],
         begun' \subseteq begun \cup {Head(queue[l])}
  PROVE  Numbered'
<1> DEFINE i == Head(queue[l])
<1>1. /\ 1 \in DOMAIN queue[l] /\ i = queue[l][1] /\ LaneOf(i.ev) = l
      /\ \A n \in DOMAIN queue'[l] : n + 1 \in DOMAIN queue[l] /\ n + 1 # 1 /\ queue'[l][n] = queue[l][n + 1]
      /\ \A m, n \in DOMAIN queue'[l] : m # n => m + 1 # n + 1
  <2>1. queue[l] \in Seq(Range(queue[l]))
    BY DEF Structure, QueueOK
  <2>2. Tail(queue[l]) \in Seq(Range(Tail(queue[l])))
    BY <2>1, Popped
  <2>3. \A n \in DOMAIN queue'[l] : n \in Nat
    BY <2>2
  <2>4. i \in Range(queue[l])
    BY <2>1, Popped
  <2> QED BY <2>1, <2>3, <2>4, Popped DEF Structure, QueueOK
<1> HIDE DEF i
<1>2. \A k \in Lane : \A m \in DOMAIN queue[k] : LaneOf(queue[k][m].ev) = k
  BY DEF Structure, QueueOK, Range
<1>3. \A d, e : Same(d, e) => LaneOf(d) = LaneOf(e)
  BY DEF Same, Stream, LaneOf
<1>4. \A j \in begun' : j \in begun \/ j = queue[l][1]
  BY <1>1 DEF i
<1>5. PutNumbered'
  <2> SUFFICES ASSUME NEW x \in DOMAIN emitter', emitter'[x].at = "put"
               PROVE  /\ emitter'[x].ver <= version'[Stream(Current(x)')]
                      /\ \A y \in DOMAIN emitter' \ {x} : emitter'[y].at = "put"
                           /\ Same(Current(x)', Current(y)') => emitter'[x].ver # emitter'[y].ver
                      /\ \A k \in Lane : \A m \in DOMAIN queue'[k] :
                           Same(Current(x)', queue'[k][m].ev) => emitter'[x].ver # queue'[k][m].ver
                      /\ \A j \in begun' : Same(Current(x)', j.ev) => emitter'[x].ver # j.ver
    BY DEF PutNumbered, Same, Stream
  <2> DEFINE e == Current(x)
  <2>1. /\ x \in DOMAIN emitter /\ emitter[x].at = "put" /\ emitter'[x].ver = emitter[x].ver
        /\ Current(x)' = e
    BY DEF SameHolders
  <2>2. /\ emitter[x].ver <= version[Stream(e)]
        /\ \A y \in DOMAIN emitter \ {x} :
             emitter[y].at = "put" /\ Same(e, Current(y)) => emitter[x].ver # emitter[y].ver
        /\ \A k \in Lane : \A m \in DOMAIN queue[k] :
             Same(e, queue[k][m].ev) => emitter[x].ver # queue[k][m].ver
        /\ \A j \in begun : Same(e, j.ev) => emitter[x].ver # j.ver
    BY <2>1 DEF Numbered, PutNumbered
  <2> HIDE DEF e
  <2>3. \A y \in DOMAIN emitter' \ {x} : emitter'[y].at = "put"
          /\ Same(e, Current(y)') => emitter'[x].ver # emitter'[y].ver
    BY <2>1, <2>2 DEF SameHolders
  <2>4. \A k \in Lane : \A m \in DOMAIN queue'[k] :
          Same(e, queue'[k][m].ev) => emitter'[x].ver # queue'[k][m].ver
    <3>1. \A m \in DOMAIN queue'[l] :
            Same(e, queue'[l][m].ev) => emitter'[x].ver # queue'[l][m].ver
      BY <1>1, <2>1, <2>2
    <3>2. ASSUME NEW k \in Lane \ {l}, NEW m \in DOMAIN queue'[k], Same(e, queue'[k][m].ev)
          PROVE  emitter'[x].ver # queue'[k][m].ver
      <4>1. queue'[k] = queue[k]
        OBVIOUS
      <4> QED BY <2>1, <2>2, <3>2, <4>1
    <3> QED BY <3>1, <3>2
  <2>5. \A j \in begun' : Same(e, j.ev) => emitter'[x].ver # j.ver
    BY <1>1, <1>4, <2>1, <2>2
  <2> QED BY <2>1, <2>2, <2>3, <2>4, <2>5
<1>6. LaneNumbered'
  <2> SUFFICES ASSUME NEW k \in Lane, NEW m \in DOMAIN queue'[k], queue'[k][m].ev.type \in Coalesced
               PROVE  /\ queue'[k][m].ver <= version[Stream(queue'[k][m].ev)]
                      /\ \A n \in DOMAIN queue'[k] \ {m} :
                           Same(queue'[k][m].ev, queue'[k][n].ev) => queue'[k][m].ver # queue'[k][n].ver
                      /\ \A j \in begun' : Same(queue'[k][m].ev, j.ev) => queue'[k][m].ver # j.ver
    BY DEF LaneNumbered, Same, Stream
  <2>1. CASE k = l
    <3>1. m + 1 \in DOMAIN queue[l] /\ m + 1 # 1 /\ queue'[l][m] = queue[l][m + 1]
      BY <1>1, <2>1
    <3>2. /\ queue[l][m + 1].ver <= version[Stream(queue[l][m + 1].ev)]
          /\ \A n \in DOMAIN queue[l] \ {m + 1} :
               Same(queue[l][m + 1].ev, queue[l][n].ev) => queue[l][m + 1].ver # queue[l][n].ver
          /\ \A j \in begun : Same(queue[l][m + 1].ev, j.ev) => queue[l][m + 1].ver # j.ver
      BY <2>1, <3>1 DEF Numbered, LaneNumbered
    <3>3. \A n \in DOMAIN queue'[l] \ {m} :
            Same(queue'[l][m].ev, queue'[l][n].ev) => queue'[l][m].ver # queue'[l][n].ver
      BY <1>1, <2>1, <3>1, <3>2
    <3>4. \A j \in begun' : Same(queue'[l][m].ev, j.ev) => queue'[l][m].ver # j.ver
      BY <1>1, <1>4, <3>1, <3>2
    <3> QED BY <2>1, <3>1, <3>2, <3>3, <3>4
  <2>2. CASE k # l
    <3>1. queue'[k] = queue[k]
      BY <2>2
    <3>2. ~Same(queue[k][m].ev, queue[l][1].ev)
      BY <1>1, <1>2, <1>3, <2>2, <3>1
    <3>3. \A j \in begun : Same(queue[k][m].ev, j.ev) => queue[k][m].ver # j.ver
      BY <3>1 DEF Numbered, LaneNumbered
    <3>4. \A j \in begun' : Same(queue[k][m].ev, j.ev) => queue[k][m].ver # j.ver
      BY <1>4, <3>2, <3>3
    <3>5. /\ queue[k][m].ver <= version[Stream(queue[k][m].ev)]
          /\ \A n \in DOMAIN queue[k] \ {m} :
               Same(queue[k][m].ev, queue[k][n].ev) => queue[k][m].ver # queue[k][n].ver
      BY <3>1 DEF Numbered, LaneNumbered
    <3> QED BY <3>1, <3>4, <3>5
  <2> QED BY <2>1, <2>2
<1>7. BegunNumbered'
  BY <1>1, <1>4 DEF Numbered, LaneNumbered, BegunNumbered, Stream
<1> QED BY <1>5, <1>6, <1>7 DEF Numbered

LEMMA NumberedTaken ==
  ASSUME Structure, Numbered, NEW x \in DOMAIN emitter, TakeVersion(x)
  PROVE  Numbered'
<1> DEFINE s == Stream(Current(x))
<1>1. /\ DOMAIN emitter' = DOMAIN emitter
      /\ \A y \in DOMAIN emitter \ {x} : emitter'[y] = emitter[y] /\ Current(y)' = Current(y)
      /\ Current(x)' = Current(x) /\ s \in Type \X Ticker
      /\ emitter'[x].at = "put" /\ emitter'[x].ver = version[s] + 1
  BY TakesVersion
<1>2. /\ version \in [Type \X Ticker -> Nat] /\ emitter[x].at = "ready"
      /\ version' = [version EXCEPT ![s] = version[s] + 1]
      /\ queue' = queue /\ begun' = begun
  BY DEF TakeVersion, Structure, lanes, delivery
<1>3. \A d, e : Same(d, e) => Stream(d) = Stream(e)
  BY DEF Same
<1>4. \A e : IsEvent(e) => /\ Stream(e) \in Type \X Ticker
                           /\ version[Stream(e)] \in Nat /\ version'[Stream(e)] \in Nat
                           /\ version[Stream(e)] <= version'[Stream(e)]
                           /\ Stream(e) = s => version'[Stream(e)] = version[s] + 1
  <2> HIDE DEF s
  <2>1. \A e : IsEvent(e) => Stream(e) \in Type \X Ticker
    BY DEF IsEvent, Stream
  <2>2. ASSUME NEW e, IsEvent(e)
        PROVE  /\ version[Stream(e)] \in Nat /\ version'[Stream(e)] \in Nat
               /\ version[Stream(e)] <= version'[Stream(e)]
               /\ Stream(e) = s => version'[Stream(e)] = version[s] + 1
    <3>1. Stream(e) \in Type \X Ticker
      BY <2>1, <2>2
    <3> QED BY <1>1, <1>2, <3>1
  <2> QED BY <2>1, <2>2
<1>5. /\ \A y \in DOMAIN emitter : emitter[y].at = "put" => IsEvent(Current(y)) /\ emitter[y].ver \in Nat
      /\ \A l \in Lane : \A m \in DOMAIN queue[l] :
           IsEvent(queue[l][m].ev) /\ queue[l][m].ver \in Nat
      /\ \A j \in begun : IsEvent(j.ev) /\ j.ver \in Nat
  <2>1. ASSUME NEW y \in DOMAIN emitter, emitter[y].at = "put"
        PROVE  IsEvent(Current(y)) /\ emitter[y].ver \in Nat
    <3>1. emitter[y].todo # <<>> /\ emitter[y] \in ThreadType
      BY <2>1 DEF Structure, EmitterOK
    <3> QED BY <3>1, AtAnEvent DEF Structure, ThreadType
  <2>2. \A l \in Lane : \A m \in DOMAIN queue[l] :
          IsEvent(queue[l][m].ev) /\ queue[l][m].ver \in Nat
    BY DEF Structure, QueueOK, Range
  <2> QED BY <2>1, <2>2 DEF Structure, BegunOK
<1>6. Current(x).type \in Coalesced
  BY DEF TakeVersion
<1> HIDE DEF s
\* No version of the stream is above the one it had.
<1>7. /\ \A y \in DOMAIN emitter \ {x} : emitter[y].at = "put" /\ Stream(Current(y)) = s =>
           emitter[y].ver < version[s] + 1
      /\ \A l \in Lane : \A m \in DOMAIN queue[l] :
           queue[l][m].ev.type \in Coalesced /\ Stream(queue[l][m].ev) = s =>
             queue[l][m].ver < version[s] + 1
      /\ \A j \in begun : j.ev.type \in Coalesced /\ Stream(j.ev) = s => j.ver < version[s] + 1
  <2>1. version[s] \in Nat
    BY <1>1, <1>2
  <2>2. \A y \in DOMAIN emitter \ {x} : emitter[y].at = "put" /\ Stream(Current(y)) = s =>
           emitter[y].ver < version[s] + 1
    BY <1>5, <2>1 DEF Numbered, PutNumbered
  <2>3. \A l \in Lane : \A m \in DOMAIN queue[l] :
           queue[l][m].ev.type \in Coalesced /\ Stream(queue[l][m].ev) = s =>
             queue[l][m].ver < version[s] + 1
    BY <1>5, <2>1 DEF Numbered, LaneNumbered
  <2>4. \A j \in begun : j.ev.type \in Coalesced /\ Stream(j.ev) = s => j.ver < version[s] + 1
    BY <1>5, <2>1 DEF Numbered, BegunNumbered
  <2> QED BY <2>2, <2>3, <2>4
<1>8. \A d, e : Same(d, e) => d.type \in Coalesced /\ e.type \in Coalesced
  BY DEF Same, Stream
<1>9. PutNumbered'
  <2>1. ASSUME NEW y \in DOMAIN emitter, emitter'[y].at = "put"
        PROVE  /\ emitter'[y].ver <= version'[Stream(Current(y))]
               /\ \A z \in DOMAIN emitter \ {y} : emitter'[z].at = "put"
                    /\ Same(Current(y), Current(z)) => emitter'[y].ver # emitter'[z].ver
               /\ \A l \in Lane : \A m \in DOMAIN queue[l] :
                    Same(Current(y), queue[l][m].ev) => emitter'[y].ver # queue[l][m].ver
               /\ \A j \in begun : Same(Current(y), j.ev) => emitter'[y].ver # j.ver
    <3>1. version[s] \in Nat /\ Stream(Current(x)) = s
      BY <1>1, <1>2 DEF s
    <3>2. CASE y = x
      <4>1. version'[s] = version[s] + 1
        BY <1>1, <1>2
      <4>2. \A z \in DOMAIN emitter \ {x} : emitter'[z].at = "put"
              /\ Same(Current(x), Current(z)) => emitter'[x].ver # emitter'[z].ver
        BY <1>1, <1>3, <1>5, <1>7, <3>1
      <4>3. \A l \in Lane : \A m \in DOMAIN queue[l] :
              Same(Current(x), queue[l][m].ev) => emitter'[x].ver # queue[l][m].ver
        BY <1>1, <1>3, <1>5, <1>7, <1>8, <3>1
      <4>4. \A j \in begun : Same(Current(x), j.ev) => emitter'[x].ver # j.ver
        BY <1>1, <1>3, <1>5, <1>7, <1>8, <3>1
      <4>5. emitter'[x].ver <= version'[Stream(Current(x))]
        BY <1>1, <3>1, <4>1
      <4> QED BY <3>2, <4>2, <4>3, <4>4, <4>5
    <3>3. CASE y # x
      <4>1. emitter'[y] = emitter[y] /\ emitter[y].at = "put"
        BY <1>1, <2>1, <3>3
      <4>2. emitter[y].ver <= version'[Stream(Current(y))]
        BY <1>4, <1>5, <4>1 DEF Numbered, PutNumbered
      <4>3. \A z \in DOMAIN emitter \ {y} : emitter'[z].at = "put"
              /\ Same(Current(y), Current(z)) => emitter[y].ver # emitter'[z].ver
        <5>1. ASSUME NEW z \in DOMAIN emitter \ {x, y}, emitter'[z].at = "put",
                     Same(Current(y), Current(z))
              PROVE  emitter[y].ver # emitter'[z].ver
          <6>1. emitter'[z] = emitter[z]
            BY <1>1
          <6> QED BY <4>1, <5>1, <6>1 DEF Numbered, PutNumbered
        <5>2. Same(Current(y), Current(x)) => emitter[y].ver # emitter'[x].ver
          <6>1. Same(Current(y), Current(x)) => emitter[y].ver < version[s] + 1
            BY <1>3, <1>7, <3>1, <3>3, <4>1
          <6> QED BY <1>1, <1>5, <3>1, <4>1, <6>1
        <5> QED BY <5>1, <5>2
      <4>4. /\ \A l \in Lane : \A m \in DOMAIN queue[l] :
                 Same(Current(y), queue[l][m].ev) => emitter[y].ver # queue[l][m].ver
            /\ \A j \in begun : Same(Current(y), j.ev) => emitter[y].ver # j.ver
        BY <4>1 DEF Numbered, PutNumbered
      <4> QED BY <4>1, <4>2, <4>3, <4>4
    <3> QED BY <3>2, <3>3
  <2>2. \A y \in DOMAIN emitter : Current(y)' = Current(y)
    BY <1>1
  <2> QED BY <1>1, <1>2, <2>1, <2>2 DEF PutNumbered, Same, Stream
<1>10. LaneNumbered'
  <2>1. ASSUME NEW l \in Lane, NEW m \in DOMAIN queue[l], queue[l][m].ev.type \in Coalesced
        PROVE  queue[l][m].ver <= version'[Stream(queue[l][m].ev)]
    <3>1. queue[l][m].ver <= version[Stream(queue[l][m].ev)]
      BY <2>1 DEF Numbered, LaneNumbered
    <3> QED BY <1>4, <1>5, <3>1
  <2> QED BY <1>2, <2>1 DEF Numbered, LaneNumbered, Same, Stream
<1>11. BegunNumbered'
  <2>1. ASSUME NEW j \in begun, j.ev.type \in Coalesced
        PROVE  j.ver <= version'[Stream(j.ev)]
    BY <1>4, <1>5, <2>1 DEF Numbered, BegunNumbered
  <2> QED BY <1>2, <2>1 DEF BegunNumbered, Stream
<1> QED BY <1>9, <1>10, <1>11 DEF Numbered

LEMMA NumberedQueued ==
  ASSUME Structure, Numbered, NEW x \in DOMAIN emitter, Enqueue(x)
  PROVE  Numbered'
<1> DEFINE e == Current(x)
           i == Item(e, emitter[x].ver)
           l == LaneOf(e)
           d == Len(queue[l]) + 1
<1>1. /\ DOMAIN emitter' = DOMAIN emitter /\ emitter'[x].at = "ready"
      /\ \A y \in DOMAIN emitter \ {x} : emitter'[y] = emitter[y] /\ Current(y)' = Current(y)
      /\ l \in Lane
  BY Enqueues
<1>2. /\ version' = version /\ begun' = begun /\ queue' = [queue EXCEPT ![l] = Append(@, i)]
      /\ e.type \in Coalesced => emitter[x].at = "put"
      /\ i.ev = e /\ i.ver = emitter[x].ver
  BY DEF Enqueue, Putting, delivery, Item
<1> HIDE DEF i, l
<1>3. /\ queue'[l] = Append(queue[l], i) /\ queue[l] \in Seq(Range(queue[l]))
      /\ \A k \in Lane \ {l} : queue'[k] = queue[k]
  BY <1>1, <1>2 DEF Structure, QueueOK
<1>4. /\ DOMAIN queue'[l] = DOMAIN queue[l] \cup {d} /\ d \notin DOMAIN queue[l]
      /\ \A n \in DOMAIN queue[l] : queue'[l][n] = queue[l][n]
      /\ queue'[l][d] = i
  BY <1>3, Appended
<1>5. e.type \in Coalesced =>
        /\ emitter[x].ver <= version[Stream(e)]
        /\ \A y \in DOMAIN emitter \ {x} :
             emitter[y].at = "put" /\ Same(e, Current(y)) => emitter[x].ver # emitter[y].ver
        /\ \A k \in Lane : \A m \in DOMAIN queue[k] :
             Same(e, queue[k][m].ev) => emitter[x].ver # queue[k][m].ver
        /\ \A j \in begun : Same(e, j.ev) => emitter[x].ver # j.ver
  BY <1>2 DEF Numbered, PutNumbered
<1>6. \A f, g : Same(f, g) => Same(g, f) /\ f.type \in Coalesced /\ g.type \in Coalesced
  BY DEF Same, Stream
<1> HIDE DEF e, d
<1>7. PutNumbered'
  <2>1. ASSUME NEW y \in DOMAIN emitter', emitter'[y].at = "put"
        PROVE  /\ y # x /\ y \in DOMAIN emitter /\ emitter'[y] = emitter[y] /\ Current(y)' = Current(y)
               /\ emitter[y].ver <= version[Stream(Current(y))]
               /\ \A z \in DOMAIN emitter' \ {y} : emitter'[z].at = "put"
                    /\ Same(Current(y), Current(z)') => emitter[y].ver # emitter'[z].ver
               /\ \A k \in Lane : \A m \in DOMAIN queue'[k] :
                    Same(Current(y), queue'[k][m].ev) => emitter[y].ver # queue'[k][m].ver
               /\ \A j \in begun : Same(Current(y), j.ev) => emitter[y].ver # j.ver
    <3>1. y # x /\ y \in DOMAIN emitter /\ emitter'[y] = emitter[y] /\ Current(y)' = Current(y)
      BY <1>1, <2>1
    <3>2. /\ emitter[y].ver <= version[Stream(Current(y))]
          /\ \A z \in DOMAIN emitter \ {y} : emitter[z].at = "put"
               /\ Same(Current(y), Current(z)) => emitter[y].ver # emitter[z].ver
          /\ \A k \in Lane : \A m \in DOMAIN queue[k] :
               Same(Current(y), queue[k][m].ev) => emitter[y].ver # queue[k][m].ver
          /\ \A j \in begun : Same(Current(y), j.ev) => emitter[y].ver # j.ver
      BY <2>1, <3>1 DEF Numbered, PutNumbered
    <3>3. \A z \in DOMAIN emitter' \ {y} : emitter'[z].at = "put"
            /\ Same(Current(y), Current(z)') => emitter[y].ver # emitter'[z].ver
      <4>1. ASSUME NEW z \in DOMAIN emitter' \ {y}, emitter'[z].at = "put",
                   Same(Current(y), Current(z)')
            PROVE  emitter[y].ver # emitter'[z].ver
        <5>1. z \in DOMAIN emitter \ {x, y} /\ emitter'[z] = emitter[z] /\ Current(z)' = Current(z)
          BY <1>1, <4>1
        <5> QED BY <3>2, <4>1, <5>1
      <4> QED BY <4>1
    <3>4. \A m \in DOMAIN queue'[l] :
            Same(Current(y), queue'[l][m].ev) => emitter[y].ver # queue'[l][m].ver
      <4>1. Same(Current(y), i.ev) => emitter[y].ver # i.ver
        BY <1>2, <1>5, <1>6, <2>1, <3>1
      <4> QED BY <1>1, <1>4, <3>2, <4>1
    <3>5. ASSUME NEW k \in Lane \ {l}, NEW m \in DOMAIN queue'[k], Same(Current(y), queue'[k][m].ev)
          PROVE  emitter[y].ver # queue'[k][m].ver
      BY <1>3, <3>2, <3>5
    <3> QED BY <3>1, <3>2, <3>3, <3>4, <3>5
  <2>2. ASSUME NEW y \in DOMAIN emitter', emitter'[y].at = "put"
        PROVE  /\ emitter'[y].ver <= version'[Stream(Current(y)')]
               /\ \A z \in DOMAIN emitter' \ {y} : emitter'[z].at = "put"
                    /\ Same(Current(y)', Current(z)') => emitter'[y].ver # emitter'[z].ver
               /\ \A k \in Lane : \A m \in DOMAIN queue'[k] :
                    Same(Current(y)', queue'[k][m].ev) => emitter'[y].ver # queue'[k][m].ver
               /\ \A j \in begun' : Same(Current(y)', j.ev) => emitter'[y].ver # j.ver
    BY <1>2, <2>1, <2>2
  <2> QED BY <2>2 DEF PutNumbered, Same, Stream
<1>8. LaneNumbered'
  <2> SUFFICES ASSUME NEW k \in Lane, NEW m \in DOMAIN queue'[k], queue'[k][m].ev.type \in Coalesced
               PROVE  /\ queue'[k][m].ver <= version[Stream(queue'[k][m].ev)]
                      /\ \A n \in DOMAIN queue'[k] \ {m} :
                           Same(queue'[k][m].ev, queue'[k][n].ev) => queue'[k][m].ver # queue'[k][n].ver
                      /\ \A j \in begun : Same(queue'[k][m].ev, j.ev) => queue'[k][m].ver # j.ver
    BY <1>2 DEF LaneNumbered, Same, Stream
  <2>1. CASE k # l
    <3>1. queue'[k] = queue[k]
      BY <1>3, <2>1
    <3> QED BY <3>1 DEF Numbered, LaneNumbered
  <2>2. CASE k = l /\ m = d
    <3>1. queue'[k][m] = i /\ e.type \in Coalesced
      BY <1>2, <1>4, <2>2
    <3>2. \A n \in DOMAIN queue'[k] \ {m} :
            Same(i.ev, queue'[k][n].ev) => i.ver # queue'[k][n].ver
      BY <1>1, <1>2, <1>4, <1>5, <2>2, <3>1
    <3> QED BY <1>2, <1>5, <3>1, <3>2
  <2>3. CASE k = l /\ m # d
    <3>1. m \in DOMAIN queue[l] /\ queue'[k][m] = queue[l][m]
      BY <1>4, <2>3
    <3>2. /\ queue[l][m].ver <= version[Stream(queue[l][m].ev)]
          /\ \A n \in DOMAIN queue[l] \ {m} :
               Same(queue[l][m].ev, queue[l][n].ev) => queue[l][m].ver # queue[l][n].ver
          /\ \A j \in begun : Same(queue[l][m].ev, j.ev) => queue[l][m].ver # j.ver
      BY <1>1, <3>1 DEF Numbered, LaneNumbered
    <3>3. Same(queue[l][m].ev, i.ev) => queue[l][m].ver # i.ver
      BY <1>1, <1>2, <1>5, <1>6, <3>1
    <3>4. \A n \in DOMAIN queue'[l] \ {m} :
            Same(queue[l][m].ev, queue'[l][n].ev) => queue[l][m].ver # queue'[l][n].ver
      BY <1>4, <3>2, <3>3
    <3> QED BY <2>3, <3>1, <3>2, <3>4
  <2> QED BY <2>1, <2>2, <2>3
<1>9. BegunNumbered'
  BY <1>2 DEF Numbered, BegunNumbered, Stream
<1> QED BY <1>7, <1>8, <1>9 DEF Numbered

NumberedInv == Structure /\ Numbered

LEMMA NumberedInit == Init => NumberedInv
<1>1. ASSUME Init PROVE Numbered
  <2>1. /\ \A s \in DOMAIN emitter : emitter[s].at = "ready"
        /\ begun = {} /\ \A l \in Lane : queue[l] = <<>>
    BY <1>1 DEF Init, Thread
  <2>2. \A l \in Lane : DOMAIN queue[l] = {}
    BY <2>1
  <2> QED BY <2>1, <2>2 DEF Numbered, PutNumbered, LaneNumbered, BegunNumbered
<1> QED BY <1>1, StructureInit DEF NumberedInv

LEMMA NumberedNext == NumberedInv /\ [Next]_vars => NumberedInv'
<1> SUFFICES ASSUME Structure, Numbered, [Next]_vars PROVE Structure' /\ Numbered'
  BY DEF NumberedInv
<1>1. Structure'
  BY StructureNext
<1>2. ASSUME NEW x \in DOMAIN emitter, FindFull(x)
      PROVE  Numbered'
  BY <1>2, FindsFull, NumberedHeld DEF SameHolders, FindFull, lanes, delivery
<1>3. ASSUME NEW x \in DOMAIN emitter, Evict(x)
      PROVE  Numbered'
  <2>1. SameHolders /\ version' = version /\ begun' = begun
    BY <1>3, Evicts DEF SameHolders, Evict, delivery
  <2> DEFINE l == LaneOf(Current(x))
  <2>2. \A k \in Lane : queue'[k] = queue[k]
          \/ (queue'[k] = Tail(queue[k]) /\ queue[k] # <<>> /\ k = l)
    BY <1>3, Evicts
  <2> HIDE DEF l
  <2>3. CASE \A k \in Lane : queue'[k] = queue[k]
    BY <2>1, <2>3, NumberedHeld
  <2>4. CASE \E k \in Lane : queue'[k] # queue[k]
    <3>1. l \in Lane /\ queue[l] # <<>> /\ queue'[l] = Tail(queue[l])
          /\ \A k \in Lane \ {l} : queue'[k] = queue[k]
      BY <2>2, <2>4
    <3> QED BY <2>1, <3>1, NumberedShifted
  <2> QED BY <2>3, <2>4
<1>4. ASSUME NEW l \in Lane, Take(l)
      PROVE  Numbered'
  <2>1. SameHolders /\ version' = version
    BY <1>4 DEF Take, SameHolders, Current
  <2>2. /\ queue[l] # <<>> /\ queue'[l] = Tail(queue[l])
        /\ \A k \in Lane \ {l} : queue'[k] = queue[k]
        /\ begun' \subseteq begun \cup {Head(queue[l])}
    BY <1>4, Shortened DEF Take, Structure
  <2> QED BY <2>1, <2>2, NumberedShifted
<1>5. ASSUME NEW l \in Lane, TakeStop(l)
      PROVE  Numbered'
  BY <1>5, NumberedHeld DEF TakeStop, SameHolders, Current
<1>6. ASSUME NEW l \in Lane, CallHandler(l)
      PROVE  Numbered'
  BY <1>6, CallsHandler, NumberedHeld DEF CallHandler, SameHolders, lanes
<1>7. ASSUME NEW c \in DOMAIN emitter, HandlerReturns(c) \/ HandlerRaises(c)
      PROVE  Numbered'
  BY <1>7, EndsCall, NumberedHeld DEF SameHolders
<1>8. ASSUME Quiet
      PROVE  Numbered'
  BY <1>8, NumberedHeld DEF Quiet, SameHolders, Current
<1> QED BY <1>1, <1>2, <1>3, <1>4, <1>5, <1>6, <1>7, <1>8,
           Steps, QuietSteps, NumberedTaken, NumberedQueued

\* Only Take begins a delivery.
LEMMA Beginning ==
  ASSUME Structure, [Next]_vars, begun' # begun
  PROVE  \E l \in Lane : /\ Take(l) /\ Fresh(Head(queue[l]))
                         /\ begun' = begun \cup {Head(queue[l])}
BY Steps, QuietSteps, EndsCall
   DEF TakeVersion, Enqueue, FindFull, Evict, Take, TakeStop, CallHandler, Quiet, delivery

\* Of a coalesced stream, an event whose delivery begins is newer than all
\* those whose delivery has begun, whatever the number of threads that emit
\* into the stream and the order they reach the lane in.
THEOREM NeverBack == Spec => FreshOnly
<1>1. ASSUME NumberedInv, [Next]_vars, NEW i \in begun' \ begun, NEW j \in begun,
             Stream(i.ev) = Stream(j.ev), i.ev.type \in Coalesced
      PROVE  j.ver < i.ver
  <2>1. PICK l \in Lane : /\ Take(l) /\ Fresh(Head(queue[l]))
                          /\ begun' = begun \cup {Head(queue[l])}
    BY <1>1, Beginning DEF NumberedInv
  <2>2. i = Head(queue[l]) /\ Fresh(i)
    BY <2>1
  <2>3. queue[l] \in Seq(Range(queue[l])) /\ queue[l] # <<>>
    BY <1>1, <2>1 DEF NumberedInv, Structure, QueueOK, Take
  <2>4. 1 \in DOMAIN queue[l] /\ i = queue[l][1]
    BY <2>2, <2>3, Popped
  <2>5. i.ver # j.ver
    BY <1>1, <2>4 DEF NumberedInv, Numbered, LaneNumbered, Same
  <2>6. i.ver = version[Stream(i.ev)]
    BY <1>1, <2>2 DEF Fresh
  <2>7. j.ev.type \in Coalesced
    BY <1>1 DEF Stream
  <2>8. j.ver <= i.ver
    BY <1>1, <2>6, <2>7 DEF NumberedInv, Numbered, BegunNumbered
  <2>9. j.ver \in Nat /\ i.ver \in Nat
    BY <1>1, <2>3, <2>4 DEF NumberedInv, Structure, BegunOK, QueueOK, Range
  <2> QED BY <2>5, <2>8, <2>9
<1>2. NumberedInv /\ [Next]_vars =>
        [\A i \in begun' \ begun, j \in begun :
           Stream(i.ev) = Stream(j.ev) /\ i.ev.type \in Coalesced => j.ver < i.ver]_vars
  BY <1>1
<1> QED BY <1>2, NumberedInit, NumberedNext, PTL DEF Spec, FreshOnly
---------------------------------------------------------------------------
(* An event is emitted once, waits once, and is handed once to each of its  *)
(* handlers.                                                               *)

\* Who emits, has emitted or has failed.
Called == DOMAIN emitter \cup dlq \cup {e.by : e \in emitted}

\* A thread has emitted only what is before its place.
PlaceOK == \A e \in emitted : e.nth \in Nat /\ (e.by \in DOMAIN emitter => e.nth < emitter[e.by].nth)

\* It is a source, or it handles an event whose delivery has begun.
CalledOK == \A c \in Called : c \in Sources \/ \E e \in Begun, h \in Handler : c = <<e, h>>

\* No event waits twice, or when its delivery has begun.
LaneWaits(l) ==
  \A m \in DOMAIN queue[l] :
    /\ queue[l][m].ev \in emitted \ Begun
    /\ \A n \in DOMAIN queue[l] \ {m} : queue[l][m].ev # queue[l][n].ev

\* The handlers that a worker has still to call for its event have not been
\* called for it, and the one that it waits for has not failed.
ToCall(l) == IF worker[l].at = "deliver" THEN worker[l].left ELSE Tail(worker[l].left)
LaneDelivers(l) ==
  worker[l].at \in {"deliver", "wait"} =>
    /\ worker[l].ev \in Begun /\ LaneOf(worker[l].ev) = l /\ IsInjective(worker[l].left)
    /\ \A h \in Range(ToCall(l)) : <<worker[l].ev, h>> \notin Called
    /\ At(l) \notin dlq

OnceOK == /\ PlaceOK /\ CalledOK /\ Begun \subseteq emitted
          /\ \A l \in Lane : LaneWaits(l) /\ LaneDelivers(l)

LEMMA CallsApart ==
  ASSUME NEW d, NEW f, NEW e, NEW h
  PROVE  /\ <<e, h>> \notin Sources
         /\ <<d, f>> = <<e, h>> => d = e /\ f = h
BY DEF Sources

LEMMA HandlersApart ==
  ASSUME NEW s \in Seq(Handler), s # <<>>, IsInjective(s)
  PROVE  /\ IsInjective(Tail(s)) /\ Head(s) \in Range(s) /\ Head(s) \in Handler
         /\ Head(s) \notin Range(Tail(s)) /\ Range(Tail(s)) \subseteq Range(s)
<1>1. /\ DOMAIN s = 1 .. Len(s) /\ Len(s) \in Nat /\ Len(s) >= 1 /\ Head(s) = s[1]
      /\ DOMAIN Tail(s) = 1 .. (Len(s) - 1) /\ s[1] \in Handler
      /\ \A n \in 1 .. (Len(s) - 1) : Tail(s)[n] = s[n + 1]
  BY EmptySeq
<1>2. \A m, n \in DOMAIN s : s[m] = s[n] => m = n
  BY DEF IsInjective
<1>3. \A n \in DOMAIN Tail(s) : n + 1 \in DOMAIN s /\ n + 1 # 1 /\ 1 \in DOMAIN s
  BY <1>1
<1>4. \A m, n \in DOMAIN Tail(s) : m + 1 = n + 1 => m = n
  BY <1>1
<1>5. IsInjective(Tail(s))
  BY <1>1, <1>2, <1>3, <1>4 DEF IsInjective
<1> QED BY <1>1, <1>2, <1>3, <1>5 DEF Range

\* What a worker is at.
LEMMA Delivering ==
  ASSUME Structure, NEW l \in Lane, worker[l].at \in {"deliver", "wait"}
  PROVE  /\ worker[l].left \in Seq(Handler) /\ worker[l].left # <<>> /\ IsEvent(worker[l].ev)
         /\ At(l) = <<worker[l].ev, Head(worker[l].left)>> /\ Head(worker[l].left) \in Handler
<1>1. worker[l].left \in Seq(Handler) /\ worker[l].left # <<>> /\ IsEvent(worker[l].ev)
  BY DEF Structure, WorkerOK
<1>2. Head(worker[l].left) \in Handler
  BY <1>1, EmptySeq
<1> QED BY <1>1, <1>2 DEF At

\* A worker that stays where it is, while another thread is called or fails.
LEMMA DeliveryStands ==
  ASSUME OnceOK, NEW l \in Lane, worker'[l] = worker[l], begun \subseteq begun',
         NEW C, Called' \subseteq Called \cup C, dlq' \subseteq dlq \cup C,
         \A c \in C : worker[l].at \in {"deliver", "wait"} => \A h : c # <<worker[l].ev, h>>
  PROVE  LaneDelivers(l)'
<1> SUFFICES ASSUME worker[l].at \in {"deliver", "wait"} PROVE LaneDelivers(l)'
  BY DEF LaneDelivers
<1>1. /\ worker[l].ev \in Begun' /\ LaneOf(worker[l].ev) = l /\ IsInjective(worker[l].left)
      /\ \A h \in Range(ToCall(l)) : <<worker[l].ev, h>> \notin Called
      /\ At(l) \notin dlq
  BY DEF OnceOK, LaneDelivers, Begun
<1>2. ToCall(l)' = ToCall(l) /\ At(l)' = At(l) /\ At(l) = <<worker[l].ev, Head(worker[l].left)>>
  BY DEF ToCall, At
<1>3. \A h \in Range(ToCall(l)') : <<worker[l].ev, h>> \notin Called'
  BY <1>1, <1>2
<1>4. At(l)' \notin dlq'
  BY <1>1, <1>2
<1> QED BY <1>1, <1>3, <1>4 DEF LaneDelivers, LaneOf

LEMMA DeliveryHeld ==
  ASSUME OnceOK, NEW l \in Lane, worker'[l] = worker[l], begun \subseteq begun',
         Called' \subseteq Called, dlq' \subseteq dlq
  PROVE  LaneDelivers(l)'
<1> DEFINE C == {}
<1>1. Called' \subseteq Called \cup C /\ dlq' \subseteq dlq \cup C
  OBVIOUS
<1>2. \A c \in C : worker[l].at \in {"deliver", "wait"} => \A h : c # <<worker[l].ev, h>>
  OBVIOUS
<1> HIDE DEF C
<1> QED BY <1>1, <1>2, DeliveryStands

\* The worker of a lane calls the next handler of its event, or goes behind it.
Advances(l) ==
  /\ worker[l].at \in {"deliver", "wait"}
  /\ \/ worker'[l].at \notin {"deliver", "wait"}
     \/ /\ Tail(worker[l].left) # <<>>
        /\ worker'[l] = [at |-> "deliver", ev |-> worker[l].ev, left |-> Tail(worker[l].left)]
     \/ /\ worker[l].at = "deliver" /\ worker'[l].at = "wait" /\ dlq' = dlq
        /\ worker'[l].ev = worker[l].ev /\ worker'[l].left = worker[l].left

LEMMA DeliveryAdvances ==
  ASSUME Structure, OnceOK, NEW l \in Lane, Advances(l), begun' = begun,
         Called' \subseteq Called \cup {At(l)}
  PROVE  LaneDelivers(l)'
<1> DEFINE e == worker[l].ev
           s == worker[l].left
<1>1. /\ s \in Seq(Handler) /\ s # <<>> /\ At(l) = <<e, Head(s)>>
      /\ worker[l].at \in {"deliver", "wait"}
  BY Delivering DEF Advances
<1>2. /\ e \in Begun' /\ LaneOf(e) = l /\ IsInjective(s)
      /\ \A h \in Range(ToCall(l)) : <<e, h>> \notin Called
  BY <1>1 DEF OnceOK, LaneDelivers, Begun
<1>3. /\ IsInjective(Tail(s)) /\ Head(s) \in Range(s)
      /\ Head(s) \notin Range(Tail(s)) /\ Range(Tail(s)) \subseteq Range(s)
  BY <1>1, <1>2, HandlersApart
<1>4. \A h \in Range(Tail(s)) : <<e, h>> \notin Called'
  BY <1>1, <1>2, <1>3, CallsApart DEF ToCall
<1>5. dlq \subseteq Called /\ dlq' \subseteq Called'
  BY DEF Called
<1>6. CASE worker'[l].at \notin {"deliver", "wait"}
  BY <1>6 DEF LaneDelivers
<1>7. CASE /\ Tail(s) # <<>>
           /\ worker'[l] = [at |-> "deliver", ev |-> e, left |-> Tail(s)]
  <2>1. worker'[l].at = "deliver" /\ worker'[l].ev = e /\ worker'[l].left = Tail(s)
    BY <1>7
  <2>2. ToCall(l)' = Tail(s) /\ At(l)' = <<e, Head(Tail(s))>>
    BY <2>1 DEF ToCall, At
  <2>3. Tail(s) \in Seq(Handler)
    BY <1>1
  <2>4. Head(Tail(s)) \in Range(Tail(s))
    BY <1>3, <1>7, <2>3, HandlersApart
  <2>5. At(l)' \notin dlq'
    BY <1>4, <1>5, <2>2, <2>4
  <2> QED BY <1>2, <1>3, <1>4, <2>1, <2>2, <2>5 DEF LaneDelivers, LaneOf
<1>8. CASE /\ worker[l].at = "deliver" /\ worker'[l].at = "wait" /\ dlq' = dlq
           /\ worker'[l].ev = e /\ worker'[l].left = s
  <2>1. ToCall(l)' = Tail(s) /\ At(l)' = <<e, Head(s)>> /\ ToCall(l) = s
    BY <1>8 DEF ToCall, At
  <2>2. At(l)' \notin dlq'
    BY <1>2, <1>3, <1>5, <1>8, <2>1
  <2> QED BY <1>2, <1>4, <1>8, <2>1, <2>2 DEF LaneDelivers, LaneOf
<1> QED BY <1>6, <1>7, <1>8 DEF Advances

\* The steps that neither emit, take nor drop: one worker advances, and
\* its call may begin, end or fail, and nothing else does.
AboutCall(c) ==
  /\ queue' = queue /\ begun' = begun /\ emitted' = emitted
  /\ dlq' \subseteq dlq \cup {c}
  /\ \A x \in DOMAIN emitter' : \/ x \in DOMAIN emitter /\ emitter'[x].nth = emitter[x].nth
                                \/ x = c /\ x \notin Called

LEMMA OnceAdvanced ==
  ASSUME Structure, OnceOK, NEW l \in Lane, Advances(l), AboutCall(At(l)),
         \A k \in Lane \ {l} : worker'[k] = worker[k]
  PROVE  OnceOK'
<1>0. /\ queue' = queue /\ begun' = begun /\ emitted' = emitted
      /\ dlq' \subseteq dlq \cup {At(l)}
      /\ \A x \in DOMAIN emitter' : \/ x \in DOMAIN emitter /\ emitter'[x].nth = emitter[x].nth
                                    \/ x = At(l) /\ x \notin Called
  BY DEF AboutCall
<1>1. /\ At(l) = <<worker[l].ev, Head(worker[l].left)>> /\ Head(worker[l].left) \in Handler
      /\ worker[l].ev \in Begun /\ LaneOf(worker[l].ev) = l
  BY Delivering DEF Advances, OnceOK, LaneDelivers
<1>2. Called' \subseteq Called \cup {At(l)} /\ Begun' = Begun
  BY <1>0 DEF Called, Begun
<1>3. PlaceOK'
  BY <1>0 DEF OnceOK, PlaceOK, Called
<1>4. CalledOK'
  BY <1>0, <1>1, <1>2 DEF OnceOK, CalledOK
<1>5. \A k \in Lane : LaneWaits(k)'
  BY <1>0, <1>2 DEF OnceOK, LaneWaits
<1>6. LaneDelivers(l)'
  BY <1>0, <1>2, DeliveryAdvances
<1>7. ASSUME NEW k \in Lane \ {l}
      PROVE  LaneDelivers(k)'
  <2>1. worker[k].at \in {"deliver", "wait"} => LaneOf(worker[k].ev) = k
    BY DEF OnceOK, LaneDelivers
  <2>2. \A c \in {At(l)} : worker[k].at \in {"deliver", "wait"} => \A h : c # <<worker[k].ev, h>>
    BY <1>1, <2>1, CallsApart
  <2> QED BY <1>0, <1>2, <2>2, DeliveryStands
<1> QED BY <1>0, <1>2, <1>3, <1>4, <1>5, <1>6, <1>7 DEF OnceOK

\* Those that leave the calls alone as well.
LEMMA OnceHeld ==
  ASSUME OnceOK, UNCHANGED <<queue, begun, emitted, dlq>>,
         \A l \in Lane : worker'[l] = worker[l] \/ worker'[l].at \notin {"deliver", "wait"},
         \A x \in DOMAIN emitter' : x \in DOMAIN emitter /\ emitter'[x].nth = emitter[x].nth
  PROVE  OnceOK'
<1>1. Called' \subseteq Called /\ Begun' = Begun
  BY DEF Called, Begun
<1>2. PlaceOK' /\ CalledOK'
  BY <1>1 DEF OnceOK, PlaceOK, CalledOK
<1>3. \A l \in Lane : LaneWaits(l)'
  BY <1>1 DEF OnceOK, LaneWaits
<1>4. ASSUME NEW l \in Lane
      PROVE  LaneDelivers(l)'
  <2>1. CASE worker'[l] = worker[l]
    BY <1>1, <2>1, DeliveryHeld
  <2>2. CASE worker'[l].at \notin {"deliver", "wait"}
    BY <2>2 DEF LaneDelivers
  <2> QED BY <2>1, <2>2
<1> QED BY <1>1, <1>2, <1>3, <1>4 DEF OnceOK

\* An event that is put into its lane has not been emitted before.
LEMMA OnceQueued ==
  ASSUME Structure, OnceOK, NEW x \in DOMAIN emitter, Enqueue(x)
  PROVE  OnceOK' /\ Current(x) \notin emitted
<1> DEFINE e == Current(x)
           i == Item(e, emitter[x].ver)
           l == LaneOf(e)
           d == Len(queue[l]) + 1
<1>1. /\ DOMAIN emitter' = DOMAIN emitter /\ l \in Lane
      /\ \A y \in DOMAIN emitter \ {x} : emitter'[y] = emitter[y]
  BY Enqueues
<1>2. /\ begun' = begun /\ queue' = [queue EXCEPT ![l] = Append(@, i)] /\ i.ev = e
      /\ emitted' = emitted \cup {e} /\ worker' = worker /\ dlq' = dlq
      /\ emitter'[x].nth = emitter[x].nth + 1
  BY DEF Enqueue, delivery, Item, Thread
<1>3. e.by = x /\ e.nth = emitter[x].nth /\ emitter[x].nth \in Nat
  BY DEF Current, Structure, EmitterOK, ThreadType
<1> HIDE DEF e, i, l
<1>4. e \notin emitted
  BY <1>3 DEF OnceOK, PlaceOK
<1>5. /\ queue'[l] = Append(queue[l], i) /\ queue[l] \in Seq(Range(queue[l]))
      /\ \A k \in Lane \ {l} : queue'[k] = queue[k]
  BY <1>1, <1>2 DEF Structure, QueueOK
<1>6. /\ DOMAIN queue'[l] = DOMAIN queue[l] \cup {d} /\ d \notin DOMAIN queue[l]
      /\ \A n \in DOMAIN queue[l] : queue'[l][n] = queue[l][n]
      /\ queue'[l][d] = i
  BY <1>5, Appended
<1> HIDE DEF d
<1>7. Called' = Called /\ Begun' = Begun
  <2>1. x \in DOMAIN emitter
    OBVIOUS
  <2>2. {f.by : f \in emitted'} = {f.by : f \in emitted} \cup {x}
    BY <1>2, <1>3
  <2> QED BY <1>1, <1>2, <2>1, <2>2 DEF Called, Begun
<1>8. PlaceOK'
  <2> SUFFICES ASSUME NEW f \in emitted'
               PROVE  f.nth \in Nat /\ (f.by \in DOMAIN emitter => f.nth < emitter'[f.by].nth)
    BY <1>1 DEF PlaceOK
  <2>1. CASE f \in emitted
    <3>1. f.nth \in Nat /\ (f.by \in DOMAIN emitter => f.nth < emitter[f.by].nth)
      BY <2>1 DEF OnceOK, PlaceOK
    <3>2. CASE f.by = x
      BY <1>2, <1>3, <3>1, <3>2
    <3>3. CASE f.by # x
      BY <1>1, <3>1, <3>3
    <3> QED BY <3>2, <3>3
  <2>2. CASE f = e
    BY <1>2, <1>3, <2>2
  <2> QED BY <1>2, <2>1, <2>2
<1>9. CalledOK' /\ Begun' \subseteq emitted'
  BY <1>2, <1>7 DEF OnceOK, CalledOK
<1>10. ASSUME NEW k \in Lane
       PROVE  LaneWaits(k)'
  <2>1. /\ \A m \in DOMAIN queue[k] : queue[k][m].ev \in emitted' \ Begun' /\ queue[k][m].ev # e
        /\ \A m \in DOMAIN queue[k] : \A n \in DOMAIN queue[k] \ {m} : queue[k][m].ev # queue[k][n].ev
    BY <1>2, <1>4, <1>7 DEF OnceOK, LaneWaits
  <2>2. CASE k # l
    BY <1>5, <2>1, <2>2 DEF LaneWaits
  <2>3. CASE k = l
    <3>1. e \in emitted' \ Begun'
      BY <1>2, <1>4, <1>7 DEF OnceOK
    <3> QED BY <1>2, <1>6, <2>1, <2>3, <3>1 DEF LaneWaits
  <2> QED BY <2>2, <2>3
<1>11. ASSUME NEW k \in Lane
       PROVE  LaneDelivers(k)'
  <2>1. Called' \subseteq Called /\ dlq' \subseteq dlq /\ begun \subseteq begun'
    BY <1>2, <1>7
  <2>2. worker'[k] = worker[k]
    BY <1>2
  <2> QED BY <2>1, <2>2, DeliveryHeld
<1> QED BY <1>4, <1>8, <1>9, <1>10, <1>11 DEF OnceOK, e

\* The items of a lane without its head.
LEMMA WaitsShortened ==
  ASSUME Structure, OnceOK, NEW l \in Lane, queue[l] # <<>>, queue'[l] = Tail(queue[l]),
         emitted' = emitted, Begun' \subseteq Begun \cup {Head(queue[l]).ev}
  PROVE  LaneWaits(l)'
<1>1. queue[l] \in Seq(Range(queue[l]))
  BY DEF Structure, QueueOK
<1>2. /\ 1 \in DOMAIN queue[l] /\ Head(queue[l]) = queue[l][1]
      /\ \A n \in DOMAIN queue'[l] : n + 1 \in DOMAIN queue[l] /\ n + 1 # 1 /\ queue'[l][n] = queue[l][n + 1]
  BY <1>1, Popped
<1>3. DOMAIN queue'[l] \subseteq Nat
  <2>1. Tail(queue[l]) \in Seq(Range(Tail(queue[l])))
    BY <1>1, Popped
  <2> QED BY <2>1
<1>4. \A m, n \in DOMAIN queue'[l] : m # n => m + 1 # n + 1
  BY <1>3
<1>5. /\ \A m \in DOMAIN queue[l] : queue[l][m].ev \in emitted \ Begun
      /\ \A m \in DOMAIN queue[l] : \A n \in DOMAIN queue[l] \ {m} : queue[l][m].ev # queue[l][n].ev
  BY DEF OnceOK, LaneWaits
<1>6. ASSUME NEW m \in DOMAIN queue'[l]
      PROVE  /\ queue'[l][m].ev \in emitted' \ Begun'
             /\ \A n \in DOMAIN queue'[l] \ {m} : queue'[l][m].ev # queue'[l][n].ev
  <2>1. queue'[l][m] = queue[l][m + 1] /\ m + 1 \in DOMAIN queue[l] /\ m + 1 # 1
    BY <1>2
  <2>2. queue[l][m + 1].ev # Head(queue[l]).ev
    BY <1>2, <1>5, <2>1
  <2>3. \A n \in DOMAIN queue'[l] \ {m} : queue[l][m + 1].ev # queue[l][n + 1].ev
    BY <1>2, <1>4, <1>5, <2>1
  <2> QED BY <1>2, <1>5, <2>1, <2>2, <2>3
<1> QED BY <1>6 DEF LaneWaits

LEMMA OnceEvicted ==
  ASSUME Structure, OnceOK, NEW x \in DOMAIN emitter, Evict(x)
  PROVE  OnceOK'
<1>1. /\ begun' = begun /\ emitted' = emitted /\ dlq' = dlq /\ worker' = worker
      /\ DOMAIN emitter' = DOMAIN emitter
      /\ \A y \in DOMAIN emitter : emitter'[y].nth = emitter[y].nth
  <2>1. emitter' = [emitter EXCEPT ![x] = [@ EXCEPT !.full = FALSE]]
    BY DEF Evict
  <2> QED BY <2>1 DEF Evict, delivery
<1>2. Called' = Called /\ Begun' = Begun
  BY <1>1 DEF Called, Begun
<1>3. PlaceOK' /\ CalledOK'
  BY <1>1, <1>2 DEF OnceOK, PlaceOK, CalledOK
<1>4. ASSUME NEW l \in Lane
      PROVE  LaneWaits(l)'
  <2>1. CASE queue'[l] = queue[l]
    BY <1>1, <1>2, <2>1 DEF OnceOK, LaneWaits
  <2>2. CASE queue[l] # <<>> /\ queue'[l] = Tail(queue[l])
    BY <1>1, <1>2, <2>2, WaitsShortened
  <2> QED BY <2>1, <2>2, Evicts
<1>5. ASSUME NEW l \in Lane
      PROVE  LaneDelivers(l)'
  <2>1. Called' \subseteq Called /\ dlq' \subseteq dlq /\ begun \subseteq begun'
    BY <1>1, <1>2
  <2>2. worker'[l] = worker[l]
    BY <1>1
  <2> QED BY <2>1, <2>2, DeliveryHeld
<1> QED BY <1>1, <1>2, <1>3, <1>4, <1>5 DEF OnceOK

\* A delivery that begins is that of an event which has no call yet.
LEMMA OnceTaken ==
  ASSUME Structure, OnceOK, NEW l \in Lane, Take(l)
  PROVE  OnceOK'
<1> DEFINE i == Head(queue[l])
           s == IF Fresh(i) THEN Subscribers[i.ev.type] ELSE <<>>
<1>1. /\ UNCHANGED <<emitter, emitted, dlq>> /\ queue[l] # <<>>
      /\ worker' = [worker EXCEPT ![l] = After(l, i.ev, s)]
      /\ begun' = (IF Fresh(i) THEN begun \cup {i} ELSE begun)
  BY DEF Take
<1>2. /\ queue'[l] = Tail(queue[l]) /\ \A k \in Lane \ {l} : queue'[k] = queue[k]
      /\ IsEvent(i.ev) /\ LaneOf(i.ev) = l
  BY Shortened DEF Take, Structure
<1>3. /\ Called' = Called /\ Begun \subseteq Begun' /\ Begun' \subseteq Begun \cup {i.ev}
      /\ Fresh(i) => i.ev \in Begun'
  BY <1>1 DEF Called, Begun
<1>4. i.ev \in emitted \ Begun
  <2>1. 1 \in DOMAIN queue[l] /\ i = queue[l][1]
    BY <1>1, Popped DEF Structure, QueueOK
  <2> QED BY <2>1 DEF OnceOK, LaneWaits
<1>5. \A h : <<i.ev, h>> \notin Called
  <2> SUFFICES ASSUME NEW h, <<i.ev, h>> \in Called PROVE FALSE
    OBVIOUS
  <2>1. PICK e \in Begun, g \in Handler : <<i.ev, h>> = <<e, g>>
    BY CallsApart DEF OnceOK, CalledOK
  <2> QED BY <1>4, <2>1, CallsApart
<1>6. PlaceOK' /\ CalledOK' /\ Begun' \subseteq emitted'
  BY <1>1, <1>3, <1>4 DEF OnceOK, PlaceOK, CalledOK
<1>7. ASSUME NEW k \in Lane
      PROVE  LaneWaits(k)'
  <2>1. CASE k = l
    BY <1>1, <1>2, <1>3, <2>1, WaitsShortened
  <2>2. CASE k # l
    <3>1. queue'[k] = queue[k] /\ \A m \in DOMAIN queue[k] : LaneOf(queue[k][m].ev) = k
      BY <1>2, <2>2 DEF Structure, QueueOK, Range
    <3>2. \A m \in DOMAIN queue[k] : queue[k][m].ev # i.ev
      BY <1>2, <2>2, <3>1
    <3> QED BY <1>1, <1>3, <3>1, <3>2 DEF OnceOK, LaneWaits
  <2> QED BY <2>1, <2>2
<1>8. LaneDelivers(l)'
  <2>1. worker'[l] = After(l, i.ev, s)
    BY <1>1 DEF Structure, WorkerOK
  <2>2. CASE s = <<>>
    <3>1. worker'[l].at = "ended" \/ worker'[l].at = "get"
      BY <2>1, <2>2 DEF After
    <3> QED BY <3>1 DEF LaneDelivers
  <2>3. CASE s # <<>>
    <3>1. /\ Fresh(i) /\ s = Subscribers[i.ev.type] /\ IsInjective(s) /\ s \in Seq(Handler)
      BY <1>2, <2>3, BusAssumption DEF IsEvent
    <3>2. worker'[l].at = "deliver" /\ worker'[l].ev = i.ev /\ worker'[l].left = s
      BY <2>1, <2>3 DEF After
    <3>3. ToCall(l)' = s /\ At(l)' = <<i.ev, Head(s)>>
      BY <3>2 DEF ToCall, At
    <3>4. At(l)' \notin dlq'
      BY <1>1, <1>5, <3>3 DEF Called
    <3> HIDE DEF s, i
    <3> QED BY <1>2, <1>3, <1>5, <3>1, <3>2, <3>3, <3>4 DEF LaneDelivers, LaneOf
  <2> QED BY <2>2, <2>3
<1>9. ASSUME NEW k \in Lane \ {l}
      PROVE  LaneDelivers(k)'
  <2>1. Called' \subseteq Called /\ dlq' \subseteq dlq /\ begun \subseteq begun'
    BY <1>1, <1>3
  <2>2. worker'[k] = worker[k]
    BY <1>1 DEF Structure, WorkerOK
  <2> QED BY <2>1, <2>2, DeliveryHeld
<1> QED BY <1>6, <1>7, <1>8, <1>9 DEF OnceOK

LEMMA GoingOn ==
  ASSUME Structure, NEW l \in Lane, worker[l].at \in {"deliver", "wait"}, GoOn(l)
  PROVE  Advances(l) /\ \A k \in Lane \ {l} : worker'[k] = worker[k]
<1> DEFINE rest == Tail(worker[l].left)
<1>1. worker'[l] = After(l, worker[l].ev, rest) /\ \A k \in Lane \ {l} : worker'[k] = worker[k]
  BY DEF GoOn, Structure, WorkerOK
<1>2. CASE rest = <<>>
  <2>1. worker'[l].at = "ended" \/ worker'[l].at = "get"
    BY <1>1, <1>2 DEF After
  <2> QED BY <1>1, <2>1 DEF Advances
<1>3. CASE rest # <<>>
  BY <1>1, <1>3 DEF After, Advances
<1> QED BY <1>2, <1>3

LEMMA OnceCalled ==
  ASSUME Structure, OnceOK, NEW l \in Lane, CallHandler(l)
  PROVE  OnceOK'
<1> DEFINE c == At(l)
           t == Thread([i \in DOMAIN Emits[c[2]][c[1].type] |-> <<Emits[c[2]][c[1].type][i], c[1].ticker>>])
<1>1. /\ UNCHANGED <<queue, begun, emitted, dlq>> /\ worker[l].at = "deliver"
      /\ worker' = [worker EXCEPT ![l] = [@ EXCEPT !.at = "wait"]]
      /\ emitter' = [x \in DOMAIN emitter \cup {c} |-> IF x = c THEN t ELSE emitter[x]]
  BY DEF CallHandler, lanes
<1>2. /\ worker[l].left \in Seq(Handler) /\ worker[l].left # <<>>
      /\ c = <<worker[l].ev, Head(worker[l].left)>>
  BY <1>1, Delivering
<1>3. c \notin Called
  <2>1. IsInjective(worker[l].left) /\ \A h \in Range(ToCall(l)) : <<worker[l].ev, h>> \notin Called
    BY <1>1 DEF OnceOK, LaneDelivers
  <2>2. Head(worker[l].left) \in Range(ToCall(l))
    BY <1>1, <1>2, <2>1, HandlersApart DEF ToCall
  <2> QED BY <1>2, <2>1, <2>2
<1> HIDE DEF c, t
<1>4. Advances(l) /\ \A k \in Lane \ {l} : worker'[k] = worker[k]
  <2>1. worker'[l] = [worker[l] EXCEPT !.at = "wait"]
    BY <1>1 DEF Structure, WorkerOK
  <2>2. worker'[l].at = "wait" /\ worker'[l].ev = worker[l].ev /\ worker'[l].left = worker[l].left
    BY <2>1
  <2> QED BY <1>1, <2>2 DEF Advances, Structure, WorkerOK
<1>5. \A x \in DOMAIN emitter' : \/ x \in DOMAIN emitter /\ emitter'[x].nth = emitter[x].nth
                                 \/ x = c /\ x \notin Called
  BY <1>1, <1>3
<1>6. AboutCall(c)
  BY <1>1, <1>5 DEF AboutCall
<1>7. AboutCall(At(l))
  BY <1>6 DEF c
<1> QED BY <1>4, <1>7, OnceAdvanced

LEMMA OnceEnded ==
  ASSUME Structure, OnceOK, NEW c \in DOMAIN emitter, HandlerReturns(c) \/ HandlerRaises(c)
  PROVE  OnceOK'
<1>1. UNCHANGED <<queue, begun, emitted>>
      /\ \A x \in DOMAIN emitter' : x \in DOMAIN emitter /\ emitter'[x].nth = emitter[x].nth
  BY EndsCall
<1>2. \/ UNCHANGED <<worker, dlq>>
      \/ \E l \in WaitingFor(c) : GoOn(l) /\ dlq' \subseteq dlq \cup {c}
  BY DEF HandlerReturns, HandlerRaises, EndCall, Succeeded, Failed
<1>3. CASE UNCHANGED <<worker, dlq>>
  BY <1>1, <1>3, OnceHeld
<1>4. ASSUME NEW l \in WaitingFor(c), GoOn(l), dlq' \subseteq dlq \cup {c}
      PROVE  OnceOK'
  <2>1. l \in Lane /\ worker[l].at \in {"deliver", "wait"} /\ At(l) = c
    BY DEF WaitingFor
  <2>2. Advances(l) /\ \A k \in Lane \ {l} : worker'[k] = worker[k]
    BY <1>4, <2>1, GoingOn
  <2>3. AboutCall(c)
    BY <1>1, <1>4 DEF AboutCall
  <2>4. AboutCall(At(l))
    BY <2>1, <2>3
  <2> QED BY <2>1, <2>2, <2>4, OnceAdvanced
<1> QED BY <1>2, <1>3, <1>4

LEMMA OncePassed ==
  ASSUME Structure, OnceOK, NEW l \in Lane, SkipHandler(l) \/ Timeout(l)
  PROVE  OnceOK'
<1>1. UNCHANGED <<emitter, queue, begun, emitted>> /\ GoOn(l) /\ worker[l].at \in {"deliver", "wait"}
      /\ dlq' \subseteq dlq \cup {At(l)}
  BY DEF SkipHandler, Timeout, GoOn, Failed, lanes
<1>2. Advances(l) /\ \A k \in Lane \ {l} : worker'[k] = worker[k]
  BY <1>1, GoingOn
<1>3. AboutCall(At(l))
  BY <1>1 DEF AboutCall
<1> QED BY <1>2, <1>3, OnceAdvanced

OnceInv == Structure /\ OnceOK

LEMMA OnceInit == Init => OnceInv
<1> SUFFICES ASSUME Init PROVE OnceOK
  BY StructureInit DEF OnceInv
<1>1. /\ emitted = {} /\ Called = Sources /\ Begun = {}
      /\ \A l \in Lane : queue[l] = <<>> /\ worker[l].at = "get"
  BY DEF Init, Called, Begun, Parked
<1>2. PlaceOK /\ CalledOK
  BY <1>1 DEF PlaceOK, CalledOK
<1>3. \A l \in Lane : LaneWaits(l) /\ LaneDelivers(l)
  BY <1>1 DEF LaneWaits, LaneDelivers
<1> QED BY <1>1, <1>2, <1>3 DEF OnceOK

LEMMA OnceNext == OnceInv /\ [Next]_vars => OnceInv'
<1> SUFFICES ASSUME Structure, OnceOK, [Next]_vars PROVE Structure' /\ OnceOK'
  BY DEF OnceInv
<1>1. Structure'
  BY StructureNext
<1>2. ASSUME NEW x \in DOMAIN emitter, TakeVersion(x) \/ FindFull(x)
      PROVE  OnceOK'
  <2>1. UNCHANGED <<queue, begun, emitted, dlq, worker>>
    BY <1>2 DEF TakeVersion, FindFull, lanes, delivery
  <2>2. \E w : emitter' = [emitter EXCEPT ![x] = w] /\ w.nth = emitter[x].nth
    <3>1. emitter[x] \in ThreadType
      BY DEF Structure, EmitterOK
    <3>2. CASE TakeVersion(x)
      <4> DEFINE v == version[Stream(Current(x))] + 1
                 w == [emitter[x] EXCEPT !.at = "put", !.ver = v]
      <4>1. emitter' = [emitter EXCEPT ![x] = w]
        BY <3>2 DEF TakeVersion
      <4> HIDE DEF v
      <4>2. w.nth = emitter[x].nth
        BY <3>1 DEF ThreadType
      <4> QED BY <4>1, <4>2
    <3>3. CASE FindFull(x)
      <4> DEFINE w == [emitter[x] EXCEPT !.full = TRUE]
      <4>1. emitter' = [emitter EXCEPT ![x] = w]
        BY <3>3 DEF FindFull
      <4>2. w.nth = emitter[x].nth
        BY <3>1 DEF ThreadType
      <4> QED BY <4>1, <4>2
    <3> QED BY <1>2, <3>2, <3>3
  <2>5. \A y \in DOMAIN emitter' : y \in DOMAIN emitter /\ emitter'[y].nth = emitter[y].nth
    BY <2>2
  <2> QED BY <2>1, <2>5, OnceHeld
<1>3. ASSUME NEW l \in Lane, TakeStop(l)
      PROVE  OnceOK'
  <2>1. UNCHANGED <<queue, begun, emitted, dlq, emitter>>
    BY <1>3 DEF TakeStop
  <2>2. \A k \in Lane : worker'[k] = worker[k] \/ worker'[k].at \notin {"deliver", "wait"}
    <3>1. worker' = [worker EXCEPT ![l] = [@ EXCEPT !.at = "ended"]] /\ worker[l].at = "get"
      BY <1>3 DEF TakeStop
    <3>2. worker'[l].at = "ended" /\ \A k \in Lane \ {l} : worker'[k] = worker[k]
      BY <3>1 DEF Structure, WorkerOK
    <3> QED BY <3>2
  <2> QED BY <2>1, <2>2, OnceHeld
<1>4. ASSUME (\E k \in Key : CoolDown(k)) \/ SignalStop \/ Join \/ UNCHANGED vars
      PROVE  OnceOK'
  <2>1. UNCHANGED <<queue, begun, emitted, dlq, worker, emitter>>
    BY <1>4 DEF CoolDown, SignalStop, Join, vars, lanes, delivery
  <2> QED BY <2>1, OnceHeld
<1> QED BY <1>1, <1>2, <1>3, <1>4, Steps, OnceQueued, OnceEvicted, OnceTaken, OnceCalled,
           OnceEnded, OncePassed
---------------------------------------------------------------------------
(* A breaker counts failures that have left a dead letter each, as a call   *)
(* is not made twice.                                                      *)

\* The dead letters of a handler about a ticker.
Letters(k) == {d \in dlq : d[2] = k[1] /\ d[1].ticker = k[2]}

BreakerType == [failures : Nat, state : {"closed", "open", "half-open"}]

\* A breaker's failures are behind each other in the dead letters, and an open one
\* has seen Threshold of them.
BreakerOK ==
  /\ IsFiniteSet(dlq) /\ breaker \in [Key -> BreakerType]
  /\ \A k \in Key : /\ breaker[k].failures <= Cardinality(Letters(k))
                    /\ breaker[k].state = "open" => breaker[k].failures >= Threshold

SkippedOK == \A s \in skipped : KeyOf(s[1], s[2]) \in Key
                /\ Cardinality(Letters(KeyOf(s[1], s[2]))) >= Threshold

LEMMA LettersGrow ==
  ASSUME IsFiniteSet(dlq), IsFiniteSet(dlq'), dlq \subseteq dlq', NEW k
  PROVE  /\ Cardinality(Letters(k)) \in Nat /\ Cardinality(Letters(k)') \in Nat
         /\ Cardinality(Letters(k)) <= Cardinality(Letters(k)')
<1>1. Letters(k) \subseteq dlq /\ Letters(k)' \subseteq dlq' /\ Letters(k) \subseteq Letters(k)'
  BY DEF Letters
<1>2. IsFiniteSet(Letters(k)) /\ IsFiniteSet(Letters(k)')
  BY <1>1, FS_Subset
<1>3. Cardinality(Letters(k)) <= Cardinality(Letters(k)')
  BY <1>1, <1>2, FS_Subset
<1> QED BY <1>2, <1>3, FS_CardinalityType

\* A failure of a call that has no letter yet adds one to those of its breaker.
LEMMA Fails ==
  ASSUME BreakerOK, SkippedOK, NEW c, KeyOf(c[1], c[2]) \in Key, c \notin dlq,
         Failed(c), skipped' = skipped
  PROVE  BreakerOK' /\ SkippedOK'
<1> DEFINE k == KeyOf(c[1], c[2])
           more == breaker[k].failures + 1
           b == [failures |-> more, state |-> IF more >= Threshold THEN "open" ELSE breaker[k].state]
<1>1. dlq' = dlq \cup {c} /\ breaker' = [breaker EXCEPT ![k] = b]
  BY DEF Failed
<1>2. IsFiniteSet(dlq') /\ dlq \subseteq dlq'
  BY <1>1, FS_AddElement DEF BreakerOK
<1>3. \A j : /\ Cardinality(Letters(j)) \in Nat /\ Cardinality(Letters(j)') \in Nat
             /\ Cardinality(Letters(j)) <= Cardinality(Letters(j)')
  BY <1>2, LettersGrow DEF BreakerOK
<1>4. Cardinality(Letters(k)') = Cardinality(Letters(k)) + 1
  <2>1. Letters(k)' = Letters(k) \cup {c} /\ c \notin Letters(k)
    BY <1>1 DEF Letters, KeyOf
  <2>2. IsFiniteSet(Letters(k))
    <3>1. Letters(k) \subseteq dlq
      BY DEF Letters
    <3> QED BY <3>1, FS_Subset DEF BreakerOK
  <2> QED BY <2>1, <2>2, FS_AddElement
<1>5. breaker[k] \in BreakerType /\ breaker[k].failures <= Cardinality(Letters(k))
      /\ k \in Key
  BY DEF BreakerOK
<1>6. more \in Nat /\ more <= Cardinality(Letters(k)')
  BY <1>3, <1>4, <1>5 DEF BreakerType
<1>7. /\ b \in BreakerType /\ b.failures = more
      /\ b.state = "open" => more >= Threshold
  <2>1. breaker[k].state = "open" => breaker[k].failures >= Threshold
    BY <1>5 DEF BreakerOK
  <2>2. Threshold \in Nat /\ breaker[k].failures \in Nat
    BY <1>5, BusAssumption DEF BreakerType
  <2>3. breaker[k].state = "open" => more >= Threshold
    BY <2>1, <2>2
  <2> QED BY <1>5, <1>6, <2>3 DEF BreakerType
<1> HIDE DEF b, k, more
<1>8. /\ breaker' \in [Key -> BreakerType] /\ breaker'[k] = b
      /\ \A j \in Key \ {k} : breaker'[j] = breaker[j]
  BY <1>1, <1>5, <1>7 DEF BreakerOK
<1>9. ASSUME NEW j \in Key
      PROVE  /\ breaker'[j].failures <= Cardinality(Letters(j)')
             /\ breaker'[j].state = "open" => breaker'[j].failures >= Threshold
  <2>1. CASE j = k
    BY <1>6, <1>7, <1>8, <2>1
  <2>2. CASE j # k
    <3>1. breaker'[j] = breaker[j] /\ breaker[j].failures \in Nat
      BY <1>8, <2>2 DEF BreakerOK, BreakerType
    <3>2. breaker[j].failures <= Cardinality(Letters(j)')
      BY <1>3, <3>1 DEF BreakerOK
    <3> QED BY <3>1, <3>2 DEF BreakerOK
  <2> QED BY <2>1, <2>2
<1>10. ASSUME NEW s \in skipped
       PROVE  KeyOf(s[1], s[2]) \in Key /\ Cardinality(Letters(KeyOf(s[1], s[2]))') >= Threshold
  <2> DEFINE j == KeyOf(s[1], s[2])
  <2>1. Cardinality(Letters(j)) >= Threshold /\ j \in Key
    BY DEF SkippedOK
  <2>2. Cardinality(Letters(j)) <= Cardinality(Letters(j)')
        /\ Cardinality(Letters(j)) \in Nat /\ Cardinality(Letters(j)') \in Nat
    BY <1>3
  <2>3. Cardinality(Letters(j)') >= Threshold
    BY <2>1, <2>2, BusAssumption
  <2> QED BY <2>1, <2>3
<1> QED BY <1>2, <1>8, <1>9, <1>10 DEF BreakerOK, SkippedOK, KeyOf, Letters

\* Without a failure a breaker only forgets: its failures, or that it is open.
LEMMA Forgets ==
  ASSUME BreakerOK, SkippedOK, dlq' = dlq, skipped' = skipped,
         NEW k \in Key, NEW b \in BreakerType, breaker' = [breaker EXCEPT ![k] = b],
         b.state # "open", b.failures <= breaker[k].failures
  PROVE  BreakerOK' /\ SkippedOK'
<1>1. /\ breaker' \in [Key -> BreakerType] /\ breaker'[k] = b
      /\ \A j \in Key \ {k} : breaker'[j] = breaker[j]
  BY DEF BreakerOK
<1>2. \A j : Letters(j)' = Letters(j) /\ Cardinality(Letters(j)) \in Nat
  BY LettersGrow DEF Letters, BreakerOK
<1>3. b.failures <= Cardinality(Letters(k))
  <2>1. b.failures \in Nat /\ breaker[k].failures \in Nat /\ breaker[k].failures <= Cardinality(Letters(k))
    BY DEF BreakerOK, BreakerType
  <2> QED BY <1>2, <2>1
<1>4. BreakerOK'
  BY <1>1, <1>2, <1>3 DEF BreakerOK
<1>5. SkippedOK'
  BY <1>2 DEF SkippedOK, KeyOf
<1> QED BY <1>4, <1>5

LEMMA BreakersHeld ==
  ASSUME BreakerOK, SkippedOK, UNCHANGED <<dlq, breaker, skipped>>
  PROVE  BreakerOK' /\ SkippedOK'
BY DEF BreakerOK, SkippedOK, KeyOf, Letters

\* The call that a worker is at, and its breaker.
LEMMA CallKey ==
  ASSUME Structure, OnceOK, NEW l \in Lane, worker[l].at \in {"deliver", "wait"}
  PROVE  KeyOf(At(l)[1], At(l)[2]) \in Key /\ At(l) \notin dlq
BY Delivering DEF Key, KeyOf, IsEvent, OnceOK, LaneDelivers

LEMMA BreakersEnd ==
  ASSUME Structure, OnceOK, BreakerOK, SkippedOK, NEW c \in DOMAIN emitter,
         HandlerReturns(c) \/ HandlerRaises(c)
  PROVE  BreakerOK' /\ SkippedOK'
<1>1. CASE UNCHANGED <<dlq, breaker, skipped>>
  BY <1>1, BreakersHeld
<1>2. ASSUME NEW l \in WaitingFor(c)
      PROVE  KeyOf(c[1], c[2]) \in Key /\ c \notin dlq
  BY CallKey DEF WaitingFor
<1>3. ASSUME WaitingFor(c) # {}, Failed(c), skipped' = skipped
      PROVE  BreakerOK' /\ SkippedOK'
  BY <1>2, <1>3, Fails
<1>4. ASSUME WaitingFor(c) # {}, Succeeded(c), skipped' = skipped
      PROVE  BreakerOK' /\ SkippedOK'
  <2> DEFINE k == KeyOf(c[1], c[2])
             b == [failures |-> 0, state |-> "closed"]
  <2>1. dlq' = dlq /\ breaker' = [breaker EXCEPT ![k] = b] /\ k \in Key
    BY <1>2, <1>4 DEF Succeeded
  <2>2. b \in BreakerType /\ b.state # "open" /\ b.failures = 0
    BY DEF BreakerType
  <2>3. breaker[k].failures \in Nat
    BY <2>1 DEF BreakerOK, BreakerType
  <2> HIDE DEF k, b
  <2>4. b.failures <= breaker[k].failures
    BY <2>2, <2>3
  <2> QED BY <1>4, <2>1, <2>2, <2>4, Forgets
<1>5. skipped' = skipped /\ \/ UNCHANGED <<dlq, breaker>>
                            \/ WaitingFor(c) # {} /\ (Failed(c) \/ Succeeded(c))
  BY DEF HandlerReturns, HandlerRaises, EndCall
<1> QED BY <1>1, <1>3, <1>4, <1>5

LEMMA BreakerSteps ==
  ASSUME Structure, OnceOK, BreakerOK, SkippedOK, [Next]_vars
  PROVE  BreakerOK' /\ SkippedOK'
<1>1. ASSUME NEW x \in DOMAIN emitter, TakeVersion(x) \/ Enqueue(x) \/ FindFull(x) \/ Evict(x)
      PROVE  UNCHANGED <<dlq, breaker, skipped>>
  BY <1>1 DEF TakeVersion, Enqueue, FindFull, Evict, delivery
<1>2. ASSUME NEW l \in Lane, Take(l) \/ TakeStop(l) \/ CallHandler(l)
      PROVE  UNCHANGED <<dlq, breaker, skipped>>
  BY <1>2 DEF Take, TakeStop, CallHandler
<1>3. ASSUME SignalStop \/ Join \/ UNCHANGED vars
      PROVE  UNCHANGED <<dlq, breaker, skipped>>
  BY <1>3 DEF SignalStop, Join, vars, delivery
<1>4. ASSUME NEW k \in Key, CoolDown(k)
      PROVE  BreakerOK' /\ SkippedOK'
  <2> DEFINE b == [breaker[k] EXCEPT !.state = "half-open"]
  <2>1. dlq' = dlq /\ skipped' = skipped /\ breaker' = [breaker EXCEPT ![k] = b]
    BY <1>4 DEF CoolDown
  <2>2. breaker[k] \in BreakerType
    BY DEF BreakerOK
  <2>3. b \in BreakerType /\ b.state # "open" /\ b.failures = breaker[k].failures
    BY <2>2 DEF BreakerType
  <2>4. breaker[k].failures \in Nat
    BY <2>2 DEF BreakerType
  <2> HIDE DEF b
  <2>5. b.failures <= breaker[k].failures
    BY <2>3, <2>4
  <2> QED BY <2>1, <2>3, <2>5, Forgets
<1>5. ASSUME NEW l \in Lane, Timeout(l)
      PROVE  BreakerOK' /\ SkippedOK'
  <2>1. worker[l].at \in {"deliver", "wait"} /\ Failed(At(l)) /\ skipped' = skipped
    BY <1>5 DEF Timeout
  <2> QED BY <2>1, CallKey, Fails
<1>6. ASSUME NEW l \in Lane, SkipHandler(l)
      PROVE  BreakerOK' /\ SkippedOK'
  <2> DEFINE k == KeyOf(At(l)[1], At(l)[2])
  <2>1. /\ worker[l].at \in {"deliver", "wait"} /\ breaker[k].state = "open"
        /\ skipped' = skipped \cup {At(l)} /\ UNCHANGED <<dlq, breaker>>
    BY <1>6 DEF SkipHandler
  <2>2. k \in Key
    BY <2>1, CallKey
  <2>3. /\ breaker[k].failures >= Threshold /\ breaker[k].failures <= Cardinality(Letters(k))
        /\ breaker[k].failures \in Nat
    BY <2>1, <2>2 DEF BreakerOK, BreakerType
  <2>4. Cardinality(Letters(k)) \in Nat
    BY LettersGrow, <2>1 DEF BreakerOK
  <2>5. Cardinality(Letters(k)) >= Threshold
    BY <2>3, <2>4, BusAssumption
  <2>6. \A j : Letters(j)' = Letters(j)
    BY <2>1 DEF Letters
  <2>7. BreakerOK'
    BY <2>1, <2>6 DEF BreakerOK
  <2>8. SkippedOK'
    BY <2>1, <2>2, <2>5, <2>6 DEF SkippedOK, KeyOf
  <2> QED BY <2>7, <2>8
<1> QED BY <1>1, <1>2, <1>3, <1>4, <1>5, <1>6, Steps, BreakersHeld, BreakersEnd

BreakerInv == OnceInv /\ BreakerOK /\ SkippedOK

LEMMA BreakerInit == Init => BreakerInv
<1> SUFFICES ASSUME Init PROVE BreakerOK /\ SkippedOK
  BY OnceInit DEF BreakerInv
<1>1. dlq = {} /\ skipped = {} /\ breaker = [k \in Key |-> [failures |-> 0, state |-> "closed"]]
  BY DEF Init
<1>2. breaker \in [Key -> BreakerType]
  BY <1>1 DEF BreakerType
<1>3. IsFiniteSet(dlq) /\ \A k : Cardinality(Letters(k)) = 0
  BY <1>1, FS_EmptySet DEF Letters
<1>4. \A k \in Key : breaker[k].failures = 0 /\ breaker[k].state = "closed"
  BY <1>1
<1> QED BY <1>1, <1>2, <1>3, <1>4 DEF BreakerOK, SkippedOK

LEMMA BreakerNext == BreakerInv /\ [Next]_vars => BreakerInv'
BY OnceNext, BreakerSteps DEF BreakerInv, OnceInv

\* A handler is passed over for a ticker only when Threshold dead letters of its
\* own are about that ticker, for every number of tickers, handlers and workers.
THEOREM SkipsHaveCause == Spec => []SkippedForCause
<1>1. BreakerInv => SkippedForCause
  BY DEF BreakerInv, SkippedOK, SkippedForCause, Letters, KeyOf
<1> QED BY <1>1, BreakerInit, BreakerNext, PTL DEF Spec
---------------------------------------------------------------------------
(* A lane that was told to stop.                                           *)

\* Shutdown has come to the dispatcher of a type.
Told(t) == \E n \in DOMAIN StopOrder :
             /\ StopOrder[n] = t
             /\ n < stopping.next \/ (n = stopping.next /\ stopping.at = "join")

StopType == [next : Nat \ {0}, at : {"signal", "join"}]

\* Only a lane that was told has a sentinel or a flag, or a worker that has ended;
\* what it held then had been emitted.
StopOK ==
  /\ stopping \in StopType
  /\ sentinel \in [Lane -> BOOLEAN] /\ flag \in [Lane -> BOOLEAN] /\ DOMAIN pending = Lane
  /\ \A l \in Lane : /\ sentinel[l] \/ flag[l] \/ worker[l].at = "ended" => Told(l[1])
                     /\ \A i \in pending[l] : i.ev \in emitted

Emptied(l) == worker[l].at = "ended" /\ ~flag[l] => pending[l] \cap Range(queue[l]) = {}

StopKept == StopOK /\ \A l \in Lane : Emptied(l)

\* What shutdown does not do: it tells nobody.
Untold ==
  /\ stopping' = stopping /\ flag' = flag /\ pending' = pending
  /\ sentinel' \in [Lane -> BOOLEAN] /\ emitted \subseteq emitted'
  /\ \A l \in Lane : sentinel'[l] => sentinel[l]

LEMMA NotTold ==
  ASSUME StopKept, Untold, NEW l \in Lane,
         worker'[l].at = "ended" => worker[l].at = "ended" \/ sentinel[l] \/ flag[l]
  PROVE  /\ sentinel'[l] \/ flag'[l] \/ worker'[l].at = "ended" => Told(l[1])'
         /\ \A i \in pending'[l] : i.ev \in emitted'
<1>1. Told(l[1])' <=> Told(l[1])
  BY DEF Told, Untold
<1> QED BY <1>1 DEF StopKept, StopOK, Untold

LEMMA StillTold ==
  ASSUME StopKept, Untold,
         \A l \in Lane : /\ worker'[l].at = "ended" => worker[l].at = "ended" \/ sentinel[l] \/ flag[l]
                         /\ Emptied(l)'
  PROVE  StopKept'
BY NotTold DEF StopKept, StopOK, Untold

\* A worker that is not new at its end, and a lane that only gets shorter or new events.
LEMMA StaysEmptied ==
  ASSUME StopKept, Untold, NEW l \in Lane, worker'[l].at = "ended" => worker[l].at = "ended" \/ flag[l],
         \A i \in Range(queue'[l]) : i \in Range(queue[l]) \/ i.ev \notin emitted
  PROVE  Emptied(l)'
<1> SUFFICES ASSUME worker'[l].at = "ended", ~flag'[l] PROVE pending'[l] \cap Range(queue'[l]) = {}
  BY DEF Emptied
<1>1. worker[l].at = "ended" /\ ~flag[l] /\ pending'[l] = pending[l]
  BY DEF Untold
<1>2. pending[l] \cap Range(queue[l]) = {} /\ \A i \in pending[l] : i.ev \in emitted
  BY <1>1 DEF StopKept, StopOK, Emptied
<1> QED BY <1>1, <1>2

\* A worker that goes on ends only where its flag is up.
LEMMA EndsFlagged ==
  ASSUME Structure, NEW l \in Lane, NEW e, NEW left, worker' = [worker EXCEPT ![l] = After(l, e, left)]
  PROVE  \A k \in Lane : worker'[k].at = "ended" => worker[k].at = "ended" \/ flag[k]
<1>1. /\ worker'[l] = After(l, e, left)
      /\ \A k \in Lane \ {l} : worker'[k] = worker[k]
  BY DEF Structure, WorkerOK
<1>2. After(l, e, left).at = "ended" => flag[l]
  BY DEF After
<1> QED BY <1>1, <1>2

LEMMA StopQueued ==
  ASSUME Structure, OnceOK, StopKept, NEW x \in DOMAIN emitter, Enqueue(x)
  PROVE  StopKept'
<1> DEFINE i == Item(Current(x), emitter[x].ver)
           k == LaneOf(Current(x))
<1>1. /\ queue' = [queue EXCEPT ![k] = Append(@, i)] /\ i.ev = Current(x)
      /\ worker' = worker /\ emitted \subseteq emitted'
  BY DEF Enqueue, Item, delivery
<1>2. Untold
  BY DEF Enqueue, Untold, stops, StopKept, StopOK
<1>3. i.ev \notin emitted /\ k \in Lane
  BY <1>1, Enqueues, OnceQueued
<1> HIDE DEF i, k
<1>4. ASSUME NEW l \in Lane
      PROVE  \A j \in Range(queue'[l]) : j \in Range(queue[l]) \/ j.ev \notin emitted
  <2>1. CASE l = k
    <3>1. queue'[l] = Append(queue[l], i) /\ queue[l] \in Seq(Range(queue[l]))
      BY <1>1, <1>3, <2>1 DEF Structure, QueueOK
    <3>2. Range(queue'[l]) = Range(queue[l]) \cup {i}
      BY <3>1, Appended
    <3> QED BY <1>3, <3>2
  <2>2. CASE l # k
    BY <1>1, <2>2 DEF Structure, QueueOK
  <2> QED BY <2>1, <2>2
<1>5. \A l \in Lane : worker'[l].at = "ended" => worker[l].at = "ended"
  BY <1>1
<1> QED BY <1>2, <1>4, <1>5, StaysEmptied, StillTold

LEMMA StopEvicted ==
  ASSUME Structure, StopKept, NEW x \in DOMAIN emitter, Evict(x)
  PROVE  StopKept'
<1>1. /\ \A l \in Lane : queue'[l] = queue[l] \/ (queue'[l] = Tail(queue[l]) /\ queue[l] # <<>>)
      /\ worker' = worker
  BY Evicts DEF Evict, delivery
<1>2. Untold
  <2>1. sentinel' = sentinel \/ sentinel' = [sentinel EXCEPT ![LaneOf(Current(x))] = FALSE]
    BY DEF Evict
  <2> QED BY <2>1 DEF Evict, Untold, stops, StopKept, StopOK
<1>3. ASSUME NEW l \in Lane
      PROVE  Range(queue'[l]) \subseteq Range(queue[l])
  BY <1>1, Popped DEF Structure, QueueOK
<1> QED BY <1>1, <1>2, <1>3, StaysEmptied, StillTold

LEMMA StopTaken ==
  ASSUME Structure, StopKept, NEW l \in Lane, Take(l)
  PROVE  StopKept'
<1>1. /\ Range(queue[l]) = Range(queue'[l]) \cup {Head(queue[l])}
      /\ \A k \in Lane \ {l} : queue'[k] = queue[k]
  BY Shortened DEF Take, Structure
<1>2. Untold
  BY DEF Take, Untold, stops, StopKept, StopOK
<1>3. \A k \in Lane : worker'[k].at = "ended" => worker[k].at = "ended" \/ flag[k]
  BY EndsFlagged DEF Take
<1> QED BY <1>1, <1>2, <1>3, StaysEmptied, StillTold

\* A worker that finds the sentinel finds it behind every event.
LEMMA StopFound ==
  ASSUME Structure, StopKept, NEW l \in Lane, TakeStop(l)
  PROVE  StopKept'
<1>1. /\ queue[l] = <<>> /\ queue' = queue /\ (sentinel[l] \/ flag[l])
      /\ sentinel' = [sentinel EXCEPT ![l] = FALSE]
      /\ \A k \in Lane \ {l} : worker'[k] = worker[k]
  BY DEF TakeStop, Structure, WorkerOK
<1>2. Untold
  BY DEF TakeStop, Untold, stops, StopKept, StopOK
<1>3. Emptied(l)'
  <2>1. Range(queue'[l]) = {}
    BY <1>1 DEF Range
  <2> QED BY <2>1 DEF Emptied
<1>4. \A k \in Lane \ {l} : Emptied(k)'
  BY <1>1, <1>2, StaysEmptied
<1>5. \A k \in Lane : worker'[k].at = "ended" => worker[k].at = "ended" \/ sentinel[k] \/ flag[k]
  BY <1>1
<1> QED BY <1>2, <1>3, <1>4, <1>5, StillTold

\* The steps that touch neither the lanes nor shutdown: they may move a worker.
LEMMA StopAside ==
  ASSUME StopKept, UNCHANGED <<queue, sentinel, flag, stopping, pending, emitted>>,
         \A l \in Lane : worker'[l].at = "ended" => worker[l].at = "ended" \/ flag[l]
  PROVE  StopKept'
<1>1. Untold
  BY DEF Untold, StopKept, StopOK
<1> QED BY <1>1, StaysEmptied, StillTold

\* Shutdown tells the lanes of a dispatcher that it has not told yet.
LEMMA StopSignals ==
  ASSUME Structure, OnceOK, StopKept, SignalStop
  PROVE  StopKept'
<1>0. PICK t : t = StopOrder[stopping.next]
  OBVIOUS
<1> DEFINE now == LanesOf(t)
<1>1. /\ stopping.next <= Len(StopOrder) /\ stopping.at = "signal"
      /\ sentinel' = [l \in Lane |-> sentinel[l] \/ (l \in now /\ Room(l))]
      /\ flag' = [l \in Lane |-> flag[l] \/ (l \in now /\ ~Room(l))]
      /\ pending' = [l \in Lane |-> IF l \in now THEN Range(queue[l]) ELSE pending[l]]
      /\ stopping' = [stopping EXCEPT !.at = "join"]
      /\ queue' = queue /\ worker' = worker /\ emitted' = emitted
  BY <1>0 DEF SignalStop, delivery
<1>2. stopping' \in StopType /\ stopping'.next = stopping.next /\ stopping'.at = "join"
      /\ stopping.next \in Nat \ {0}
  BY <1>1 DEF StopKept, StopOK, StopType
<1>3. stopping.next \in DOMAIN StopOrder
  BY <1>1, <1>2, BusAssumption
<1>4. Told(t)' /\ \A u : Told(u) => Told(u)'
  BY <1>0, <1>2, <1>3 DEF Told
<1>5. ~Told(t)
  <2>1. \A n \in DOMAIN StopOrder : StopOrder[n] = t => n = stopping.next
    BY <1>0, <1>3, BusAssumption DEF IsInjective
  <2>2. \A n \in DOMAIN StopOrder : n = stopping.next => ~(n < stopping.next)
    BY <1>2
  <2> QED BY <1>1, <2>1, <2>2 DEF Told
<1>6. sentinel' \in [Lane -> BOOLEAN] /\ flag' \in [Lane -> BOOLEAN] /\ DOMAIN pending' = Lane
  <2>1. \A l \in Lane : (sentinel[l] \/ (l \in now /\ Room(l))) \in BOOLEAN
    BY DEF StopKept, StopOK
  <2>2. \A l \in Lane : (flag[l] \/ (l \in now /\ ~Room(l))) \in BOOLEAN
    BY DEF StopKept, StopOK
  <2> QED BY <1>1, <2>1, <2>2
<1>7. ASSUME NEW l \in Lane
      PROVE  /\ sentinel'[l] \/ flag'[l] \/ worker'[l].at = "ended" => Told(l[1])'
             /\ Emptied(l)'
             /\ \A i \in pending'[l] : i.ev \in emitted'
  <2>1. CASE l \in now
    <3>1. l[1] = t
      BY <2>1 DEF LanesOf
    <3>2. worker[l].at # "ended"
      BY <1>5, <3>1 DEF StopKept, StopOK
    <3>3. \A i \in Range(queue[l]) : i.ev \in emitted
      BY DEF OnceOK, LaneWaits, Range
    <3> QED BY <1>1, <1>4, <2>1, <3>1, <3>2, <3>3 DEF Emptied
  <2>2. CASE l \notin now
    <3>1. (sentinel'[l] => sentinel[l]) /\ (flag'[l] => flag[l]) /\ (flag[l] => flag'[l])
          /\ pending'[l] = pending[l]
      BY <1>1, <2>2
    <3> QED BY <1>1, <1>4, <3>1 DEF Emptied, StopKept, StopOK
  <2> QED BY <2>1, <2>2
<1> QED BY <1>1, <1>2, <1>6, <1>7 DEF StopKept, StopOK

LEMMA StopSteps ==
  ASSUME Structure, OnceOK, StopKept, [Next]_vars
  PROVE  StopKept'
<1>1. ASSUME NEW x \in DOMAIN emitter, TakeVersion(x) \/ FindFull(x)
      PROVE  StopKept'
  BY <1>1, StopAside DEF TakeVersion, FindFull, lanes, delivery, stops
<1>2. ASSUME NEW l \in Lane, CallHandler(l)
      PROVE  StopKept'
  <2>1. worker' = [worker EXCEPT ![l] = [@ EXCEPT !.at = "wait"]]
        /\ UNCHANGED <<queue, sentinel, flag, stopping, pending, emitted>>
    BY <1>2 DEF CallHandler, lanes, stops
  <2>2. \A k \in Lane : worker'[k].at = "ended" => worker[k].at = "ended"
    <3>1. worker'[l] = [worker[l] EXCEPT !.at = "wait"] /\ \A k \in Lane \ {l} : worker'[k] = worker[k]
      BY <2>1 DEF Structure, WorkerOK
    <3>2. worker[l].at = "deliver"
      BY <1>2 DEF CallHandler
    <3>3. worker'[l].at \in {worker[l].at, "wait"}
      BY <3>1
    <3> QED BY <3>1, <3>2, <3>3
  <2> QED BY <2>1, <2>2, StopAside
<1>3. ASSUME NEW l \in Lane, SkipHandler(l) \/ Timeout(l)
      PROVE  StopKept'
  <2>1. GoOn(l) /\ UNCHANGED <<queue, sentinel, flag, stopping, pending, emitted>>
    BY <1>3 DEF SkipHandler, Timeout, GoOn, lanes, stops
  <2>2. \A k \in Lane : worker'[k].at = "ended" => worker[k].at = "ended" \/ flag[k]
    BY <2>1, EndsFlagged DEF GoOn
  <2> QED BY <2>1, <2>2, StopAside
<1>4. ASSUME NEW c \in DOMAIN emitter, HandlerReturns(c) \/ HandlerRaises(c)
      PROVE  StopKept'
  <2>1. UNCHANGED <<queue, sentinel, flag, stopping, pending, emitted>>
        /\ (worker' = worker \/ \E l \in WaitingFor(c) : GoOn(l))
    BY <1>4 DEF HandlerReturns, HandlerRaises, EndCall, lanes, stops
  <2>2. \A k \in Lane : worker'[k].at = "ended" => worker[k].at = "ended" \/ flag[k]
    BY <2>1, EndsFlagged DEF GoOn, WaitingFor
  <2> QED BY <2>1, <2>2, StopAside
<1>5. CASE Join
  <2> DEFINE m == stopping.next + 1
  <2>1. /\ stopping' = [next |-> m, at |-> "signal"] /\ stopping.next \in Nat \ {0}
        /\ UNCHANGED <<queue, sentinel, flag, pending, emitted, worker>>
    BY <1>5 DEF Join, lanes, delivery, StopKept, StopOK, StopType
  <2>2. m \in Nat \ {0} /\ stopping.next < m
    BY <2>1
  <2> HIDE DEF m
  <2>3. stopping' \in StopType /\ stopping'.next = m
    BY <2>1, <2>2 DEF StopType
  <2>4. \A n \in DOMAIN StopOrder : n \in Nat
    BY BusAssumption
  <2>5. \A n \in DOMAIN StopOrder : n < stopping.next \/ n = stopping.next => n < m
    BY <2>1, <2>2, <2>4
  <2>6. \A u : Told(u) => Told(u)'
    BY <2>3, <2>5 DEF Told
  <2> QED BY <2>1, <2>3, <2>6 DEF StopKept, StopOK, Emptied
<1>6. CASE (\E k \in Key : CoolDown(k)) \/ UNCHANGED vars
  BY <1>6, StopAside DEF CoolDown, vars, lanes, delivery, stops
<1> QED BY <1>1, <1>2, <1>3, <1>4, <1>5, <1>6, Steps, StopQueued, StopEvicted, StopTaken,
           StopFound, StopSignals

StopInv == OnceInv /\ StopKept

LEMMA StopInit == Init => StopInv
<1> SUFFICES ASSUME Init PROVE StopKept
  BY OnceInit DEF StopInv
<1>1. /\ stopping = [next |-> 1, at |-> "signal"]
      /\ sentinel = [l \in Lane |-> FALSE] /\ flag = [l \in Lane |-> FALSE]
      /\ pending = [l \in Lane |-> {}] /\ worker = [l \in Lane |-> [at |-> "get"]]
  BY DEF Init, Running, Parked
<1>2. stopping \in StopType
  BY <1>1 DEF StopType
<1>3. \A l \in Lane : worker[l].at # "ended" /\ pending[l] = {} /\ ~sentinel[l] /\ ~flag[l]
  BY <1>1
<1> QED BY <1>1, <1>2, <1>3 DEF StopKept, StopOK, Emptied

LEMMA StopNext == StopInv /\ [Next]_vars => StopInv'
BY OnceNext, StopSteps DEF StopInv, OnceInv

\* Shutdown drains the lanes that have room for its sentinel, whatever is emitted
\* meanwhile and in whatever order the dispatchers are stopped.
THEOREM StopDrains == Spec => []DrainedUnlessFull
<1>1. StopInv => DrainedUnlessFull
  BY DEF StopInv, StopKept, Emptied, DrainedUnlessFull
<1> QED BY <1>1, StopInit, StopNext, PTL DEF Spec
---------------------------------------------------------------------------
(* The types of the bus, which take what was proved of its calls.          *)

WorkerAt == {"get", "deliver", "wait", "ended"}

\* No lane holds more than it may, and what was emitted are events.
SizeOK == /\ \A e \in emitted : IsEvent(e)
          /\ \A l \in Lane : Len(queue[l]) <= Capacity[l[1]] /\ worker[l].at \in WorkerAt

LEMMA LaneTyped ==
  ASSUME NEW l \in Lane
  PROVE  Capacity[l[1]] \in Nat
BY BusAssumption DEF Lane

\* A worker that goes on is at one of its places.
LEMMA GoesToAPlace ==
  ASSUME Structure, SizeOK, NEW l \in Lane, NEW e, NEW left,
         worker' = [worker EXCEPT ![l] = After(l, e, left)]
  PROVE  \A k \in Lane : worker'[k].at \in WorkerAt
<1>1. /\ worker'[l] = After(l, e, left)
      /\ \A k \in Lane \ {l} : worker'[k] = worker[k]
  BY DEF Structure, WorkerOK
<1>2. After(l, e, left).at \in WorkerAt
  BY DEF After, WorkerAt
<1> QED BY <1>1, <1>2 DEF SizeOK

LEMMA Smaller ==
  ASSUME Structure, SizeOK, NEW l \in Lane,
         queue'[l] = queue[l] \/ (queue[l] # <<>> /\ queue'[l] = Tail(queue[l]))
  PROVE  Len(queue'[l]) <= Capacity[l[1]]
<1>1. queue[l] \in Seq(Range(queue[l])) /\ Len(queue[l]) <= Capacity[l[1]] /\ Capacity[l[1]] \in Nat
  BY LaneTyped DEF Structure, QueueOK, SizeOK
<1>2. CASE queue'[l] = queue[l]
  BY <1>1, <1>2
<1>3. CASE queue[l] # <<>> /\ queue'[l] = Tail(queue[l])
  <2>1. Len(queue[l]) \in Nat /\ Len(Tail(queue[l])) = Len(queue[l]) - 1
    BY <1>1, <1>3, HeadTailProperties
  <2> QED BY <1>1, <1>3, <2>1
<1> QED BY <1>2, <1>3

\* A lane takes an event only while it has room.
LEMMA SizeQueued ==
  ASSUME Structure, SizeOK, NEW x \in DOMAIN emitter, Enqueue(x)
  PROVE  SizeOK'
<1> DEFINE i == Item(Current(x), emitter[x].ver)
           l == LaneOf(Current(x))
<1>1. /\ queue' = [queue EXCEPT ![l] = Append(@, i)] /\ worker' = worker /\ Room(l)
      /\ emitted' = emitted \cup {Current(x)}
  BY DEF Enqueue, delivery
<1>2. IsEvent(Current(x)) /\ l \in Lane
  BY Enqueues
<1> HIDE DEF i, l
<1>3. /\ queue'[l] = Append(queue[l], i) /\ queue[l] \in Seq(Range(queue[l]))
      /\ \A k \in Lane \ {l} : queue'[k] = queue[k]
  BY <1>1, <1>2 DEF Structure, QueueOK
<1>4. Len(queue'[l]) <= Capacity[l[1]]
  <2>1. Len(queue[l]) \in Nat /\ Len(Append(queue[l], i)) = Len(queue[l]) + 1
    <3> DEFINE S == Range(queue[l]) \cup {i}
    <3>1. Range(queue[l]) \subseteq S /\ i \in S
      OBVIOUS
    <3> HIDE DEF S
    <3>2. queue[l] \in Seq(S)
      BY <1>3, <3>1
    <3> QED BY <3>1, <3>2, AppendProperties
  <2>2. Capacity[l[1]] \in Nat /\ Len(queue[l]) < Capacity[l[1]]
    <3>1. Capacity[l[1]] \in Nat
      BY <1>2, LaneTyped
    <3>2. CASE sentinel[l]
      BY <1>1, <2>1, <3>1, <3>2 DEF Room
    <3>3. CASE ~sentinel[l]
      BY <1>1, <2>1, <3>1, <3>3 DEF Room
    <3> QED BY <3>1, <3>2, <3>3
  <2> QED BY <1>3, <2>1, <2>2
<1>5. \A e \in emitted' : IsEvent(e)
  BY <1>1, <1>2 DEF SizeOK
<1>6. \A k \in Lane : Len(queue'[k]) <= Capacity[k[1]] /\ worker'[k].at \in WorkerAt
  BY <1>1, <1>3, <1>4 DEF SizeOK
<1> QED BY <1>5, <1>6 DEF SizeOK, IsEvent

LEMMA SizeSteps ==
  ASSUME Structure, SizeOK, [Next]_vars
  PROVE  SizeOK'
<1> DEFINE Shorter == \A l \in Lane : \/ queue'[l] = queue[l]
                                       \/ (queue[l] # <<>> /\ queue'[l] = Tail(queue[l]))
<1>1. ASSUME emitted' = emitted, Shorter, \A l \in Lane : worker'[l].at \in WorkerAt
      PROVE  SizeOK'
  BY <1>1, Smaller DEF SizeOK, IsEvent
<1>2. ASSUME NEW x \in DOMAIN emitter, TakeVersion(x) \/ FindFull(x)
      PROVE  SizeOK'
  BY <1>2 DEF TakeVersion, FindFull, lanes, delivery, SizeOK, IsEvent
<1>3. ASSUME NEW x \in DOMAIN emitter, Evict(x)
      PROVE  SizeOK'
  <2>1. emitted' = emitted /\ worker' = worker
    BY <1>3 DEF Evict, delivery
  <2>2. Shorter
    BY <1>3, Evicts
  <2>3. \A l \in Lane : worker'[l].at \in WorkerAt
    BY <2>1 DEF SizeOK
  <2> QED BY <1>1, <2>1, <2>2, <2>3
<1>4. ASSUME NEW l \in Lane, Take(l)
      PROVE  SizeOK'
  <2>1. emitted' = emitted /\ queue[l] # <<>>
    BY <1>4 DEF Take
  <2>2. Shorter
    BY <1>4, <2>1, Shortened DEF Take, Structure
  <2>3. \A k \in Lane : worker'[k].at \in WorkerAt
    BY <1>4, GoesToAPlace DEF Take
  <2> QED BY <1>1, <2>1, <2>2, <2>3
<1>5. ASSUME NEW l \in Lane, TakeStop(l) \/ CallHandler(l)
      PROVE  SizeOK'
  <2>1. emitted' = emitted /\ queue' = queue
    BY <1>5 DEF TakeStop, CallHandler, lanes
  <2>2. \E a \in WorkerAt : worker' = [worker EXCEPT ![l] = [@ EXCEPT !.at = a]]
    BY <1>5 DEF TakeStop, CallHandler, WorkerAt
  <2>3. PICK a \in WorkerAt : worker' = [worker EXCEPT ![l] = [worker[l] EXCEPT !.at = a]]
    BY <2>2
  <2>4. /\ worker'[l] = [worker[l] EXCEPT !.at = a]
        /\ \A k \in Lane \ {l} : worker'[k] = worker[k]
    BY <2>3 DEF Structure, WorkerOK
  <2>5. worker'[l].at \in {worker[l].at, a}
    BY <2>4
  <2> QED BY <2>1, <2>4, <2>5 DEF SizeOK, IsEvent
<1>6. ASSUME NEW l \in Lane, SkipHandler(l) \/ Timeout(l)
      PROVE  SizeOK'
  <2>1. emitted' = emitted /\ queue' = queue /\ GoOn(l)
    BY <1>6 DEF SkipHandler, Timeout, GoOn, lanes
  <2>2. \A k \in Lane : worker'[k].at \in WorkerAt
    BY <2>1, GoesToAPlace DEF GoOn
  <2> QED BY <1>1, <2>1, <2>2
<1>7. ASSUME NEW c \in DOMAIN emitter, HandlerReturns(c) \/ HandlerRaises(c)
      PROVE  SizeOK'
  <2>1. emitted' = emitted /\ queue' = queue /\ (worker' = worker \/ \E l \in WaitingFor(c) : GoOn(l))
    BY <1>7 DEF HandlerReturns, HandlerRaises, EndCall, lanes
  <2>2. \A k \in Lane : worker'[k].at \in WorkerAt
    BY <2>1, GoesToAPlace DEF GoOn, WaitingFor, SizeOK
  <2> QED BY <1>1, <2>1, <2>2
<1>8. CASE (\E k \in Key : CoolDown(k)) \/ SignalStop \/ Join \/ UNCHANGED vars
  BY <1>8 DEF CoolDown, SignalStop, Join, vars, lanes, delivery, SizeOK, IsEvent
<1> QED BY <1>2, <1>3, <1>4, <1>5, <1>6, <1>7, <1>8, Steps, SizeQueued

TypeInv == BreakerInv /\ StopInv /\ SizeOK

LEMMA TypeInit == Init => TypeInv
<1> SUFFICES ASSUME Init PROVE SizeOK
  BY BreakerInit, StopInit DEF TypeInv
<1>1. emitted = {} /\ \A l \in Lane : queue[l] = <<>> /\ worker[l].at = "get"
  BY DEF Init, Parked
<1>2. \A l \in Lane : Len(queue[l]) = 0 /\ Capacity[l[1]] \in Nat
  BY <1>1, LaneTyped, EmptySeq
<1> QED BY <1>1, <1>2 DEF SizeOK, WorkerAt

LEMMA TypeNext == TypeInv /\ [Next]_vars => TypeInv'
BY BreakerNext, StopNext, SizeSteps DEF TypeInv, StopInv, OnceInv

LEMMA Typed == TypeInv => TypeOK
<1> SUFFICES ASSUME TypeInv PROVE TypeOK
  OBVIOUS
<1>1. Structure /\ OnceOK /\ BreakerOK /\ StopOK /\ SizeOK
  BY DEF TypeInv, StopInv, StopKept, BreakerInv, OnceInv
<1>2. \A e \in emitted : e.type \in Type /\ e.ticker \in Ticker
  BY <1>1 DEF SizeOK, IsEvent
<1>3. ASSUME NEW x \in DOMAIN emitter
      PROVE  /\ x \in Sources \/ (x[1] \in Begun /\ x[2] \in Handler)
             /\ emitter[x].at \in {"ready", "put"}
  BY <1>1, CallsApart DEF OnceOK, CalledOK, Called, Structure, EmitterOK, ThreadType
<1>4. ASSUME NEW l \in Lane
      PROVE  /\ Waiting(l) \subseteq emitted /\ Len(queue[l]) <= Capacity[l[1]]
             /\ worker[l].at \in {"get", "deliver", "wait", "ended"}
  BY <1>1 DEF OnceOK, LaneWaits, Waiting, Range, SizeOK, WorkerAt
<1>5. \A k \in Key : breaker[k].state \in {"closed", "open", "half-open"}
  BY <1>1 DEF BreakerOK, BreakerType
<1> QED BY <1>1, <1>2, <1>3, <1>4, <1>5 DEF TypeOK, Structure, StopOK, OnceOK

\* The bus keeps its types: no lane outgrows its capacity, what waits and what is
\* delivered has been emitted, and a thread is a source or the call of a handler.
THEOREM TypeCorrect == Spec => []TypeOK
BY TypeInit, TypeNext, Typed, PTL DEF Spec
---------------------------------------------------------------------------
(***************************************************************************)
(* The queue of a lane, for every capacity, every set of priorities and    *)
(* any number of putters: the lazy deletion keeps its books, and the two   *)
(* heaps together implement BoundedQueue.                                  *)
(***************************************************************************)
\* The entries waiting, and the phantoms.
Both     == heap \cap evictHeap
Phantoms == (heap \ evictHeap) \cup (evictHeap \ heap)

\* The books need both heaps to be finite for _count to count anything.
BooksOK == HeapsTyped /\ HeapsAgree /\ IsFiniteSet(heap) /\ IsFiniteSet(evictHeap)

\* A number names one entry of the two heaps.
Unique(S) == \A e, f \in S : e.seq = f.seq => e = f

\* The entries that only one of two heaps has.
Apart(H, E) == (H \ E) \cup (E \ H)

\* Entry e, which E has too, leaves H together with entries that E has not.
Leaving(H, E, e, popped, H2) ==
  /\ Unique(H \cup E)
  /\ e \in H \cap E /\ popped \subseteq H \ E
  /\ H2 = H \ (popped \cup {e})
---------------------------------------------------------------------------
(* What is shared loses e alone, and the numbers of what is not shared lose *)
(* those popped and gain that of e.                                        *)
LEMMA LeaveOne ==
  ASSUME NEW H, NEW E, NEW e, NEW popped, NEW H2, Leaving(H, E, e, popped, H2)
  PROVE  /\ H2 \cap E = (H \cap E) \ {e}
         /\ Seqs(Apart(H2, E)) = (Seqs(Apart(H, E)) \ Seqs(popped)) \cup {e.seq}
<1> DEFINE A  == Apart(H, E)
           A2 == Apart(H2, E)
<1>1. H2 \cap E = (H \cap E) \ {e}
  BY DEF Leaving
<1>2. A2 = (A \ popped) \cup {e}
  BY DEF Leaving, Apart
<1>3. ASSUME NEW f \in A \ popped
      PROVE  f.seq \notin Seqs(popped)
  BY <1>3 DEF Seqs, Unique, Leaving, Apart
<1>4. Seqs(A2) = (Seqs(A) \ Seqs(popped)) \cup {e.seq}
  <2> HIDE DEF A, A2
  <2>1. ASSUME NEW n \in Seqs(A2)
        PROVE  n \in (Seqs(A) \ Seqs(popped)) \cup {e.seq}
    <3>1. PICK f \in A2 : n = f.seq
      BY <2>1 DEF Seqs
    <3>2. CASE f = e
      BY <3>1, <3>2
    <3>3. CASE f \in A \ popped
      <4>1. f.seq \in Seqs(A)
        BY <3>3 DEF Seqs
      <4> QED BY <3>1, <3>3, <4>1, <1>3
    <3> QED BY <1>2, <3>1, <3>2, <3>3
  <2>2. ASSUME NEW n \in Seqs(A) \ Seqs(popped)
        PROVE  n \in Seqs(A2)
    <3>1. PICK f \in A : n = f.seq
      BY <2>2 DEF Seqs
    <3>2. f \notin popped
      BY <2>2, <3>1 DEF Seqs
    <3> QED BY <1>2, <3>1, <3>2 DEF Seqs
  <2>3. e.seq \in Seqs(A2)
    BY <1>2 DEF Seqs
  <2> QED BY <2>1, <2>2, <2>3
<1> QED BY <1>1, <1>4

(* The entries of a heap that are not phantoms are those both heaps hold.   *)
LEMMA ValidIsBoth ==
  ASSUME BooksOK
  PROVE  Valid(heap) = Both /\ Valid(evictHeap) = Both
<1>1. \A e \in heap \cup evictHeap : e.seq \in invalid <=> e \in Phantoms
  BY DEF BooksOK, HeapsAgree, Seqs, Phantoms
<1> QED BY <1>1 DEF Valid, Both, Phantoms

(* A thread that is trying to put holds an item and a priority of the queue. *)
LEMMA PutterTries ==
  ASSUME HeapsTyped, NEW t \in Putters, putter[t].at \in {"put", "evict"}
  PROVE  putter[t] \in [at : {"put", "evict"}, pri : Priority, item : Payload]
BY DEF HeapsTyped, Idle
---------------------------------------------------------------------------
LEMMA BooksInit == HeapsInit => BooksOK
BY QueueAssumption, FS_EmptySet DEF HeapsInit, BooksOK, HeapsTyped, HeapsAgree, Seqs, Idle

(* What every operation that takes an entry out of a heap does to the books; *)
(* the other heap is left alone.                                             *)
LEMMA TakenOut ==
  ASSUME BooksOK, NEW e \in Both
  PROVE  /\ Cardinality(Both \ {e}) = count - 1
         /\ count - 1 \in 0 .. MaxSize
         /\ IsFiniteSet(Both)
<1>1. IsFiniteSet(Both)
  BY FS_Subset DEF BooksOK, Both
<1>2. Cardinality(Both \ {e}) = count - 1
  BY <1>1, FS_RemoveElement DEF BooksOK, HeapsAgree, Both
<1>3. Cardinality(Both \ {e}) \in Nat
  BY <1>1, FS_RemoveElement, FS_CardinalityType
<1> QED BY <1>1, <1>2, <1>3, QueueAssumption DEF BooksOK, HeapsTyped

LEMMA BooksGet == BooksOK /\ Get => BooksOK'
<1> SUFFICES ASSUME BooksOK, Get PROVE BooksOK'
  OBVIOUS
<1>1. PICK e \in Valid(heap) :
        LET popped == {f \in heap \ Valid(heap) : Before(f, e)}
        IN  /\ heap' = heap \ (popped \cup {e})
            /\ invalid' = (invalid \ Seqs(popped)) \cup {e.seq}
  BY DEF Get
<1> DEFINE popped == {f \in heap \ Valid(heap) : Before(f, e)}
<1>2. e \in heap \cap evictHeap /\ popped \in SUBSET (heap \ evictHeap)
  BY ValidIsBoth DEF Both
<1>3. Unique(heap \cup evictHeap)
  BY DEF BooksOK, HeapsAgree, Unique
<1>4. /\ heap' = heap \ (popped \cup {e})
      /\ invalid' = (invalid \ Seqs(popped)) \cup {e.seq}
      /\ count' = count - 1
      /\ UNCHANGED <<evictHeap, arrivals, putter>>
  BY <1>1 DEF Get
<1> HIDE DEF popped
<1>5. Leaving(heap, evictHeap, e, popped, heap')
  BY <1>2, <1>3, <1>4 DEF Leaving
<1>6. /\ heap' \cap evictHeap = Both \ {e}
      /\ Seqs(Apart(heap', evictHeap)) = invalid'
  <2>1. /\ heap' \cap evictHeap = (heap \cap evictHeap) \ {e}
        /\ Seqs(Apart(heap', evictHeap))
             = (Seqs(Apart(heap, evictHeap)) \ Seqs(popped)) \cup {e.seq}
    BY <1>5, LeaveOne
  <2>2. invalid = Seqs(Apart(heap, evictHeap))
    BY DEF BooksOK, HeapsAgree, Apart
  <2> QED BY <1>4, <2>1, <2>2 DEF Both
<1>7. HeapsAgree'
  <2>1. count' = Cardinality(heap' \cap evictHeap')
    BY <1>2, <1>4, <1>6, TakenOut DEF Both
  <2>2. heap' \cup evictHeap' \subseteq heap \cup evictHeap
    BY <1>4
  <2>3. invalid' = Seqs((heap' \ evictHeap') \cup (evictHeap' \ heap'))
    BY <1>4, <1>6 DEF Apart
  <2> QED BY <1>4, <2>1, <2>2, <2>3 DEF BooksOK, HeapsAgree, Seqs
<1>8. HeapsTyped'
  <2>1. count' \in 0 .. MaxSize
    BY <1>2, <1>4, TakenOut DEF Both
  <2>2. invalid' \subseteq Nat
    BY <1>2, <1>4 DEF BooksOK, HeapsTyped, Entry
  <2> QED BY <1>4, <2>1, <2>2 DEF BooksOK, HeapsTyped
<1>9. IsFiniteSet(heap') /\ IsFiniteSet(evictHeap')
  BY <1>4, FS_Subset DEF BooksOK
<1> QED BY <1>7, <1>8, <1>9 DEF BooksOK

LEMMA BooksGetNothing == BooksOK /\ GetNothing => BooksOK'
<1> SUFFICES ASSUME BooksOK, GetNothing PROVE BooksOK'
  OBVIOUS
<1>1. IsFiniteSet(Both) /\ Cardinality(Both) = 0
  BY FS_Subset DEF BooksOK, HeapsAgree, Both, GetNothing
<1>2. Both = {}
  BY <1>1, FS_EmptySet
<1>3. heap' = {} /\ heap \ Valid(heap) = heap
  BY <1>2, ValidIsBoth DEF GetNothing
<1>4. invalid' = Seqs(evictHeap)
  <2>1. invalid = Seqs(heap \cup evictHeap)
    <3>1. (heap \ evictHeap) \cup (evictHeap \ heap) = heap \cup evictHeap
      BY <1>2 DEF Both
    <3> QED BY <3>1 DEF BooksOK, HeapsAgree
  <2>2. invalid' = invalid \ Seqs(heap)
    BY <1>3 DEF GetNothing
  <2>3. \A e \in heap, f \in evictHeap : e.seq # f.seq
    BY <1>2 DEF BooksOK, HeapsAgree, Both
  <2> QED BY <2>1, <2>2, <2>3 DEF Seqs
<1>5. HeapsAgree'
  <2>1. heap' \cap evictHeap' = {} /\ count' = 0
    BY <1>3 DEF GetNothing
  <2>2. (heap' \ evictHeap') \cup (evictHeap' \ heap') = evictHeap
    BY <1>3 DEF GetNothing
  <2> QED BY <1>3, <1>4, <2>1, <2>2, FS_EmptySet DEF BooksOK, HeapsAgree, GetNothing, Seqs
<1>6. HeapsTyped'
  BY <1>3 DEF BooksOK, HeapsTyped, GetNothing
<1> QED BY <1>3, <1>5, <1>6, FS_EmptySet DEF BooksOK, GetNothing

(* Eviction, through either branch, whoever asks for it.                    *)
LEMMA BooksEvict ==
  ASSUME BooksOK, EvictLowest
  PROVE  /\ heap' \subseteq Entry /\ evictHeap' \subseteq Entry
         /\ invalid' \subseteq Nat /\ count' \in 0 .. MaxSize /\ arrivals' = arrivals
         /\ HeapsAgree' /\ IsFiniteSet(heap') /\ IsFiniteSet(evictHeap')
<1>1. CASE Valid(evictHeap) # {}
  <2>1. PICK e \in Valid(evictHeap) :
          LET popped == {f \in evictHeap \ Valid(evictHeap) : EvictedBefore(f, e)}
          IN  /\ evictHeap' = evictHeap \ (popped \cup {e})
              /\ invalid' = (invalid \ Seqs(popped)) \cup {e.seq}
              /\ count' = count - 1
              /\ UNCHANGED <<heap, arrivals>>
    BY <1>1 DEF EvictLowest
  <2> DEFINE popped == {f \in evictHeap \ Valid(evictHeap) : EvictedBefore(f, e)}
  <2>2. e \in evictHeap \cap heap /\ popped \in SUBSET (evictHeap \ heap)
    BY ValidIsBoth DEF Both
  <2>3. Unique(evictHeap \cup heap)
    BY DEF BooksOK, HeapsAgree, Unique
  <2>4. /\ evictHeap' = evictHeap \ (popped \cup {e})
        /\ invalid' = (invalid \ Seqs(popped)) \cup {e.seq}
        /\ count' = count - 1
        /\ UNCHANGED <<heap, arrivals>>
    BY <2>1
  <2> HIDE DEF popped
  <2>5. Leaving(evictHeap, heap, e, popped, evictHeap')
    BY <2>2, <2>3, <2>4 DEF Leaving
  <2>6. /\ evictHeap' \cap heap = (evictHeap \cap heap) \ {e}
        /\ Seqs(Apart(evictHeap', heap)) = invalid'
    <3>1. Apart(evictHeap, heap) = (heap \ evictHeap) \cup (evictHeap \ heap)
      BY DEF Apart
    <3>2. /\ evictHeap' \cap heap = (evictHeap \cap heap) \ {e}
          /\ Seqs(Apart(evictHeap', heap))
               = (Seqs(Apart(evictHeap, heap)) \ Seqs(popped)) \cup {e.seq}
      BY <2>5, LeaveOne
    <3> QED BY <2>4, <3>1, <3>2 DEF BooksOK, HeapsAgree
  <2>7. HeapsAgree'
    <3>1. count' = Cardinality(heap' \cap evictHeap')
      <4>1. heap' \cap evictHeap' = Both \ {e}
        BY <2>4, <2>6 DEF Both
      <4> QED BY <2>2, <2>4, <4>1, TakenOut DEF Both
    <3>2. heap' \cup evictHeap' \subseteq heap \cup evictHeap
      BY <2>4
    <3>3. (heap' \ evictHeap') \cup (evictHeap' \ heap')
            = Apart(evictHeap', heap)
      BY <2>4 DEF Apart
    <3> QED BY <2>4, <2>6, <3>1, <3>2, <3>3 DEF BooksOK, HeapsAgree
  <2>8. count' \in 0 .. MaxSize
    BY <2>2, <2>4, TakenOut DEF Both
  <2>9. invalid' \subseteq Nat
    BY <2>2, <2>4 DEF BooksOK, HeapsTyped, Entry
  <2> QED BY <2>4, <2>7, <2>8, <2>9, FS_Subset DEF BooksOK, HeapsTyped
<1>2. CASE Valid(evictHeap) = {}
  <2>1. /\ evictHeap' = {} /\ invalid' = invalid \ Seqs(evictHeap)
        /\ UNCHANGED <<heap, count, arrivals>>
    BY <1>2 DEF EvictLowest
  <2>2. Both = {}
    BY <1>2, ValidIsBoth
  <2>3. invalid' = Seqs(heap)
    <3>1. invalid = Seqs(heap \cup evictHeap)
      <4>1. (heap \ evictHeap) \cup (evictHeap \ heap) = heap \cup evictHeap
        BY <2>2 DEF Both
      <4> QED BY <4>1 DEF BooksOK, HeapsAgree
    <3>2. \A e \in heap, f \in evictHeap : e.seq # f.seq
      BY <2>2 DEF BooksOK, HeapsAgree, Both
    <3> QED BY <2>1, <3>1, <3>2 DEF Seqs
  <2>4. HeapsAgree'
    <3>1. heap' \cap evictHeap' = heap \cap evictHeap
      BY <2>1, <2>2 DEF Both
    <3>2. (heap' \ evictHeap') \cup (evictHeap' \ heap') = heap
      BY <2>1
    <3> QED BY <2>1, <2>3, <3>1, <3>2 DEF BooksOK, HeapsAgree, Seqs
  <2> QED BY <2>1, <2>4, FS_EmptySet DEF BooksOK, HeapsTyped
<1> QED BY <1>1, <1>2

LEMMA BooksTryPut ==
  ASSUME BooksOK, NEW t \in Putters, TryPut(t)
  PROVE  BooksOK'
<1> DEFINE e == [pri |-> putter[t].pri, seq |-> arrivals, item |-> putter[t].item]
<1>1. e \in Entry
  BY PutterTries DEF BooksOK, HeapsTyped, TryPut, Entry
<1>2. /\ count < MaxSize /\ count' = count + 1 /\ arrivals' = arrivals + 1
      /\ heap' = heap \cup {e} /\ evictHeap' = evictHeap \cup {e}
      /\ invalid' = invalid
      /\ putter' = [putter EXCEPT ![t] = Idle]
  BY DEF TryPut, Push
<1>3. e.seq = arrivals
  OBVIOUS
<1> HIDE DEF e
<1>4. e \notin heap \cup evictHeap
  BY <1>3 DEF BooksOK, HeapsTyped, HeapsAgree
<1>5. heap' \cap evictHeap' = Both \cup {e}
  BY <1>2 DEF Both
<1>6. HeapsAgree'
  <2>1. Cardinality(Both \cup {e}) = Cardinality(Both) + 1
    BY <1>4, FS_Subset, FS_AddElement DEF BooksOK, Both
  <2>2. (heap' \ evictHeap') \cup (evictHeap' \ heap')
          = (heap \ evictHeap) \cup (evictHeap \ heap)
    BY <1>2, <1>4
  <2>3. \A f \in heap \cup evictHeap : f.seq < arrivals' /\ f.seq # arrivals
    BY <1>2 DEF BooksOK, HeapsTyped, HeapsAgree, Entry
  <2>4. \A f \in heap' \cup evictHeap' : f.seq < arrivals'
    BY <1>2, <1>3, <2>3 DEF BooksOK, HeapsTyped
  <2>5. \A f, g \in heap' \cup evictHeap' : f.seq = g.seq => f = g
    BY <1>2, <1>3, <2>3 DEF BooksOK, HeapsAgree
  <2> QED BY <1>2, <1>5, <2>1, <2>2, <2>4, <2>5 DEF BooksOK, HeapsAgree, Both, Seqs
<1>7. HeapsTyped'
  <2>1. count' \in 0 .. MaxSize
    BY <1>2, QueueAssumption DEF BooksOK, HeapsTyped
  <2> QED BY <1>1, <1>2, <2>1 DEF BooksOK, HeapsTyped
<1> QED BY <1>2, <1>6, <1>7, FS_AddElement DEF BooksOK

LEMMA BooksNext == BooksOK /\ [HeapsNext]_heapsVars => BooksOK'
<1> SUFFICES ASSUME BooksOK, [HeapsNext]_heapsVars PROVE BooksOK'
  OBVIOUS
<1>1. CASE Get
  BY <1>1, BooksGet
<1>2. CASE GetNothing
  BY <1>2, BooksGetNothing
<1>3. ASSUME NEW t \in Putters, NEW p \in Priority, NEW i \in Payload, Start(t, p, i)
      PROVE  BooksOK'
  BY <1>3 DEF Start, BooksOK, HeapsTyped, HeapsAgree, Seqs, Trying
<1>4. ASSUME NEW t \in Putters, TryPut(t) PROVE BooksOK'
  BY <1>4, BooksTryPut
<1>5. ASSUME NEW t \in Putters, FailPut(t) PROVE BooksOK'
  <2>1. putter[t] \in [at : {"put", "evict"}, pri : Priority, item : Payload]
    BY <1>5, PutterTries DEF FailPut, BooksOK
  <2> QED BY <1>5, <2>1 DEF FailPut, BooksOK, HeapsTyped, HeapsAgree, Seqs
<1>6. ASSUME NEW t \in Putters, EvictsFor(t) PROVE BooksOK'
  <2>1. putter[t] \in [at : {"put", "evict"}, pri : Priority, item : Payload]
    BY <1>6, PutterTries DEF EvictsFor, BooksOK
  <2>2. putter' = [putter EXCEPT ![t].at = "put"]
    BY <1>6 DEF EvictsFor
  <2> QED BY <1>6, <2>1, <2>2, BooksEvict DEF EvictsFor, BooksOK, HeapsTyped
<1>7. CASE UNCHANGED heapsVars
  BY <1>7 DEF heapsVars, BooksOK, HeapsTyped, HeapsAgree, Seqs
<1> QED BY <1>1, <1>2, <1>3, <1>4, <1>5, <1>6, <1>7 DEF HeapsNext

(* The books of the lazy deletion are right in every reachable state, for    *)
(* any number of threads: _count is the number of entries both heaps hold,   *)
(* never above the capacity, and _invalid the numbers of the phantoms.       *)
THEOREM BooksKept == HeapsSpec => [](HeapsTyped /\ HeapsAgree)
<1>1. HeapsSpec => []BooksOK
  BY BooksInit, BooksNext, PTL DEF HeapsSpec
<1>2. BooksOK => HeapsTyped /\ HeapsAgree
  BY DEF BooksOK
<1> QED BY <1>1, <1>2, PTL
---------------------------------------------------------------------------
(* Every step of the two heaps is a step of the queue they implement, or    *)
(* leaves it alone.                                                         *)
LEMMA GetTakes == BooksOK /\ Get => Queue!Take
<1> SUFFICES ASSUME BooksOK, Get PROVE Queue!Take
  OBVIOUS
<1>1. PICK e \in Valid(heap) :
        /\ IsNext(e, Valid(heap))
        /\ heap' = heap \ ({f \in heap \ Valid(heap) : Before(f, e)} \cup {e})
  BY DEF Get
<1>2. Valid(heap) = heap \cap evictHeap
  BY ValidIsBoth DEF Both
<1>3. heap' \cap evictHeap' = (heap \cap evictHeap) \ {e}
  BY <1>1, <1>2 DEF Get
<1> QED BY <1>1, <1>2, <1>3 DEF Queue!Take, Queue!IsNext, Queue!Before, IsNext, Before, Get

LEMMA EvictLowestEvicts ==
  ASSUME BooksOK, EvictLowest
  PROVE  Queue!Evict \/ UNCHANGED <<heap \cap evictHeap, arrivals>>
<1>1. Valid(evictHeap) = heap \cap evictHeap
  BY ValidIsBoth DEF Both
<1>2. ASSUME NEW e \in Valid(evictHeap), IsVictim(e, Valid(evictHeap)),
             evictHeap' = evictHeap \
               ({f \in evictHeap \ Valid(evictHeap) : EvictedBefore(f, e)} \cup {e}),
             UNCHANGED <<heap, arrivals>>
      PROVE  Queue!Evict
  <2>1. heap' \cap evictHeap' = (heap \cap evictHeap) \ {e}
    BY <1>1, <1>2
  <2> QED BY <1>1, <1>2, <2>1
       DEF Queue!Evict, Queue!IsVictim, Queue!EvictedBefore, IsVictim, EvictedBefore
<1>3. ASSUME Valid(evictHeap) = {}, evictHeap' = {}, UNCHANGED <<heap, arrivals>>
      PROVE  UNCHANGED <<heap \cap evictHeap, arrivals>>
  BY <1>1, <1>3
<1> QED BY <1>2, <1>3 DEF EvictLowest

LEMMA TryPutPuts ==
  ASSUME BooksOK, NEW t \in Putters, TryPut(t)
  PROVE  \E p \in Priority, i \in Payload : Queue!Put(p, i)
<1>1. putter[t].pri \in Priority /\ putter[t].item \in Payload
  BY PutterTries DEF BooksOK, HeapsTyped, TryPut
<1>2. Queue!Put(putter[t].pri, putter[t].item)
  <2> DEFINE e == [pri |-> putter[t].pri, seq |-> arrivals, item |-> putter[t].item]
  <2>1. heap' = heap \cup {e} /\ evictHeap' = evictHeap \cup {e}
    BY DEF TryPut, Push
  <2>2. heap' \cap evictHeap' = (heap \cap evictHeap) \cup {e}
    BY <2>1
  <2>3. Cardinality(heap \cap evictHeap) < MaxSize /\ arrivals' = arrivals + 1
    BY DEF TryPut, Push, BooksOK, HeapsAgree
  <2> QED BY <2>2, <2>3 DEF Queue!Put, Queue!Cardinality, Cardinality
<1> QED BY <1>1, <1>2

LEMMA HeapsStep ==
  BooksOK /\ [HeapsNext]_heapsVars => [Queue!Next]_<<heap \cap evictHeap, arrivals>>
<1> SUFFICES ASSUME BooksOK, [HeapsNext]_heapsVars
             PROVE  Queue!Next \/ UNCHANGED <<heap \cap evictHeap, arrivals>>
  OBVIOUS
<1>1. CASE Get
  BY <1>1, GetTakes DEF Queue!Next
<1>2. CASE GetNothing
  <2>1. heap' \cap evictHeap' = heap \cap evictHeap
    BY <1>2, ValidIsBoth DEF GetNothing, Both
  <2> QED BY <1>2, <2>1 DEF GetNothing
<1>3. ASSUME NEW t \in Putters, NEW p \in Priority, NEW i \in Payload, Start(t, p, i)
      PROVE  UNCHANGED <<heap \cap evictHeap, arrivals>>
  BY <1>3 DEF Start
<1>4. ASSUME NEW t \in Putters, TryPut(t) PROVE Queue!Next
  BY <1>4, TryPutPuts DEF Queue!Next
<1>5. ASSUME NEW t \in Putters, FailPut(t)
      PROVE  UNCHANGED <<heap \cap evictHeap, arrivals>>
  BY <1>5 DEF FailPut
<1>6. ASSUME NEW t \in Putters, EvictsFor(t)
      PROVE  Queue!Next \/ UNCHANGED <<heap \cap evictHeap, arrivals>>
  BY <1>6, EvictLowestEvicts DEF EvictsFor, Queue!Next
<1>7. CASE UNCHANGED heapsVars
  BY <1>7 DEF heapsVars
<1> QED BY <1>1, <1>2, <1>3, <1>4, <1>5, <1>6, <1>7 DEF HeapsNext

(* For every capacity, every set of priorities and any number of threads,   *)
(* the two heaps with lazy deletion are one bounded queue: the most urgent  *)
(* entry is taken, the least urgent is evicted, and no entry is taken twice *)
(* or is both taken and evicted.                                            *)
THEOREM HeapsAreAQueue == HeapsSpec => Implements
<1>1. HeapsInit => Queue!Init
  BY DEF HeapsInit, Queue!Init
<1>2. HeapsSpec => []BooksOK
  BY BooksInit, BooksNext, PTL DEF HeapsSpec
<1> QED BY <1>1, <1>2, HeapsStep, PTL DEF HeapsSpec, Implements, Queue!Spec
===========================================================================
