------------------------------ MODULE EventBus -----------------------------
(***************************************************************************)
(* The asynchronous event bus (monitor/event_bus.py, EventBus and          *)
(* _PartitionedAsyncDispatcher).  A dispatcher per event type has worker   *)
(* threads, each with a bounded queue that the tickers are hashed to: a    *)
(* lane.  Emitters are the source threads of the program and the handlers  *)
(* themselves, which the workers run one after the other in a thread of    *)
(* their own with a timeout, behind a circuit breaker per handler and      *)
(* ticker.                                                                 *)
(*                                                                         *)
(* Events of a type have the same priority, so that a lane's               *)
(* _BoundedPriorityQueue (DualHeapQueue) is first come first served; only  *)
(* the stop sentinel is less urgent than every event.                      *)
(***************************************************************************)
EXTENDS Naturals, Sequences, FiniteSets, Functions

CONSTANTS Type, Ticker, Handler, Source,
          Workers,        \* worker threads of each type's dispatcher
          Hash,           \* crc32 of a ticker
          Capacity,       \* of each lane of a type
          Policy,         \* "block" or "oldest" (drop it)
          Coalesced,      \* the types of which only the latest counts
          Subscribers,    \* the handlers of each type, in delivery order
          Emits,          \* the types a handler emits for an event of a type
          Script,         \* what each source emits, as <<type, ticker>>
          StopOrder,      \* the dispatchers in the order shutdown stops them
          Threshold,      \* CIRCUIT_BREAKER_THRESHOLD
          MaxFaults       \* bound of a run: calls that raise or outlive
                          \* HANDLER_TIMEOUT_SEC, hooks that raise

ASSUME BusAssumption ==
  /\ \A t \in Type : Workers[t] \in Nat \ {0} /\ Capacity[t] \in Nat \ {0}
  /\ \A t \in Type : Policy[t] \in {"block", "oldest"}
  /\ \A t \in Coalesced : t \in Type /\ Policy[t] = "oldest"
  /\ Hash \in [Ticker -> Nat]
  /\ Subscribers \in [Type -> Seq(Handler)]
  /\ Emits \in [Handler -> [Type -> Seq(Type)]]
  /\ Script \in [Source -> Seq(Type \X Ticker)]
  /\ Threshold \in Nat \ {0}
  \* A component subscribes each of its handlers once to a type, and the
  \* dispatchers are kept in a dict.
  /\ \A t \in Type : IsInjective(Subscribers[t])
  /\ StopOrder \in Seq(Type) /\ IsInjective(StopOrder)

VARIABLES emitter,   \* threads that emit: sources and running handlers
          version,   \* _cv: latest coalescing version per type and ticker
          queue,     \* per lane: the items waiting, an event and its version
          sentinel,  \* per lane: _STOP is in the queue
          flag,      \* per lane: its _stop_flags event
          worker,    \* per lane: what its thread does
          breaker,   \* per handler and ticker: failures and state
          dlq,       \* dead letters, as <<event, handler>>
          stopping,  \* how far shutdown has come in StopOrder
          faults,    \* budget used
          emitted,   \* history: events whose emit has returned
          begun,     \* history: items whose delivery has begun
          skipped,   \* history: <<event, handler>> not called for a breaker
          pending    \* history: what a lane held when it was told to stop

vars == <<emitter, version, queue, sentinel, flag, worker, breaker, dlq,
          stopping, faults, emitted, begun, skipped, pending>>

Lane == UNION {{<<t, k>> : k \in 0 .. Workers[t] - 1} : t \in Type}
Key  == Handler \X Ticker

\* An event is known by the thread that emits it and its place among what
\* that thread emits; a thread is <<source>>, or a call <<event, handler>>.
Sources    == {<<s>> : s \in Source}
LaneOf(e)  == <<e.type, Hash[e.ticker] % Workers[e.type]>>
Stream(e)  == <<e.type, e.ticker>>
Item(e, v) == [ev |-> e, ver |-> v]

Thread(todo) == [at |-> "ready", nth |-> 1, ver |-> 0, todo |-> todo, full |-> FALSE]
Parked       == [at |-> "get"]
Running      == [next |-> 1, at |-> "signal"]

Init ==
  /\ emitter = [x \in Sources |-> Thread(Script[x[1]])]
  /\ version = [k \in Type \X Ticker |-> 0]
  /\ queue = [l \in Lane |-> <<>>]
  /\ sentinel = [l \in Lane |-> FALSE]
  /\ flag = [l \in Lane |-> FALSE]
  /\ worker = [l \in Lane |-> Parked]
  /\ breaker = [k \in Key |-> [failures |-> 0, state |-> "closed"]]
  /\ dlq = {}
  /\ stopping = Running
  /\ faults = 0
  /\ emitted = {} /\ begun = {} /\ skipped = {}
  /\ pending = [l \in Lane |-> {}]

delivery == <<worker, breaker, dlq, begun, skipped>>
lanes    == <<queue, sentinel, flag>>
stops    == <<stopping, pending>>

\* The event an emitter is at.
Current(x) == LET w == emitter[x].todo[1]
              IN  [type |-> w[1], ticker |-> w[2], by |-> x, nth |-> emitter[x].nth]

(* Mutant: one entry too many fits.                                        *)
RoomForOneMore(l) == Len(queue[l]) + (IF sentinel[l] THEN 1 ELSE 0) <= Capacity[l[1]]

Room(l) == Len(queue[l]) + (IF sentinel[l] THEN 1 ELSE 0) < Capacity[l[1]]
---------------------------------------------------------------------------
\* emit, up to the version of a coalesced event that put takes under
\* _cv_lock; for the other types nothing shared is written before put.
TakeVersion(x) ==
  /\ emitter[x].at = "ready" /\ emitter[x].todo # <<>>
  /\ Current(x).type \in Coalesced
  /\ version' = [version EXCEPT ![Stream(Current(x))] = @ + 1]
  /\ emitter' = [emitter EXCEPT ![x].at = "put",
                                ![x].ver = version[Stream(Current(x))] + 1]
  /\ UNCHANGED <<lanes, delivery, stops, faults, emitted>>

Putting(x) == /\ emitter[x].todo # <<>> /\ ~emitter[x].full
              /\ emitter[x].at = IF Current(x).type \in Coalesced THEN "put"
                                 ELSE "ready"

\* put by policy.  BLOCK waits for room; DROP_OLDEST goes to evict and
\* tries again.
Enqueue(x) ==
  LET l == LaneOf(Current(x))
  IN  /\ Putting(x)
      /\ Room(l)
      /\ queue' = [queue EXCEPT ![l] = Append(@, Item(Current(x), emitter[x].ver))]
      /\ emitter' = [emitter EXCEPT ![x] =
                       [Thread(Tail(@.todo)) EXCEPT !.nth = emitter[x].nth + 1]]
      /\ emitted' = emitted \cup {Current(x)}
      /\ UNCHANGED <<version, sentinel, flag, delivery, stops, faults>>

(* Mutant: every policy evicts.                                            *)
FindFullAny(x) ==
  /\ Putting(x)
  /\ ~Room(LaneOf(Current(x)))
  /\ emitter' = [emitter EXCEPT ![x].full = TRUE]
  /\ UNCHANGED <<version, lanes, delivery, stops, faults, emitted>>

FindFull(x) ==
  /\ Putting(x)
  /\ ~Room(LaneOf(Current(x)))
  /\ Policy[Current(x).type] = "oldest"
  /\ emitter' = [emitter EXCEPT ![x].full = TRUE]
  /\ UNCHANGED <<version, lanes, delivery, stops, faults, emitted>>

\* evict_lowest_urgency: the sentinel before any event, then the oldest.
\* The queue may have been emptied since it was found full.
Evict(x) ==
  LET l == LaneOf(Current(x))
  IN  /\ emitter[x].full
      /\ IF sentinel[l]
         THEN sentinel' = [sentinel EXCEPT ![l] = FALSE] /\ UNCHANGED queue
         ELSE /\ queue' = [queue EXCEPT ![l] = IF @ = <<>> THEN @ ELSE Tail(@)]
              /\ UNCHANGED sentinel
      /\ emitter' = [emitter EXCEPT ![x].full = FALSE]
      /\ UNCHANGED <<version, flag, delivery, stops, faults, emitted>>
---------------------------------------------------------------------------
\* The end of an event: the worker looks at its flag and takes the next.
After(l, e, left) ==
  IF left # <<>> THEN [at |-> "deliver", ev |-> e, left |-> left]
  ELSE [at |-> IF flag[l] THEN "ended" ELSE "get"]

(* Mutant: no version is compared.                                         *)
FreshAlways(i) == TRUE

\* A coalesced event is stale when a newer one has got its version.
Fresh(i) == i.ev.type \in Coalesced => version[Stream(i.ev)] = i.ver

\* _worker: an item is taken, and dropped if it is stale.
Take(l) ==
  LET i == Head(queue[l])
  IN  /\ worker[l].at = "get" /\ queue[l] # <<>>
      /\ queue' = [queue EXCEPT ![l] = Tail(@)]
      /\ worker' = [worker EXCEPT ![l] =
           After(l, i.ev, IF Fresh(i) THEN Subscribers[i.ev.type] ELSE <<>>)]
      /\ begun' = IF Fresh(i) THEN begun \cup {i} ELSE begun
      /\ UNCHANGED <<emitter, version, sentinel, flag, breaker, dlq, skipped,
                     stops, faults, emitted>>

(* Mutant: the sentinel is more urgent than the events.                    *)
TakeStopFirst(l) ==
  /\ worker[l].at = "get"
  /\ sentinel[l] \/ (flag[l] /\ queue[l] = <<>>)
  /\ sentinel' = [sentinel EXCEPT ![l] = FALSE]
  /\ worker' = [worker EXCEPT ![l].at = "ended"]
  /\ UNCHANGED <<emitter, version, queue, flag, breaker, dlq, begun, skipped,
                 stops, faults, emitted>>

\* The sentinel is behind every event; an empty queue with the flag up is
\* left as well.
TakeStop(l) ==
  /\ worker[l].at = "get" /\ queue[l] = <<>>
  /\ sentinel[l] \/ flag[l]
  /\ sentinel' = [sentinel EXCEPT ![l] = FALSE]
  /\ worker' = [worker EXCEPT ![l].at = "ended"]
  /\ UNCHANGED <<emitter, version, queue, flag, breaker, dlq, begun, skipped,
                 stops, faults, emitted>>

(* Mutant: one breaker per handler, whatever the ticker.                   *)
KeyOfHandler(e, h) == <<h, CHOOSE t \in Ticker : TRUE>>

\* _deliver: an open breaker passes the handler over, without a dead letter.
KeyOf(e, h) == <<h, e.ticker>>
At(l)       == <<worker[l].ev, Head(worker[l].left)>>

SkipHandler(l) ==
  /\ worker[l].at = "deliver"
  /\ breaker[KeyOf(At(l)[1], At(l)[2])].state = "open"
  /\ worker' = [worker EXCEPT ![l] = After(l, worker[l].ev, Tail(worker[l].left))]
  /\ skipped' = skipped \cup {At(l)}
  /\ UNCHANGED <<emitter, version, lanes, breaker, dlq, begun, stops, faults,
                 emitted>>

CallHandler(l) ==
  LET c    == At(l)
      does == Emits[c[2]][c[1].type]
  IN  /\ worker[l].at = "deliver"
      /\ breaker[KeyOf(c[1], c[2])].state # "open"
      /\ worker' = [worker EXCEPT ![l].at = "wait"]
      /\ emitter' = [x \in DOMAIN emitter \cup {c} |->
           IF x = c THEN Thread([i \in DOMAIN does |-> <<does[i], c[1].ticker>>])
           ELSE emitter[x]]
      /\ UNCHANGED <<version, lanes, breaker, dlq, begun, skipped, stops,
                     faults, emitted>>

\* The lane whose worker waits for a call; none when it has given it up.
WaitingFor(c) == {l \in Lane : worker[l].at = "wait" /\ At(l) = c}

\* What the worker does with the outcome of a call.
Succeeded(c) ==
  /\ breaker' = [breaker EXCEPT ![KeyOf(c[1], c[2])] =
                   [failures |-> 0, state |-> "closed"]]
  /\ UNCHANGED dlq

Failed(c) ==
  LET k    == KeyOf(c[1], c[2])
      more == breaker[k].failures + 1
  IN  /\ breaker' = [breaker EXCEPT ![k] =
           [failures |-> more,
            state |-> IF more >= Threshold THEN "open" ELSE @.state]]
      /\ dlq' = dlq \cup {c}

GoOn(l) == worker' = [worker EXCEPT ![l] = After(l, worker[l].ev, Tail(worker[l].left))]

Fault == faults < MaxFaults /\ faults' = faults + 1

\* The thread of a call ends; nobody looks at the outcome of a call that
\* has been given up.
EndCall(c, Outcome(_)) ==
  /\ emitter' = Restrict(emitter, DOMAIN emitter \ {c})
  /\ IF WaitingFor(c) = {} THEN UNCHANGED <<worker, breaker, dlq>>
     ELSE Outcome(c) /\ \E l \in WaitingFor(c) : GoOn(l)
  /\ UNCHANGED <<version, lanes, begun, skipped, stops, emitted>>

HandlerReturns(c) ==
  /\ emitter[c].at = "ready" /\ emitter[c].todo = <<>>
  /\ EndCall(c, Succeeded)
  /\ UNCHANGED faults

\* An exception anywhere between two emissions, that of a before_emit hook
\* with durable_fail_fast among them: what was next is not emitted.
HandlerRaises(c) ==
  /\ emitter[c].at = "ready" /\ ~emitter[c].full
  /\ Fault
  /\ EndCall(c, Failed)

(* Mutant: the TimeoutError ends the worker.                               *)
TimeoutKills(l) ==
  /\ worker[l].at = "wait"
  /\ Fault
  /\ Failed(At(l))
  /\ worker' = [worker EXCEPT ![l].at = "ended"]
  /\ UNCHANGED <<emitter, version, lanes, begun, skipped, stops, emitted>>

\* HANDLER_TIMEOUT_SEC: the worker gives the call up; its thread goes on.
Timeout(l) ==
  /\ worker[l].at = "wait"
  /\ Fault
  /\ Failed(At(l))
  /\ GoOn(l)
  /\ UNCHANGED <<emitter, version, lanes, begun, skipped, stops, emitted>>

\* CIRCUIT_BREAKER_COOLDOWN passes: the next call is a trial (half-open).
CoolDown(k) ==
  /\ breaker[k].state = "open"
  /\ breaker' = [breaker EXCEPT ![k].state = "half-open"]
  /\ UNCHANGED <<emitter, version, lanes, worker, dlq, begun, skipped, stops,
                 faults, emitted>>
---------------------------------------------------------------------------
\* shutdown: dispatcher after dispatcher, every lane gets the sentinel, or
\* its flag when it is full, and the threads are joined with a timeout.
LanesOf(t) == {l \in Lane : l[1] = t}

SignalStop ==
  LET now == LanesOf(StopOrder[stopping.next])
  IN  /\ stopping.next <= Len(StopOrder) /\ stopping.at = "signal"
      /\ sentinel' = [l \in Lane |-> sentinel[l] \/ (l \in now /\ Room(l))]
      /\ flag' = [l \in Lane |-> flag[l] \/ (l \in now /\ ~Room(l))]
      /\ pending' = [l \in Lane |-> IF l \in now THEN Range(queue[l])
                                    ELSE pending[l]]
      /\ stopping' = [stopping EXCEPT !.at = "join"]
      /\ UNCHANGED <<emitter, version, queue, delivery, faults, emitted>>

\* The join returns when the threads have ended, or after its timeout.
Join ==
  /\ stopping.at = "join"
  /\ stopping' = [next |-> stopping.next + 1, at |-> "signal"]
  /\ UNCHANGED <<emitter, version, lanes, delivery, pending, faults, emitted>>
---------------------------------------------------------------------------
Emitting(x) == TakeVersion(x) \/ Enqueue(x) \/ FindFull(x) \/ Evict(x)
Calls       == DOMAIN emitter \ Sources
Calling(c)  == Emitting(c) \/ HandlerReturns(c)
Working(l)  == Take(l) \/ TakeStop(l) \/ SkipHandler(l) \/ CallHandler(l)

Next ==
  \/ \E x \in DOMAIN emitter : Emitting(x)
  \/ \E l \in Lane : Working(l) \/ Timeout(l)
  \/ \E c \in Calls : HandlerReturns(c) \/ HandlerRaises(c)
  \/ \E k \in Key : CoolDown(k)
  \/ SignalStop \/ Join

\* Threads run: those of the sources, the workers, and the handlers, which
\* return.  Nothing makes a breaker cool down or a shutdown begin in time.
Fairness ==
  /\ \A x \in Sources : WF_vars(Emitting(x))
  /\ \A l \in Lane : WF_vars(Working(l))
  /\ WF_vars(\E c \in Calls : Calling(c))

Spec == Init /\ [][Next]_vars /\ Fairness
---------------------------------------------------------------------------
Critical(e) == Policy[e.type] = "block"
Waiting(l)  == {i.ev : i \in Range(queue[l])}
Begun       == {i.ev : i \in begun}

\* The variables of the bus have their types.
TypeOK ==
  /\ \A e \in emitted : e.type \in Type /\ e.ticker \in Ticker
  /\ \A x \in DOMAIN emitter :
       /\ x \in Sources \/ (x[1] \in Begun /\ x[2] \in Handler)
       /\ emitter[x].at \in {"ready", "put"}
  /\ version \in [Type \X Ticker -> Nat]
  /\ \A l \in Lane : /\ Waiting(l) \subseteq emitted
                     /\ Len(queue[l]) <= Capacity[l[1]]
                     /\ worker[l].at \in {"get", "deliver", "wait", "ended"}
  /\ sentinel \in [Lane -> BOOLEAN] /\ flag \in [Lane -> BOOLEAN]
  /\ \A k \in Key : breaker[k].state \in {"closed", "open", "half-open"}
  /\ Begun \subseteq emitted

\* When emit has returned, an event of the order path (policy BLOCK, "NEVER
\* drop") is in its lane or its delivery has begun: neither a full queue, a
\* failing handler, a timeout nor a shutdown makes it vanish.
CriticalKept ==
  \A e \in emitted : Critical(e) => e \in Begun \cup Waiting(LaneOf(e))

\* Of a coalesced type, several threads may number and enqueue the events
\* of a ticker in different orders; the delivery never goes back to an
\* older one.
FreshOnly ==
  [][\A i \in begun' \ begun, j \in begun :
       Stream(i.ev) = Stream(j.ev) /\ i.ev.type \in Coalesced => j.ver < i.ver]_vars

\* "Isolates one bad ticker from others": a handler misses an event only
\* after Threshold dead letters of its own about the event's ticker.
SkippedForCause ==
  \A s \in skipped :
    Cardinality({d \in dlq : d[2] = s[2] /\ d[1].ticker = s[1].ticker}) >= Threshold

\* stop promises to "drain remaining events then stop workers".  It does so
\* where the sentinel fitted: a worker that ended without its flag has
\* begun every event that was in its lane when it was told to stop.  A full
\* lane gets the flag, and its worker leaves what is queued.
DrainedUnlessFull ==
  \A l \in Lane : worker[l].at = "ended" /\ ~flag[l] =>
                    pending[l] \cap Range(queue[l]) = {}

\* The BLOCK queues between the handlers never wedge: unless the bus is
\* shut down, every thread gets rid of what it emits and every event of the
\* order path is delivered, although workers wait for handlers that wait
\* for room in other lanes.
CriticalDelivered ==
  []<>(\/ stopping # Running
       \/ /\ \A x \in DOMAIN emitter : emitter[x].todo = <<>>
          /\ {e \in emitted : Critical(e)} \subseteq Begun)

\* "Handlers with n_workers=1 dispatchers (ORDER_REQ, FILL) are inherently
\* serialised" (event_bus.py, subscribe): of such a type, one handler runs
\* at a time.
Serialised ==
  \A t \in Type : Workers[t] = 1 => Cardinality({c \in Calls : c[1].type = t}) <= 1
===========================================================================
