# A verification development for trading_hub

TLA+ models of the parts of trading_hub that decide what it owns and whether it keeps
running: the write-ahead log of orders, order execution at both brokers, the path of an
order through risk checks, gates, router and position books, the FIFO fill ledger, the
event bus and its queue, the exits of a position, the state files, the options process
with its lifecycle, and the supervisor with its watchdog. TLC checks them on small
instances; TLAPS proves the main results about the log, both brokers, the order flow, the
bus and its queue, the exits, the state files, the options session and the supervisor for
every value of the constants. `PROJECT.json` names, for each definition, the lines it
models.

## 1. The system

The trading process is **Core** (`scripts/run_core.py`), one Python process with
an event bus whose critical event types (ORDER_REQ, FILL, ORDER_FAIL, POSITION)
have one worker thread each, and a main loop. **Options** (`scripts/run_options.py`)
is a second process with its own broker account logic; it shares the WAL directory
with Core. A supervisor (`scripts/supervisor.py`) restarts a process that dies.

| Component | State | Operations | Talks to | Correct when |
|---|---|---|---|---|
| Order WAL `monitor/order_wal.py` | the day's log file; index of active keys (ticker, side) per process | check_and_intent, intent, submitted, filled, recorded, cancelled, rejected, failed, has_pending_order, get_incomplete_orders | risk engines, brokers, PositionManager, recovery at startup | at most one open BUY per ticker, over crashes; every lost order is closed |
| AlpacaBroker `monitor/brokers.py` | none of its own but the orders at the exchange | _execute_buy, _execute_sell | exchange API, bus (FILL, ORDER_FAIL) | real quantities, never short, one answer per request |
| TradierBroker `monitor/tradier_broker.py` | orders at Tradier | _execute_buy, _execute_sell, _poll_fill | Tradier API, bus | the same |
| Risk engine `monitor/risk_engine.py` | pending tickers, cooldowns | _handle_buy, _emit_sell_order, clear pending | positions, WAL, bus (ORDER_REQ) | limits hold with orders in flight |
| RiskAdapter `pro_setups/risk/` | Pro positions, blacklist | validate_and_emit, handlers of FILL, POSITION, ORDER_FAIL | WAL, bus | its set is the open and requested Pro positions |
| RegistryGate and registry `monitor/registry_gate.py`, `distributed_registry.py` | ticker → layer, in a file | try_acquire, release, reset | ORDER_REQ, ORDER_FAIL, POSITION | one layer per ticker |
| PortfolioRiskGate `monitor/portfolio_risk.py` | exposure, halt flag | blocks BUYs | ORDER_REQ | exposure within limits |
| SmartRouter `monitor/smart_router.py` | broker of each position, health per broker | route, split, failover | brokers, POSITION | a SELL goes where the shares are |
| PositionManager `monitor/position_manager.py` | the position books | open, reduce, close, phantom cleanup | FILL, ORDER_FAIL, ledger, WAL | books = shares at the brokers |
| Reconciliation `monitor/monitor.py` | none | startup sync, live reconcile | both brokers, books | repairs the books and damages nothing |
| Fill ledger `monitor/fill_ledger.py`, `lot_matcher.py` | lots, remaining quantities, matches; file | append, load, close_stale_lots | PositionManager, kill switch (daily P&L) | shares conserved, FIFO, a restart changes nothing |
| Event bus `monitor/event_bus.py` | a bounded priority queue per worker, versions of coalesced events, breakers, dead letters | emit, worker, stop | everything | no critical event lost, no wedge, no old bar after a newer one |
| Safe state file `lifecycle/safe_state.py` | a file, two backups, their checksums | write, read, read_if_changed | whoever keeps state | a reader gets a completed write |
| Options engine, risk gate, broker `options/` | positions, capital, reservations | entries, exits, close_all | IPC signals, bars, broker | capital counted, positions managed |
| Lifecycle `lifecycle/` | saved state, halt file | start, restore, reconcile, tick, halt, stop | options engine | a halt ends the day, flat |
| Supervisor `scripts/supervisor.py` | a manager per engine: status, restart count | start, check, restart, stop | engines, heartbeat file | what must run runs, what gave up stays down |
| Watchdog `scripts/outer_watchdog.py`, `session_watchdog.py` | restarts of the day | check_and_heal, healer | supervisor, engines | a dead or stuck supervisor is replaced |
| Exit engine `monitor/exit_engine.py`, strategy engine `monitor/strategy_engine.py` | a lifecycle per position: phase, stop, trail; what the position keeps of it | bars and quotes evaluate it, force close, restore | positions, SIGNAL lane, state file | stops and phases only ratchet, one partial exit, what is due is sold |
| Entry signals, bar builder, screeners, data collection, database, dashboards | see `PROJECT.json` components | | | not modelled, sections 6 and 8 |

The hard behaviours are the ones the models keep: four worker threads that overtake each
other; checks made long before the write they protect; broker calls whose outcome is
unknown when they raise; partial fills around a cancellation; stops that fire at the
exchange; two processes recovering from one log; crashes between any two steps, of a file
operation too; handlers that outlive their timeout; signals that enter beside a
reservation; a supervisor that can hang, die or give up; reconciliations working on a
snapshot while events go on. `PROJECT.json` lists them as hazards, each at its line with
the properties that cover it.

## 2. Modules

* **DedupGate** – the abstract promise of the log: a BUY is admitted for a ticker
  only while no BUY admitted before it is open.
* **OrderWAL** – the log and everyone who writes to it. A client id is a number in
  the order of the first line it wrote. `disk`/`keyed` are the file, `active`/`loaded`
  Core's index (`_active_orders`, `_initialized`), `phase` the thread executing an
  order, `venue` what the broker holds of it, `todo` the snapshot the recovery loop
  of a process works through. `CheckAndIntent`, `Intent`, `WriteSubmitted`, `SeeFill`,
  `ConsumeFill`, ... are the calls of the callers, each with its two failure outcomes
  (the line reached the file or not); `Crash`, `StartRecovery` and `Resolve` are the
  restart. The history variables `closed` and `abandoned` say which orders have ever
  had a terminal line, or a recovery that could not write it.
* **OrderWALProofs** – theorems about OrderWAL (section 5).
* **BrokerAccount** – the account of a ticker at a broker: its exchange, which fills
  orders and fires stops between any two calls, and the worker that executes one request
  after the other. `slips` is a history of the ways in which the books may lose it. Between
  requests, the orders of earlier ones are forgotten once none of them is live.
* **AlpacaBroker** – `_execute_buy` and `_execute_sell`, one action per call to the
  broker's API, with the exchange filling, partially or wholly, and firing stops in
  between. Comparisons of the form `str(order.status) == '...'` may miss any fill.
* **TradierBroker** – the same for Tradier, which works differently: a stop order of its
  own after the FILL, a new order for every attempt whatever became of the last, orders
  that refuse to be cancelled and are left alone from then on, SELLs refused when the
  shares are gone.
* **BrokersProofs** – theorems about both.
* **OrderFlow** – the order path of Core: `Screen*` and `Place` are the two halves of
  a risk engine's handler (the limits; then check_and_intent and ORDER_REQ), `Block`,
  `Pass`, `Route*` and `Broker*` the ORDER_REQ worker, `Fill*`, `Fail*`, `Closed*` the
  handlers of the other three workers in the order of their bus priorities, `Rec*` the
  three steps of a live reconciliation, `Restart` a start with its startup sync,
  `RecoverWal` the log's recovery. The log is an instance of DedupGate, which OrderWAL
  is proved to implement. `slips` is a history of the known ways in which the parts
  lose each other; each property names the ones it excepts, and leaving any one
  of them out of the property makes TLC find a counterexample. `Merges` is the condition
  under which a start adds a broker's shares to a saved record.
* **OrderFlowProofs** – theorems about it.
* **FillLedger** – ledger and matcher; matching and replay are folds over the lots,
  one turn of a loop each (`Consume`), and `Load` is the start of the next process.
  `oversold`, `carried` and `halved` are histories of what `RestartKeepsLedger` excepts.
* **QueueOrder, BoundedQueue** – the two orders of a queue of the bus, and what it
  promises: a set of entries, of which the most urgent is taken and the least urgent
  evicted.
* **DualHeapQueue** – `_BoundedPriorityQueue`: `heap` and `evictHeap`, the numbers given
  out by one and not yet met by the other (`invalid`), `count`; put with its retries as
  the policies do it. It implements BoundedQueue.
* **EventBus** – dispatchers, lanes (one worker and one queue each), emitters that block,
  evict or draw versions, workers that call handlers in a thread of their own, breakers,
  dead letters, shutdown. A call that was given up goes on as an emitter nobody waits for.
* **EventBusProofs** – theorems about it and about DualHeapQueue, the queue of its lanes.
* **DurableCell** – what a state file promises: the last completed write, through two
  interrupted ones.
* **SafeState** – `SafeStateFile`, one action per file operation: four copies of the
  rotation, `os.replace`, the sidecar; each may fail or be cut by a crash. A write is a
  number; a copy holds it, nothing or garbage. It implements DurableCell.
* **SafeStateProofs** – theorems about it and about FillLedger, which keeps its lots in
  such a file.
* **OptionsSession** – the options process: the main loop (`main`: sync, tick, halt, bars,
  close, over), the threads (`call`: entries of bar scans and of the IPC consumer, BARs, the
  closing of the main loop), the engine's books (`tracked`, `stake`), the risk gate's (`risk`,
  `deployed`, `pending`), the account, the two files that survive a crash. The process uses
  the bus in its synchronous form, which hands each event to a thread and gives it up after
  45 s (`_deliver`): `BarComes` starts a BAR, `BarsDone` lets the main loop go on whether or not
  it is over, and the thread goes on with it, through `Decide`, `Sell`, `Book`, `Test` and
  `Reserve`, whatever the main loop does meanwhile. A close keeps the units it looked up
  when it began. Spreads risk amounts of `Risks`: `Acquire` overwrites the ticker's and
  adds to what is deployed, `Release` frees what was acquired last. `excused` and `crossed` are
  histories of the tickers that `StoppedFlat` and `CapitalCounted` except.
* **OptionsSessionProofs** – theorems about it.
* **ExitEngine** – `PositionLifecycle`: the five phases as operators from a lifecycle and a
  price to the next lifecycle and a decision. `Seen` and `Breached` are `evaluate()` up to the
  reading of the phase, `Phase0` to `Phase4` the rest; `Kept` and `Restored` what goes through
  the state file.
* **StrategyEngine** – the exits of one ticker. `bar` and `quote` are the two threads, each with
  the position and lifecycle objects it holds (`pos`, `lcs` are small heaps, `cur` and `reg` what
  the dictionaries refer to); a step ends where the other thread can come in between: after the
  position is looked up, after the phase is read, before the decision is acted on. A bar that
  has come (`BarComes`) may be dropped: by the validation, which stands before the force close
  and the exits and spares open positions only one of its tests (`BarDropped`), or because the
  analysis gives nothing (`BarNotAnalysed`). `signals`, `SellFilled`, `SellFails`, `Cleanup` are
  the way to the books, `SaveCycle` and `Restart` the state file, `ForceClose` 15:00. `halving`
  is a history of the PARTIAL_SELL of the holding, `mixed` says whether it met a lifecycle or a
  thread of the holding before it.
* **StrategyEngineProofs** – theorems about StrategyEngine and the operators of ExitEngine.
* **Supervisor** – engines, supervisor and watchdog. `child` is the process a manager
  holds, or how it ended; `strays` are processes that outlived the supervisor that held
  them; `sup` where the supervisor is in its pass, stuck, or told to end.
* **SupervisorProofs** – theorems about it.
* **MC*** – small instances. `.cfg` files are named after the runs.

Operators named as "Mutant" in a comment are plausible bugs of the definition that
follows them; no specification uses them. They are put in its place to see that the
properties notice.

## 3. Runs

| Run | Bounds | Shows |
|---|---|---|
| WALGate | 1 process, 1 ticker, 3 BUYs, 2 crashes, 1 failed write | `GateKept` (implements DedupGate), `RestartKeepsBlock`, `LostIsClosed` |
| WALProcesses | Core and Options, 2 orders of either side, 1 crash | `RecoveredIsClosed` with two recoveries interleaved |
| BrokerExec | either broker, 2 shares, 2 attempts, 3 requests, 1 API failure | `ReportedWasFilled`, `NeverShort`, `BooksAreShares`, `EveryRequestAnswered` |
| Files | the ledger: 2 tickers, 4 lots of 1-2 shares, 2 days, 2 starts; the state file: 4 writes of 2 texts, 3 crashes, 1 failed operation, 1 damage | `SharesConserved`, `OldestFirst`, `RestartKeepsLedger`; `Implements` (of DurableCell), `UnchangedIsHeld` |
| FlowBooks | 1 ticker, 2 orders of 2 shares, 1 fault, 2 starts | `BooksAgree`, `SlotHeld`, `OneOwner` |
| FlowConverges | 1 ticker, 2 orders, 1 stop, 1 overlapping reconciliation | `Converges` |
| EventBus | the bus: 3 event types, 2 tickers, 2 sources of 2 events, lanes of 1 or 2, 1 fault; the queue of a lane: 2 threads, 3 priorities, capacity 2, 4 arrivals | `CriticalKept`, `CriticalDelivered`, `FreshOnly`, `SkippedForCause`, `DrainedUnlessFull`; `HeapsAgree`, `Implements` (of BoundedQueue) |
| OptionsSession | `Session`: 1 ticker, 1 thread each of a scan, a signal and a BAR, 2 entries of one risk, 1 crash or wrong answer, a loss limit of 1. `Gate`: 2 tickers, 2 threads of signals, 3 entries whose spreads risk 1 or 3 of a capital of 4, no BAR, loss, fault or crash | `CapitalCounted`, `StoppedFlat`, `NoScanAfterHalt` |
| OptionsHalts | 1 ticker, 1 thread each, 1 entry, 1 crash, 2 faults | `HaltStops`, `Managed` |
| Supervision | 2 engines, 1 restart, 2 revivals, 4 faults | `StraysForCause`, `GivenUpStaysDown`, `CoreReturns`, `HungIsSeen` |
| Exits | a holding of 3 shares, a price that pays, one that stops every position, an RSI below and one above the limit, 1 failed SELL or restart, lane of 1, every window of 1 bar | `Ratchet`, `HalvedOnce` |
| ExitsSold | the same with 2 shares of a core strategy and one RSI | `SoldWhenDue` |

Files and EventBus explore two small instances each, which share no state, one at a time:
while one moves, the other stands at its start (`FilesSpec`, `BusSpec`). OptionsSession
explores one system within either of two bounds, chosen at the start (`BoundedSpec`), because
both together are out of TLC's reach.

Why the bounds are enough to be interesting: the gate compares one order with the last one
of its key, so three orders give an order before and after a closed one, and two crashes
let a recovery itself be interrupted; a BUY of two shares can fill partly once, before or
after any lookup; three requests let a SELL meet the leftovers of a BUY, and a second SELL
those of the first; four lots give a SELL that spans two BUYs and a later BUY that must
not be touched; in OrderFlow a second order meets the late FILL, ORDER_FAIL or CLOSED of
the first in every queue order, and one fault with one restart puts shares of one ticker
at both brokers, which makes SELLs split. In Exits all five phases are reached, and with
windows of one bar either thread can end a phase the other has just read; three shares can
be halved and still leave two. In ExitsSold two shares can be halved once, and the
position is one that the force close sells. Exits has one holding. Two of them, the second
bought below the stop of the first (`Entries = <<300, 200>>`, `Gain = 100`, no faults; 1.8
million states), were explored too: the first can end by its own target before its
lifecycle does, and leave the lifecycle, a thread or a PARTIAL_SELL to the second; without
the exception for each, TLC finds `Ratchet` and `HalvedOnce` violated, with them it finds
nothing. The session was explored with a crash and a wrong answer together, and the gate
with losses, too (2.6 million states). OrderFlow was also explored with three orders
without faults (2.7 million states). A queue of two entries is full with a phantom of each
heap in it; the lanes of the bus hold one event, so that handlers block on each other; the
BAR lane evicts while two threads number its events; three interrupted writes are one more
than the two backups survive; one ticker lets a scan and a signal race for it, and one BAR
that outlives the bars already meets ticks, the halt and both closings (`Session`); two
tickers with risks of 1 and 3 (`Gate`) let an entry overwrite the other's risk, fail, and
leave the budget to the other ticker; two engines distinguish the critical one, and four
faults let the supervisor give up, be killed and hang on one day.

`CHECK_DEADLOCK FALSE` everywhere: a trading day may end with nothing left to do
(all bounded orders placed and closed), which is not a deadlock of the program.

Fairness: `OrderWAL!FairSpec` is fair to the recovery of each process, a plain
loop in its main thread that waits on nothing. `MCBrokers!FairSpec` is fair to the
broker code and not to the exchange: every poll has a deadline and every API call
a timeout. `OrderFlow!FairSpec` is fair to the workers, each a loop over its queue, to
the reconciliation, which the main loop starts every five minutes, and to the
log's recovery. `EventBus!Fairness` is fair to the sources, to each lane's worker and to the
handlers together, each of which is a thread the system schedules; handlers return, but a
timeout, a cool-down or a shutdown need never come. `OptionsSession!FairSpec` is weakly
fair to the main loop, which the supervisor restarts after a crash, to the threads of signals
and BARs, all of whose calls to the broker have deadlines (the bus stops waiting for them,
and the interpreter waits again at its end), and strongly fair to
the reconciliation among the ticks, which a timer makes due again and again while other
ticks have nothing due. `Supervisor!FairSpec` is fair to the supervisor's pass, which a
stuck supervisor does not take; to the watchdog's two ways of starting a missing
supervisor and its kill of a stuck one, a five-minute cycle that waits on nothing; to a
Core that comes up when it is left alone; and to the ageing of a heartbeat nobody writes.
`StrategyEngine!FairSpec` is weakly fair to the bar thread, since the monitor emits a bar for
every open ticker in each cycle, and to the worker of the SIGNAL lane with the order path
behind it, and strongly fair to a bar that passes the validation and to one that is analysed:
any number of bars in a row may be dropped, but not all from some moment on. Should the feed
repeat one close without volume for the rest of the day, nothing sells the position.
Nothing is assumed of quotes.
The watchdog itself is assumed to run (launchd restarts it). Signals, crashes, fills,
stops, kills and the market's close are never assumed to happen.

## 4. What the runs found

The modules state claims of code or comments that the code does not keep. Each is a
definition with its quotation; adding it as an INVARIANT (or PROPERTY) to the `.cfg` named
makes TLC show the counterexample.

| Claim | Module, cfg | What happens |
|---|---|---|
| `NeverSubmittedIsSafe` (`order_wal.py:26`, `run_core.py:758`) | OrderWAL, WALGate | a crash between the POST and the SUBMITTED line: an order that is live is written off as never submitted |
| `OneBuyInFlight` (`order_wal.py:373`) | OrderWAL, WALGate | the recovery runs after trading has begun and closes an order that is being executed: the gate lets a second BUY in |
| `NoDoubleEntry` (`brokers.py:363`) | BrokerAccount, BrokerExec | an order fills between the check and the cancellation: the retry buys again |
| `DaySurvivesCrash` (`fill_ledger.py:383`) | FillLedger, Files | the exhausted lot of an earlier day is not kept, so that a restart loses today's match |
| `OpenSurvivesRestart` (`fill_ledger.py:400`) | FillLedger, Files | a lot sold in part and kept overnight: the next day's save drops the SELL, and a restart brings the sold shares back |
| `BrokerIsAuthoritative` (`monitor.py:631`, `662`) | OrderFlow, FlowBooks | a ticker both brokers hold and that was saved as Tradier's: only Tradier's shares are counted |
| `ProMarked` (`risk_adapter.py:406`) | OrderFlow, FlowBooks with `MaxOrders = 3`, `MaxFaults = 0`, `MaxStarts = 1` | the CLOSED of a VWAP position unmarks a Pro BUY |
| `Serialised` (`event_bus.py`, subscribe) | EventBus, EventBus | a handler that outlived its timeout runs beside the next one of a single-worker type |
| `SkippedIsThere` (`safe_state.py`, write) | SafeState, Files | a write whose checksum could not be stored, which readers do not get, is skipped as unchanged when it is tried again; so is one whose file was damaged |
| `OneEntry` (`engine.py:1209`, `risk.py:111`) | OptionsSession, OptionsSession | a signal enters beside a scan that holds the reservation: two entries for a ticker |
| `AllCounted` (`risk.py:129`) | OptionsSession, OptionsSession | two claims on a ticker: a release frees one and forgets the other, which is still at risk |
| `OneClose` (`event_bus.py:1597`) | OptionsSession, OptionsSession | a BAR that was given up is closing a spread when the closing of the day begins: both sell it |
| `NothingReserved` (`run_options.py:235`) | OptionsSession, OptionsSession | a scan that had passed the test of the halt reserves its ticker when the halt is on disk |
| `LeftForTheOperator` (`outer_watchdog.py:323`) | Supervisor, Supervision | the healer starts the supervisor that the restart limit of the day left down |
| `RestoredR` (`strategy_engine.py:651`) | StrategyEngine, Exits | a lifecycle made again takes R from the position's stop as it is then: raised to the entry, it makes R zero, and no multiple of R is reached any more |
| `OpenEvaluates` (`strategy_engine.py:337`) | StrategyEngine, Exits | a bar of an open position is dropped by the validation or for want of an analysis |
| `OneProcess` (`supervisor.py`, the supervisor's lock) | Supervisor, Supervision | engines outlive a killed supervisor, and the next one starts them again |

Behaviours that no promise of the code is about are modelled as they are: a Pro BUY that
a gate blocks keeps its ticker and its key for the session (`portfolio_risk.py:440`);
ORDER_FAIL carries no `_routed_broker`, so that only exceptions open a breaker
(`smart_router.py:336`); a split SELL skips a broker that is down without an ORDER_FAIL
(`smart_router.py:175`); the pre-flight registry is never written
(`risk_engine.py:182`); the registry is empty after a start (`run_core.py:75`).
Noted while reading and outside the models: `_current_wal_cid` is shared by all threads of
the options broker (`options/broker.py:166`); `run_options.py:252` asks for an attribute
`positions` the engine does not have, so that bars of tickers outside the configured list
never reach it; `session_watchdog.py:273` takes the market to be closed in the first half
of each hour; positions that come from the event store when the state file is lost carry
the broker 'unknown' (`state.py:241`).

Of the exits: `HalvedOnce` excepts four ways in which a second PARTIAL_SELL is filled (the
two threads evaluate phase 2 together; a restart finds a state from before the first; the
force close asks while the first is under way; one asked for the holding before is still
under way, and halves whatever the books hold when it comes, `risk_engine.py:421`). A
lifecycle goes when the CLOSED event is handled, not when the position does: one of a
holding that is over can put its stop on the next one of the ticker
(`strategy_engine.py:609`), above that one's entry, and the lifecycle made from it then
lowers its trail to the entry. `Ratchet` excepts such a holding (`mixed`). In Core's own
path the order cooldown of five minutes (`risk_engine.py:218`) makes both unlikely; the
models have no clock. After 15:00 exits are no longer evaluated, so that a swing position
keeps only a stop at the broker; a PARTIAL that fails is not tried again, because the
phase has advanced; the stop that goes with a PARTIAL (`exit_engine.py:777`) is never
applied; the VWAP floor of phase 4 is a candidate of a minimum and never changes it; the
confluence count is never passed. `_opened_mono` is saved with the position
(`position_manager.py:327`), although it counts from the boot of the machine.

`close_stale_lots` is modelled as it behaves: the replay it ends with opens again the
lots it has just zeroed.

The exceptions in `BooksAgree`, `SlotHeld`, `OneOwner` and `RestartKeepsLedger` are
behaviours of the code too. They are written down in the properties, not assumed away:
late signals that buy an open ticker again, ORDER_FAILs that release the slot of a newer
order, reconciliations with a stale snapshot or that open a ticker while a BUY of it is
under way (`imported`), starts that could not see what a broker held, starts that add what
a broker holds to a position saved as the other's, in either direction (`merged`:
`_import_position` replaces a quantity only with shares of the same broker).
`RestartKeepsLedger` excepts three: overfilled SELLs at a replay (`oversold`); lots sold
from after their first day (`carried`); and lots sold in part on a day and kept overnight
(`halved`), which is what the force close does with every Pro position of tiers 2 and 3
(`strategy_engine.py:427`): `_persist` keeps an open BUY of an earlier day but no SELL of
one, so that a restart on the next day starts from the whole lot. The `slips` of
BrokerAccount are such exceptions too.

OptionsSession excepts: in `StoppedFlat`, a ticker whose close fails, is skipped or fills
twice in the closing of the day, that has a thread at work on it when the closing begins
(an entry, or a BAR that may be closing it too) or a signal during a closing without a
halt, or on which engine and account differed; in `CapitalCounted`, a ticker on which two
claims have met (an entry with another, with a position, an adoption or a close), until
the process ends; in `NoScanAfterHalt`, the moment between the halt file and the engine's
flag, while the alert is sent, and scans that had passed the test. Each is needed: without
it TLC finds the behaviour. `shutdown` closes what is tracked then: after the kill switch,
which has closed all, that is a position whose close failed or an entry that came late.
This second closing is not modelled, and such tickers are excepted; a reconciliation is
one step once it has fetched the positions.

In OrderFlow a start that saw both brokers mends
what went wrong before it, and `BooksAgree` and `OneOwner` apply again from there;
`SlotHeld` does not, because the registry is reset.

## 5. Proofs

`OrderWALProofs` proves, from `OrderWALAssumption` (the types of the constants) alone:

* **TypeCorrect** – `Spec => []TypeOK`.
* **RestartIsSafe** – `Spec => []RestartKeepsBlock`.
* **GateIsKept** – `Spec => GateKept`: OrderWAL implements DedupGate under the mapping
  that takes the orders neither closed nor abandoned as the open ones.
* **RecoveryIsComplete** – `Spec => []RecoveredIsClosed`.

`TypeOK` is not inductive: that an order has at most two fills under way depends on the
legs its thread has left, and that the gate holds depends on what the file, the index
and a recovery under way say about the same order. The invariant is

    IndInv == TypeOK /\ LegsOK /\ UnbornOK /\ TodoOK /\ ActiveOK /\ OpenOK

`LegsOK` bounds fills plus remaining legs; `UnbornOK` says that an id not yet drawn has
left no trace and that ids are drawn in order; `TodoOK` that a recovery has orders to
resolve only once it has started, and only ones that exist; `ActiveOK` that the index in
memory never holds, for an order that is not closed, a key the file would not hold.
`OpenOK` is the heart. An open BUY is in the file under its key, it is the latest BUY of
Core under that key, and the index (the replay, when none is loaded) holds the key either
with it or with a later order of Options under the same key, which Core's recovery cannot
resolve before it has come to the BUY itself; when no index is loaded, Core's recovery is
still to come or still has the BUY before it. The last part is what a restart needs and
what no single step shows: the block a new process reads back must be there before the
recovery that may lift it.

Each action is a step of the proof with one substep per conjunct it can disturb; a write
is split into the case in which it succeeded and the one in which it failed. `GateIsKept`
then maps CheckAndIntent to `Admit`, a first terminal line or an abandoned recovery to
`Close`, everything else to a stutter. `RecoveryIsComplete` uses a second invariant,
`RecInv == LostOK /\ KeyedOK /\ LeftOK`: a lost order has no FILL under way; while no
write has failed every order has its INTENT line; and a recovery that has started still
has before it whatever its process lost and nothing has closed.

`SupervisorProofs` proves **StraysHaveCause** (`Spec => [](TypeOK /\ StraysForCause)`) and
**GivenUpForGood** (`Spec => GivenUpStaysDown`) for any list of engines and any limits. The
invariant adds `Launchable`: where the supervisor may come to launch an engine, no process
of it runs and it has not been given up. Without it a launch could overwrite a live
process, or start again what halted.

`EventBusProofs` proves **CriticalNeverLost** (`Spec => []CriticalKept`) and **NeverBack**
(`Spec => FreshOnly`), for any event types, tickers, handlers, scripts, capacities and
numbers of workers. `BusAssumption` gives the types of the configuration and one fact of
`_DEFAULT_ASYNC_CONFIG` both results need: the coalesced types (BAR, QUOTE) are DROP_OLDEST
types, so that no version is ever compared for an event of the order path. The invariant
`Structure` says what threads, lanes and workers hold; in particular that the items of a
lane belong to it, hence are of one type, and that only threads at an event of a DROP_OLDEST
type have found their lane full. So an eviction, and an item dropped as stale, are never of
a BLOCK type. `Numbered` is the invariant behind `FreshOnly`: the versions of a stream that
threads, lanes and deliveries hold are pairwise different and none is above the latest. An
item that is delivered has the latest version, so those delivered before it have smaller
ones; that they were numbered under `_cv_lock` is what makes the versions different, and the
order in which they reach the lane does not matter.

`OptionsSessionProofs` proves **HaltedReservesNothing** (`Spec => NoScanAfterHalt`),
**EndsFlat** (`Spec => []StoppedFlat`), **CapitalIsCounted** (`Spec => []CapitalCounted`) and
**TypeCorrect**, from `OptionsAssumption`: finitely many tickers and threads, risks that are
positive numbers, bounds that are natural ones. A step of a thread is described once by
`Touches`: it changes the books of its own ticker, its own call, and the gate only for that
ticker.

The first theorem needs `HaltAhead`: while a halt is on disk and not in memory, the main loop
is between the two, or in a new process that has no BAR thread yet. `OnlyPassedReserve` says
that only a scan past its test reserves, and that only a test without the flag lets one pass;
so it does not matter how long an abandoned BAR lives.

The second needs `ClosingInv`: while the closing is under way, every ticker that is not
excused is on its way (`OnItsWay`). Its position is waiting for its turn, being sold with
the units that engine and account agree on, sold, or gone (`Left`), and nobody else is at
work on it but an entry that will find the engine halted (`Alone`). A BAR thread that the
closing did not find on the ticker cannot come to it, because no BAR comes once the
closing has begun; one that it did find makes the ticker excused. `Placed` says where the
loop of an ended process is.

`CapitalCounted` alone is not inductive, because a release frees what was acquired last.
`RiskFits` says that the risks of all tickers, as the gate has them, are within the
deployed capital: an acquisition that overwrites adds more than it needs to, and a release
takes off no more than it forgets, so that this needs no exception. `Claims` says that a
ticker on which no two claims have met has one claim at most, an order under way or a
position, and that the gate's risk of it is that claim's (`OneClaim`); hence what can be
lost on it is what the gate holds (`ClaimIsRisk`). `SavedFits` and `Empty` say the same of
what a crash leaves and a start restores. The capital is a sum over a set, computed by the
fold `MapThenSumSet`. The section on sums counts it instead: `Total(f, S)` is the number
of pairs of an element and a unit that `f` gives it, so that its laws are facts about
finite sets, and `SumIsTotal` says that the fold computes it. No induction principle with
an operator parameter is needed for that: if two ways to unfold the sum differed on some
subset, they would differ on a smallest one (`FS_StrictSubsetOrderingWellFounded`), and
agree on what is left of it without one element.

`SafeStateProofs` proves **FileIsDurable** (`Spec => Implements`), **VersionsTellApart**
(`Spec => []UnchangedIsHeld`) and **TypeCorrect**, for any processes, texts and bounds.
The invariant `FileInv` says where the last completed write is found (`Where`): in the
primary copy, in the first backup behind a broken primary, in the second behind two broken
copies once two writes were cut, or nowhere once three were. A copy in front of it is
`Broken`: its data are another write's or torn, and its checksum is not theirs, so that no
reader takes it. Each of the four copies of the rotation, the replacement and the sidecar
keeps it whether it succeeds, fails or is cut. `VersionInv` says that the writes which
some copy or the polling reader still holds have versions in the order they were written,
with the newest in the primary copy, and that the write under way has a higher one.

The same module proves of FillLedger **NoShareLost** (`LedgerSpec => []SharesConserved`),
**FirstInFirstOut** (`LedgerSpec => []OldestFirst`) and **LedgerTypes**
(`LedgerSpec => []LedgerTyped`), for any tickers and any bounds on lots, sizes, days and starts;
`FillLedgerAssumption` only says that the bounds are positive. The invariant `LedgerInv` says
that the ids of the lots, and of those in the file, grow and have all been given out
(`Ordered`, `Below`); that what is left of each lot and what it has given are its original
quantity, nothing for an id that is not there, with no lot touched before an older one of its
ticker is exhausted (`Balanced`); and that shares are taken only by SELLs, within their size
(`Sold`). `MatchSellTakes` is the lemma on one SELL, `ReplayBalanced` that on a replay, which
establishes `Balanced` from the lots alone: so a start from whatever was saved, and a sweep that
replays everything, keep the invariant for the same reason as a fill. The file's lots need no
more than their order, whatever the filter keeps.

`MatchSell`, `Replay` and the sums are folds, and no installed prover does induction over
them. The first part of the section replaces it: `Unrolls` says that a function on the
subsets of a sequence's domain computes the fold; two such functions agree, since a
smallest subset where they differ would have a smaller one (`UnrollsAlike`), and one
exists, built the same way (`UnrollsExist`). So a fold is the last of a sequence of turns
(`MatchSellTurns`, `ReplayTurns`), and what each turn keeps holds at the end (`UpTo`).
FillLedger folds over the lots themselves and lets a turn pass over those that are not
open, rather than select them first, because the provers cannot expand `SelectSeq`.

`BrokersProofs` proves, for either broker and any number of shares, attempts, requests and
failing calls, **ReportedFills** (`ReportedWasFilled`), **NeverSoldShort** (`NeverShort`),
**BooksHoldTheAccount** (`BooksAreShares`) and **TypeCorrect**. The invariant has four parts:

* `RequestInv` – what the worker knows of its order at each of its steps: an order it polls
  is of its side and quantity, and what it has read of it was filled.
* `CoverInv` – while no call fails, what the account holds covers its stop, what a BUY has
  filled without a stop, and the one live SELL (`Covered`), and the orders are as calm as
  the code believes them to be (`Calm`). Hence the account is never short: a SELL is sent
  only after the stop and the SELL before it are over.
* `BooksInv` – while besides nothing has slipped, the account is the books and the order
  under way.
* `OwedInv` – however many calls fail, the account exceeds the books by at most one order
  per failed call, counting what live BUYs that nobody waits for may still buy (`Loose`) and
  the order at risk (`Unsure`). A failing call is paid for when it fails, so that the late
  fill it may lead to is paid for when it comes.

`OrderFlowProofs` proves all the safety of OrderFlow, from `OrderFlowAssumption` (positive
limits, natural bounds, finitely many tickers, so that the phantoms of a reconciliation can
be queued):

* **TypeCorrect** – `TypeOK` is inductive; it is the conjunction of one part per group of
  variables (`HoldTyped` to `WalTyped`), and each action has a step per part it changes.
* **SlotsAreHeld** (`SlotHeld`) – a position is opened by a FILL, so the slot must be there
  before it: `SlotInv` says that every BUY past the gate, in execution or in a FILL, has the
  slot of its ticker for its layer.
* **OneBuyAtATime** (`OneOwner`) – `CarriedInv`: the log holds the id of every BUY in the
  request queue, in execution or in a FILL; there is one at most per ticker, and the ticker
  is not open. So `Place`, which the log lets through only when it holds nothing for the
  ticker, keeps it, and so does the FILL that opens the ticker and gives the id back.
* **BooksAreTrue** (`BooksAgree`) – while FILLs wait, the books lag behind the brokers.
  `BooksInv` says by what: there is a history `h` of what was held before each FILL of the
  queue, which the FILLs' effects lead through and which ends with what is held. The books
  have `h[0]`, or less if `h` is zero somewhere, which is when a "no position" answer has
  closed them or a SELL's FILL was clamped. With an empty queue `h[0]` is what is held.

`EventBusProofs` proves besides **SkipsHaveCause** (`SkippedForCause`), **StopDrains**
(`DrainedUnlessFull`) and **TypeCorrect** (`TypeOK`). All three rest on `OnceOK`: a handler is
called for an event once, because an event's emission has one place in its thread, waits once
and is delivered once, and a delivery calls its handlers in order. So each failure is a dead
letter of its own, and a breaker's count never exceeds the dead letters about its ticker
(`BreakerOK`). `StopOK` says that only a lane whose dispatcher shutdown has come to has a
sentinel or a flag, and `Emptied` that a worker ended without its flag has left nothing of
what its lane then held. `BusAssumption` says for this that a handler is subscribed once to a
type, as every component of the code does in its constructor, and that shutdown stops a
dispatcher once (`_dispatchers` is a dict).

Of the queue of a lane, the same module proves **BooksKept** (`HeapsSpec => [](HeapsTyped
/\ HeapsAgree)`) and **HeapsAreAQueue** (`HeapsSpec => Implements`), for any capacity,
priorities and number of threads. The books need no strengthening but that both heaps are
finite. What is shared by the heaps is what waits; a phantom is what one heap alone holds,
and `invalid` has exactly its number. A take or an eviction removes from its heap the
phantoms before the entry and the entry itself (`LeaveOne`), which leaves one new phantom
in the other; so the most urgent entry that is not a phantom is the most urgent of what
waits, and the step is one of BoundedQueue.

`StrategyEngineProofs` proves **HalvesOnce** (`Spec => []HalvedOnce`), **OnlyRatchets**
(`Spec => Ratchet`) and **TypeCorrect** (`Spec => []TypeOK`), for any exit profile, prices,
number of holdings and lane, and any number of crashes and failed SELLs. `ExitAssumption` and
`StrategyAssumption` give the types of the constants. The first part of the module says what
each phase does to a lifecycle whatever the profile (`Moves`): the phase stays or becomes the
next one, only phase 1 sets a trail rather than raise it, and then to the entry, only phase 2
asks for a PARTIAL_SELL, and then leaves for phase 3. The invariant says besides the types:

* `Referred` – the heaps hold the objects that the books, the registry or a thread refer to,
  and no others; so three of each are enough, and no object is used again while a thread holds
  it.
* `Phased` – a lifecycle leaves its first two phases for good. Of the two threads only that of
  the bars moves it out of the validation, and phase 1 ends in phase 2 whoever ends it: a
  stale phase can take a lifecycle back to 2 or 3, never to 1.
* `OneHolding` – unless the holding met what the one before had left, every position, saved
  position, lifecycle and decision under way is of its entry, and before phase 2 no trail is
  above the entry. That is what phase 1 needs to set the trail to the entry and not lower it.
* `Asking` – of the PARTIAL_SELLs in the lane and the decisions about to be acted on, there is
  none before the first is asked for and after it is filled, and one in between.
* `Harvesting` – once it is asked for, the registered lifecycle has left phase 2, also after a
  restart from what was saved.

The proof showed that the two properties, as the Exits run alone had them, were not
invariants: with a second holding `OneHolding` and `Asking` fail in the step that opens
it. TLC then found the behaviours section 4 describes; the exceptions `mixed` and the
fourth of `HalvedOnce` come from there.

Only model-checked: liveness (`LostIsClosed`, `EveryRequestAnswered`, `Converges`,
`CriticalDelivered`, `HaltStops`, `Managed`, `CoreReturns`, `HungIsSeen`, `SoldWhenDue`),
which TLAPS does not reach under fairness; and `RestartKeepsLedger` of FillLedger, which
compares the matches made live, each SELL against the lots of its moment, with those that
a replay of the kept lots makes in a ledger that already has the later ones: an induction
over two histories at once, which the invariant of one of them does not give.

## 6. Not modelled, and why

Entry signals, indicators, greeks, sizing formulas (real-number computations; where they
decide, the models allow both outcomes; of the exits, the trade scorer, which only logs,
half days, and the fallback after an exception in a phase); feeds, screeners, databases,
dashboards and alerts (I/O that changes no order); PaperBroker and the Alpaca fill stream
(not part of live order handling); the WAL's change of day at midnight; clocks (any TTL,
cooldown or period may have passed between two steps). Of the event bus, the SYNC mode,
the policies DROP_NEWEST (only RISK_BLOCK, which is informational) and RAISE (no type),
retry policies and the idempotency window; of the state files, freshness and content; of
the options process, which spread or exit a strategy picks; of the watchdogs, preflight,
crash analysis, hotfixes and the health checks that only report. In AlpacaBroker a late
fill of an abandoned order arrives at any time; in OrderFlow such shares arrive when the
broker gives up.

## 7. Coverage of the source by module

OrderWAL: `monitor/order_wal.py`, the WAL calls of `brokers.py`, `tradier_broker.py`,
`options/broker.py`, `position_manager.py`, both recoveries. BrokerAccount, AlpacaBroker:
`brokers.py` lines 58-101 and 159-699. TradierBroker: `tradier_broker.py`. OrderFlow:
`risk_engine.py`, `risk_adapter.py`, `registry_gate.py`, `distributed_registry.py`,
`smart_router.py`, `position_manager.py`, `_sync_broker_positions` and `_live_reconcile`
of `monitor.py`. FillLedger: `fill_ledger.py`, `lot_matcher.py`, `fill_lot.py`.
DualHeapQueue, EventBus: `event_bus.py`. SafeState: `safe_state.py`. OptionsSession:
`options/engine.py`, `options/risk.py`, `options/broker.py`, `lifecycle/` with its options
adapter, `run_options.py`. ExitEngine, StrategyEngine: `exit_engine.py`, the exits of
`strategy_engine.py`, and what they meet in `risk_engine.py`, `position_manager.py`,
`state.py`. Supervisor: `supervisor.py`, and the restarting and killing parts of
`outer_watchdog.py` and `session_watchdog.py`.

## 8. Plan

In this order, most important first:

1. *Done*: DedupGate, OrderWAL and its proofs, the two brokers on one account, FillLedger,
   OrderFlow; DualHeapQueue with its refinement and proofs, EventBus, OptionsSession and
   Supervisor with their proofs; SafeState with DurableCell; ExitEngine and StrategyEngine;
   the proofs about the brokers, OrderFlow, SafeState, FillLedger and the exits, and of the
   options process's capital.
2. **PortfolioRisk** and Core's kill switch: exposure limits with orders pending (two
   tickers of OrderFlow).
3. **BarBuilder**.
4. Proofs: of FillLedger, `RestartKeepsLedger`, with an invariant that relates each SELL's
   matches to the lots before and after it.
