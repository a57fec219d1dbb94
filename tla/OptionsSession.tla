--------------------------- MODULE OptionsSession ---------------------------
(***************************************************************************)
(* The options process on one trading day: OptionsEngine (options/engine.py) *)
(* with its risk gate (options/risk.py) and broker (options/broker.py), under *)
(* the lifecycle that saves its state, reconciles it with the broker and      *)
(* halts it on a daily loss (lifecycle/, scripts/run_options.py).             *)
(*                                                                           *)
(* The main loop ticks and hands out BARs; each BAR, and each signal of       *)
(* another process, is handled in a thread of its own that the bus gives up   *)
(* after 45 s and that goes on (monitor/event_bus.py); a bar scan starts an   *)
(* execution thread.  An entry and a close stop at every point where they     *)
(* wait for something, so that the others act in between.                     *)
(*                                                                           *)
(* A spread is a unit of a ticker.  What strategies, quotes, Greeks,          *)
(* cooldowns and loss lockouts decide is a choice; WAL lines are modelled in  *)
(* OrderWAL.                                                                  *)
(***************************************************************************)
EXTENDS Integers, FiniteSets, FiniteSetsExt

CONSTANTS
    Tickers,
    Execs,              \* execution threads
    Ipcs,               \* threads with a signal of the IPC consumer
    Bars,               \* threads with a BAR
    Loop,               \* the main loop, when it closes
    Risks,              \* what a spread can risk, in units of capital
    MaxPositions,       \* options_max_positions
    TradeBudget,        \* trade_budget
    Budget,             \* total_budget
    LossLimit,          \* losing closes that reach max_daily_loss
    MaxEntries,         \* bound on entries begun
    MaxCrashes,         \* bound on process deaths
    MaxFaults           \* bound on broker calls that fail or answer wrongly

Entrants == Execs \cup Ipcs
Closers == Bars \cup {Loop}
Threads == Entrants \cup Closers

ASSUME OptionsAssumption ==
    /\ IsFiniteSet(Tickers) /\ IsFiniteSet(Threads)
    /\ Execs \cap Ipcs = {} /\ Entrants \cap Closers = {} /\ Loop \notin Bars
    /\ Risks \subseteq Nat \ {0}
    /\ {MaxPositions, TradeBudget, Budget, LossLimit, MaxEntries, MaxCrashes, MaxFaults}
         \subseteq Nat
    /\ LossLimit > 0

NoCall == [at |-> "idle"]
NoState == [losses |-> -1]

VARIABLES
    mode,               \* the process: down, starting, running, stopped for the day
    main,               \* the main loop's place, and the tickers left to close
    seen,               \* what the reconciler fetched from the broker
    call,               \* the entry or the close that each thread is executing
    tracked,            \* _positions: units of the position's legs, 0 for none
    stake,              \* max_risk of the position
    risk,               \* gate._open_positions: capital per ticker, 0 for none
    deployed,           \* gate._deployed_capital
    pending,            \* gate._pending_tickers
    losses,             \* the part of _daily_pnl that counts here
    halted,             \* engine._halted
    account,            \* units at the broker
    saved,              \* options_state.json
    haltFile,           \* options_kill_switch.json says halted today
    entries, crashes, faults,
    excused,            \* history: tickers the last closing could not flatten
    crossed             \* history: tickers whose entry met another claim of theirs

gate == <<risk, deployed, pending>>
positions == <<tracked, stake>>
engine == <<positions, losses, halted>>
files == <<saved, haltFile>>
counts == <<entries, crashes, faults>>
history == <<excused, crossed>>
vars == <<mode, main, seen, call, gate, engine, account, files, counts, history>>
------------------------------------------------------------------------------
(* The risk gate                                                             *)

Open == {t \in Tickers : risk[t] > 0}
Tracked == {t \in Tickers : tracked[t] # 0}

\* check(..., skip_pending=True); whatever else it rejects is a choice.
MayEnter(t, r) == /\ t \notin Open
                  /\ Cardinality(Open) < MaxPositions
                  /\ r <= TradeBudget /\ r <= Budget - deployed

\* reserve(): only the bar scan asks for it.
MayReserve(t) == /\ t \notin Open \cup pending
                 /\ Cardinality(Open) + Cardinality(pending) < MaxPositions

(* Mutant: the cost of a credit spread, a negative one, is acquired.         *)
AcquireCost(t, r) == /\ risk' = [risk EXCEPT ![t] = -r]
                     /\ deployed' = deployed - r
                     /\ pending' = pending \ {t}

\* acquire() does not look whether t is open already: it overwrites.
Acquire(t, r) == /\ risk' = [risk EXCEPT ![t] = r]
                 /\ deployed' = deployed + r
                 /\ pending' = pending \ {t}

SumOf(f, S) == MapThenSumSet(LAMBDA t : f[t], S)

(* Mutant: a release frees a whole trade budget.                             *)
FreedBudget(capital, S) ==
    LET left == capital - TradeBudget * Cardinality(S) IN IF left < 0 THEN 0 ELSE left

\* What release() leaves of capital when it drops the tickers of S.
Freed(capital, S) == LET left == capital - SumOf(risk, S) IN IF left < 0 THEN 0 ELSE left

Release(t) == /\ risk' = [risk EXCEPT ![t] = 0]
              /\ deployed' = Freed(deployed, {t})

Unreserve(t) == pending' = pending \ {t}
------------------------------------------------------------------------------
(* The broker                                                                *)

Fault == faults < MaxFaults /\ faults' = faults + 1

\* _execute_single_leg and _execute_multi_leg, for an entry and for the reversed
\* legs of a close: done or not, and how many times over at the exchange.  An
\* order that fills between its last poll and its cancellation is sent again, or
\* reported as not filled.
Executed(t, ok, times, units) ==
    /\ \/ times = (IF ok THEN 1 ELSE 0) /\ UNCHANGED faults
       \/ times = (IF ok THEN 2 ELSE 1) /\ Fault
    /\ account' = [account EXCEPT ![t] = @ + times * units]

Init ==
    /\ mode = "down" /\ main = [at |-> "sync", todo |-> {}] /\ seen = {}
    /\ call = [x \in Threads |-> NoCall]
    /\ tracked = [t \in Tickers |-> 0] /\ stake = [t \in Tickers |-> 0]
    /\ risk = [t \in Tickers |-> 0] /\ deployed = 0 /\ pending = {}
    /\ losses = 0 /\ halted = FALSE
    /\ account = [t \in Tickers |-> 0]
    /\ saved = NoState /\ haltFile = FALSE
    /\ entries = 0 /\ crashes = 0 /\ faults = 0 /\ excused = {} /\ crossed = {}
------------------------------------------------------------------------------
(* Entries: _execute_entry, step by step                                     *)

Alive == mode = "running"
WorksOn(x, t) == call[x] # NoCall /\ call[x].ticker = t
Goto(x, at) == call' = [call EXCEPT ![x].at = at]
Ends(x) == call' = [call EXCEPT ![x] = NoCall]
GiveUp(x) == Unreserve(call[x].ticker) /\ Ends(x)

\* The entries of t that have acquired their risk and are not tracked yet.
InFlight(t) == {x \in Entrants : call[x].at \in {"send", "track"} /\ call[x].ticker = t}

Begins(x, t) ==
    /\ call[x] = NoCall /\ entries < MaxEntries
    /\ entries' = entries + 1
    /\ call' = [call EXCEPT ![x] = [at |-> "enter", ticker |-> t, risk |-> 0]]

\* A signal of another process, until consumer.stop(); _on_pop_signal does not look
\* at the halt.
Signal(x, t) ==
    /\ Alive /\ main.at # "over" /\ Begins(x, t)
    /\ excused' = IF main.at = "close" /\ ~halted THEN excused \cup {t} ELSE excused
    /\ UNCHANGED <<mode, main, seen, gate, engine, account, files, crashes, faults, crossed>>

\* A step without effect but on the thread and its reservation.
KeepRest == UNCHANGED <<mode, main, seen, risk, deployed, engine, account, files,
                       counts, history>>

\* Steps 1 and 2: the halt is looked at here only.  The chain may have no spread.
Enter(x) ==
    /\ Alive /\ call[x].at = "enter"
    /\ \/ /\ ~halted /\ MayEnter(call[x].ticker, TradeBudget)
          /\ Goto(x, "build") /\ UNCHANGED pending
       \/ GiveUp(x)
    /\ KeepRest

\* Step 3, with the risk of the spread that the chain offers.
Build(x) ==
    /\ Alive /\ call[x].at = "build"
    /\ \/ \E r \in Risks :
            /\ MayEnter(call[x].ticker, r)
            /\ call' = [call EXCEPT ![x].at = "acquire", ![x].risk = r]
            /\ UNCHANGED pending
       \/ GiveUp(x)
    /\ KeepRest

\* Steps 4 and 5.
AcquireRisk(x) ==
    LET t == call[x].ticker IN
    /\ Alive /\ call[x].at = "acquire"
    /\ Acquire(t, call[x].risk) /\ Goto(x, "send")
    /\ crossed' = IF tracked[t] # 0 \/ InFlight(t) # {} THEN crossed \cup {t} ELSE crossed
    /\ UNCHANGED <<mode, main, seen, engine, account, files, counts, excused>>

\* Step 6.
Execute(x) ==
    /\ Alive /\ call[x].at = "send"
    /\ \E ok \in BOOLEAN, times \in 0..2 :
         /\ Executed(call[x].ticker, ok, times, 1)
         /\ IF ok THEN Goto(x, "track") /\ UNCHANGED gate
                  ELSE Release(call[x].ticker) /\ GiveUp(x)
    /\ UNCHANGED <<mode, main, seen, engine, files, entries, crashes, history>>

\* Step 7: the position is tracked, or its lifecycle cannot be made and it is
\* closed again, whatever the broker answers.
Track(x) ==
    LET t == call[x].ticker IN
    /\ Alive /\ call[x].at = "track"
    /\ \/ /\ tracked' = [tracked EXCEPT ![t] = 1]
          /\ stake' = [stake EXCEPT ![t] = call[x].risk]
          /\ Ends(x) /\ UNCHANGED <<gate, account, faults>>
       \/ /\ \E ok \in BOOLEAN, times \in 0..2 : Executed(t, ok, times, -1)
          /\ Release(t) /\ GiveUp(x) /\ UNCHANGED positions
    /\ UNCHANGED <<mode, main, seen, losses, halted, files, entries, crashes, history>>
------------------------------------------------------------------------------
(* BARs and closes                                                           *)

At(place) == mode \in {"starting", "running"} /\ main.at = place
MainTo(place) == main' = [at |-> place, todo |-> {}]
Closes(x, at, t) ==
    call' = [call EXCEPT ![x] = [at |-> at, ticker |-> t, units |-> tracked[t]]]

\* After a close a BAR goes on with its scan, the main loop with the next ticker.
Closed(x) ==
    call' = [call EXCEPT ![x] = IF x = Loop THEN NoCall
                                ELSE [at |-> "test", ticker |-> call[x].ticker, units |-> 0]]

\* A BAR of t: _monitor_positions takes the position of t, if it has one to look at.
BarComes(h, t) ==
    /\ At("bars") /\ call[h] = NoCall
    /\ \/ tracked[t] # 0 /\ Closes(h, "decide", t)
       \/ call' = [call EXCEPT ![h] = [at |-> "test", ticker |-> t, units |-> 0]]
    /\ UNCHANGED <<mode, main, seen, gate, engine, account, files, counts, history>>

\* It has been evaluated: hold, or exit if the ticker still has a position.
Decide(h) ==
    /\ Alive /\ call[h].at = "decide"
    /\ \/ tracked[call[h].ticker] # 0 /\ Goto(h, "exit")
       \/ Closed(h)
    /\ UNCHANGED <<mode, main, seen, gate, engine, account, files, counts, history>>

\* _close_position to the broker's answer: done, skipped because the spread is
\* nearly worthless, or failed.  What the closing of the day does not flatten is
\* excused.
Sell(x) ==
    LET t == call[x].ticker
        units == call[x].units
    IN /\ Alive /\ call[x].at = "exit"
       /\ \E flat \in BOOLEAN :
            /\ \/ \E times \in 1..2 : /\ Executed(t, TRUE, times, -units) /\ Goto(x, "sold")
                                      /\ flat = (times = 1)
               \/ Goto(x, "lost") /\ ~flat /\ UNCHANGED <<account, faults>>
               \/ \E times \in 0..1 : Executed(t, FALSE, times, -units) /\ Closed(x) /\ ~flat
            /\ excused' = IF x = Loop /\ ~flat THEN excused \cup {t} ELSE excused
       /\ UNCHANGED <<mode, main, seen, gate, engine, files, entries, crashes, crossed>>

\* The rest of _close_position: whatever is tracked for the ticker by now goes.
Book(x) ==
    LET t == call[x].ticker IN
    /\ Alive /\ call[x].at \in {"sold", "lost"}
    /\ losses' \in (IF call[x].at = "lost" THEN {losses + 1} ELSE {losses, losses + 1})
    /\ Release(t) /\ UNCHANGED pending
    /\ tracked' = [tracked EXCEPT ![t] = 0] /\ stake' = [stake EXCEPT ![t] = 0]
    /\ Closed(x)
    /\ crossed' = IF InFlight(t) # {} THEN crossed \cup {t} ELSE crossed
    /\ UNCHANGED <<mode, main, seen, halted, account, files, counts, excused>>

\* The halt, the cutoff at 15:45, and whether a strategy wants to enter.
Test(h) ==
    /\ Alive /\ call[h].at = "test"
    /\ \/ ~halted /\ Goto(h, "reserve")
       \/ Ends(h)
    /\ UNCHANGED <<mode, main, seen, gate, engine, account, files, counts, history>>

\* The scan reserves the ticker and starts thread x, or gives up.
Reserve(h) ==
    /\ Alive /\ call[h].at = "reserve"
    /\ \/ \E x \in Execs :
            /\ MayReserve(call[h].ticker) /\ pending' = pending \cup {call[h].ticker}
            /\ call[x] = NoCall /\ entries < MaxEntries /\ entries' = entries + 1
            /\ call' = [call EXCEPT ![h] = NoCall,
                                    ![x] = [at |-> "enter", ticker |-> call[h].ticker,
                                            risk |-> 0]]
       \/ Ends(h) /\ UNCHANGED <<pending, entries>>
    /\ UNCHANGED <<mode, main, seen, risk, deployed, engine, account, files, crashes,
                   faults, history>>
------------------------------------------------------------------------------
(* The main loop                                                             *)

Save == saved' = [losses |-> losses', risk |-> risk', deployed |-> deployed']

\* The batch of BARs is over, and the loop has slept.  A BAR that took more than
\* 45 s was given up: its thread is still at work.
BarsDone ==
    /\ At("bars") /\ MainTo("tick")
    /\ UNCHANGED <<mode, seen, call, gate, engine, account, files, counts, history>>

(* Mutant: the halt of an earlier process is not read.                       *)
KillSwitchForgets == losses >= LossLimit

\* SatelliteKillSwitch.check, from memory, from its file, or from the P&L.
KillSwitch == haltFile \/ losses >= LossLimit

\* What an order under way or a difference with the broker may leave.
NotCloseable == {t \in Tickers : account[t] # tracked[t] \/ \E x \in Threads : WorksOn(x, t)}

(* Mutant: a process that finds itself halted does not close again.          *)
BeginClosingUnlessHalted ==
    /\ main' = [at |-> "close", todo |-> IF haltFile THEN {} ELSE Tracked]
    /\ excused' = NotCloseable

\* close_all_positions takes the tickers it has.
BeginClosing ==
    /\ main' = [at |-> "close", todo |-> Tracked]
    /\ excused' = NotCloseable

\* tick: the kill switch persists the halt, and sends its alert, ...
TickHalts ==
    /\ At("tick") /\ KillSwitch
    /\ haltFile' = TRUE /\ MainTo("halt")
    /\ UNCHANGED <<mode, seen, call, gate, engine, account, saved, counts, history>>

\* ... and only then the engine is halted and closed.
Halt ==
    /\ At("halt") /\ halted' = TRUE /\ BeginClosing
    /\ UNCHANGED <<mode, seen, call, gate, positions, losses, account, files, counts,
                   crossed>>

\* get_broker_positions: what it cannot fetch it answers with {}.
Fetched == \/ seen' = {t \in Tickers : account[t] # 0} /\ UNCHANGED faults
           \/ seen' = {} /\ Fault

\* tick: it is five minutes since the last reconciliation.
TickFetches ==
    /\ At("tick") /\ ~KillSwitch /\ Fetched /\ MainTo("sync")
    /\ UNCHANGED <<mode, call, gate, engine, account, files, entries, crashes, history>>

(* Mutant: orphans are adopted at startup only.                              *)
AdoptableAtStart == {t \in seen \ Tracked : account[t] # 0 /\ mode = "starting"}

\* The orphans; each is rebuilt from a second look at the broker.
Adoptable == {t \in seen \ Tracked : account[t] # 0}

(* Mutant: the first BARs go out before the first tick.                      *)
ResumedWithBars == "bars"

\* The main loop begins with a tick; a reconciliation is part of one.
Resumed == IF mode = "starting" THEN "tick" ELSE "bars"

\* The gate after add_position, with an acquire, and remove_position, with a release.
Adopted(amount, stale) ==
    /\ risk' = [t \in Tickers |-> IF t \in DOMAIN amount THEN amount[t]
                                   ELSE IF t \in stale THEN 0 ELSE risk[t]]
    /\ deployed' = Freed(deployed + SumOf(amount, DOMAIN amount), stale)
    /\ pending' = pending \ DOMAIN amount

\* _reconcile and, after it, the save of startup or of tick.  The risk of an
\* orphan is estimated from its legs.
Reconcile ==
    LET stale == Tracked \ seen IN
    /\ At("sync")
    /\ \E adopted \in SUBSET Adoptable : \E amount \in [adopted -> Risks] :
         /\ IF adopted = Adoptable THEN UNCHANGED faults ELSE Fault
         /\ tracked' = [t \in Tickers |-> IF t \in adopted THEN account[t]
                                           ELSE IF t \in stale THEN 0 ELSE tracked[t]]
         /\ stake' = [t \in Tickers |-> IF t \in adopted THEN amount[t]
                                         ELSE IF t \in stale THEN 0 ELSE stake[t]]
         /\ Adopted(amount, stale)
         /\ crossed' = crossed \cup {t \in adopted : InFlight(t) # {}}
    /\ UNCHANGED losses /\ Save
    /\ seen' = {} /\ mode' = "running" /\ MainTo(Resumed)
    /\ UNCHANGED <<call, halted, account, haltFile, entries, crashes, excused>>

\* tick: nothing is due but the save.
TickSaves ==
    /\ At("tick") /\ ~KillSwitch /\ MainTo("bars")
    /\ UNCHANGED <<gate, engine>> /\ Save
    /\ UNCHANGED <<mode, seen, call, account, haltFile, counts, history>>

\* Four o'clock: shutdown saves, then closes; nothing halts the engine.
EndOfDay ==
    /\ At("tick") /\ UNCHANGED <<gate, engine>> /\ Save /\ BeginClosing
    /\ UNCHANGED <<mode, seen, call, account, haltFile, counts, crossed>>

\* close_all_positions, one ticker after the other.
CloseNext(t) ==
    /\ At("close") /\ t \in main.todo /\ call[Loop] = NoCall
    /\ main' = [main EXCEPT !.todo = @ \ {t}]
    /\ IF tracked[t] # 0 THEN Closes(Loop, "exit", t) ELSE UNCHANGED call
    /\ UNCHANGED <<mode, seen, gate, engine, account, files, counts, history>>

\* The last save, and the end of main(): with exit code 3, or after the close of
\* the market.  The supervisor starts it again in neither case.
Stop ==
    /\ At("close") /\ main.todo = {} /\ call[Loop] = NoCall
    /\ UNCHANGED <<gate, engine>> /\ Save /\ MainTo("over")
    /\ UNCHANGED <<mode, seen, call, account, haltFile, counts, history>>

\* The interpreter waits for the threads of the bus; execution threads are daemons.
Ended ==
    /\ At("over") /\ \A x \in Bars \cup Ipcs : call[x] = NoCall
    /\ mode' = "stopped" /\ call' = [x \in Threads |-> NoCall]
    /\ UNCHANGED <<main, seen, gate, engine, account, files, counts, history>>

Crash ==
    /\ mode \in {"starting", "running"} /\ crashes < MaxCrashes
    /\ crashes' = crashes + 1 /\ mode' = "down"
    /\ call' = [x \in Threads |-> NoCall]
    /\ MainTo("sync") /\ seen' = {}
    /\ tracked' = [t \in Tickers |-> 0] /\ stake' = [t \in Tickers |-> 0]
    /\ risk' = [t \in Tickers |-> 0] /\ deployed' = 0 /\ pending' = {}
    /\ losses' = 0 /\ halted' = FALSE /\ crossed' = {}
    /\ UNCHANGED <<account, files, entries, faults, excused>>

\* startup: restore_state, which leaves the positions to the reconciler.
Start ==
    /\ mode = "down" /\ mode' = "starting"
    /\ IF saved = NoState THEN UNCHANGED <<losses, risk, deployed>>
       ELSE losses' = saved.losses /\ risk' = saved.risk /\ deployed' = saved.deployed
    /\ Fetched
    /\ UNCHANGED <<main, call, pending, positions, halted, account, files, entries,
                   crashes, history>>

Entry(x) == Enter(x) \/ Build(x) \/ AcquireRisk(x) \/ Execute(x) \/ Track(x)
Closing(x) == Sell(x) \/ Book(x)
Bar(h) == Decide(h) \/ Closing(h) \/ Test(h) \/ Reserve(h)
Tick == TickHalts \/ TickFetches \/ TickSaves
CloseAll == Closing(Loop) \/ Stop \/ Ended \/ \E t \in Tickers : CloseNext(t)

Next ==
    \/ \E t \in Tickers : \/ \E x \in Ipcs : Signal(x, t)
                          \/ \E h \in Bars : BarComes(h, t)
    \/ \E x \in Entrants : Entry(x)
    \/ \E h \in Bars : Bar(h)
    \/ BarsDone \/ Tick \/ Halt \/ Reconcile \/ EndOfDay \/ CloseAll
    \/ Start \/ Crash

Spec == Init /\ [][Next]_vars

\* The loop goes round, also in a new process once the supervisor has restarted
\* it; every call to the broker that a thread of the bus makes has a deadline; and
\* a reconciliation comes due again and again.  Nothing else is promised.
MainLoop == Start \/ Reconcile \/ Tick \/ Halt \/ BarsDone \/ CloseAll
FairSpec == /\ Spec /\ WF_vars(MainLoop) /\ SF_vars(TickFetches)
            /\ \A x \in Ipcs : WF_vars(Entry(x))
            /\ \A h \in Bars : WF_vars(Bar(h))
------------------------------------------------------------------------------
EntryCalls == [at : {"enter", "build", "acquire", "send", "track"}, ticker : Tickers,
               risk : Nat]
CloseCalls == [at : {"decide", "exit", "sold", "lost", "test", "reserve"},
               ticker : Tickers, units : Int]

TypeOK ==
    /\ mode \in {"down", "starting", "running", "stopped"}
    /\ main \in [at : {"sync", "tick", "halt", "bars", "close", "over"},
                 todo : SUBSET Tickers]
    /\ seen \subseteq Tickers /\ pending \subseteq Tickers
    /\ excused \subseteq Tickers /\ crossed \subseteq Tickers
    /\ call \in [Threads -> {NoCall} \cup EntryCalls \cup CloseCalls]
    /\ \A x \in Entrants : call[x] \notin CloseCalls
    /\ \A x \in Closers : call[x] \notin EntryCalls
    /\ tracked \in [Tickers -> Int] /\ account \in [Tickers -> Int]
    /\ stake \in [Tickers -> Nat] /\ risk \in [Tickers -> Nat] /\ deployed \in Nat
    /\ losses \in Nat /\ halted \in BOOLEAN /\ haltFile \in BOOLEAN
    /\ saved = NoState
       \/ saved \in [losses : Nat, risk : [Tickers -> Nat], deployed : Nat]

\* What the position of t and the orders under way for it can lose.
ClaimOn(t) == (IF tracked[t] # 0 THEN stake[t] ELSE 0)
              + SumOf([x \in InFlight(t) |-> call[x].risk], InFlight(t))
Claim == [t \in Tickers |-> ClaimOn(t)]

\* The gate never thinks that it has more capital than it has: the risks of the
\* tracked positions and of the orders under way are in the deployed capital,
\* however entries, releases, adoptions and restores of several tickers
\* interleave.  Not so for a ticker whose entry has met another entry, an
\* adoption or a close of the same ticker (see OneEntry and AllCounted).
CapitalCounted == SumOf(Claim, Tickers \ crossed) <= deployed

\* The process stops for the day only when the positions it tracked are closed:
\* what remains at the broker is there for a reason (a close of the day that
\* failed, was skipped or misreported; a thread at work on the ticker when the
\* closing began, or a signal during it; a difference with the broker).
StoppedFlat == mode = "stopped" => \A t \in Tickers : account[t] = 0 \/ t \in excused

\* The scans that are past the test of the halt.
Passed == {h \in Bars : call[h].at = "reserve"}

\* "Kill switch check FIRST, before emitting BAR events that trigger new entries":
\* once the halt is on disk no further scan passes its test, restart or not, and
\* only scans that had passed it reserve their ticker.  Between the file and the
\* flag ("halt") scans do pass.
NoScanAfterHalt ==
    [][haltFile /\ main.at # "halt" =>
         /\ Passed' \subseteq Passed
         /\ pending' \subseteq pending \cup {call[h].ticker : h \in Passed}]_vars

\* A halt that is on disk ends the day, whatever crashes on the way.
HaltStops == haltFile ~> mode = "stopped"

\* "Broker is source of truth": a position that the engine does not know is
\* adopted, or is gone, unless the process is closing.
Managed == \A t \in Tickers :
    (Alive /\ account[t] # 0 /\ tracked[t] = 0)
      ~> (tracked[t] # 0 \/ account[t] = 0 \/ ~Alive \/ main.at \in {"halt", "close", "over"})

\* "We already hold the reservation" (engine.py), "Prevents TOCTOU race"
\* (risk.py): one entry at a time is past the checks for a ticker.
OneEntry == \A t \in Tickers : Cardinality(InFlight(t)) <= 1

\* "Tracks max_risk (not cost) against budget" (risk.py): every claim is counted.
AllCounted == SumOf(Claim, Tickers) <= deployed

\* "the handler thread continues [...] but we count it as a failure and move on"
\* (event_bus.py): moving on is safe only if one thread at a time sells a position.
OneClose == \A x, y \in Closers :
    x # y /\ call[x].at = "exit" /\ call[y].at = "exit" => call[x].ticker # call[y].ticker

\* "Kill switch check FIRST", to the letter: with the halt on disk nothing is reserved.
NothingReserved == [][haltFile => pending' \subseteq pending]_vars
==============================================================================
