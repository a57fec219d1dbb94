------------------------------ MODULE OrderWAL ------------------------------
(***************************************************************************)
(* The order write-ahead log (monitor/order_wal.py) and its callers over    *)
(* one trading day: the Core and the Options process append to the same     *)
(* file, each with an in-memory index of its own; the callers are the risk  *)
(* engines (intents), the brokers (SUBMITTED, FILLED, FAILED), the          *)
(* PositionManager (RECORDED) and the recovery of each process at startup.  *)
(* The broker's venue is external.                                          *)
(*                                                                          *)
(* An order is its client id.  Ids are drawn in the order of the first line *)
(* they write, so that c < d says that c comes before d in a replay.        *)
(***************************************************************************)
EXTENDS Integers, FiniteSets

CONSTANTS
    Procs,       \* {"Core", "Options"}, or Core alone
    Tickers,     \* underlyings: Core and Options log under the same names
    Sides,       \* bound: {"BUY", "SELL"}, or one of them to leave the other out
    MaxOrders,   \* bound: orders created in a behaviour
    MaxCrashes,  \* bound: process crashes
    MaxFaults    \* bound: log writes that raise (disk full, fsync error)

ASSUME OrderWALAssumption ==
    /\ "Core" \in Procs /\ Procs \subseteq {"Core", "Options"}
    /\ Sides \subseteq {"BUY", "SELL"}
    /\ MaxOrders \in Nat \ {0}
    /\ MaxCrashes \in Nat
    /\ MaxFaults \in Nat

Cids     == 1 .. MaxOrders
NoCid    == 0
Keys     == [ticker : Tickers, side : Sides]
NoKey    == [ticker |-> "", side |-> ""]
NoState  == "none"
Terminal == {"RECORDED", "CANCELLED", "REJECTED", "FAILED"}
Pending  == {"INTENT", "SUBMITTED", "ACKED", "PARTIAL", "FILLED"}
States   == Terminal \cup Pending \cup {NoState}
Phases   == {"unborn", "refused", "queued", "ready", "posted", "working",
             "answered", "dropped", "lost"}

VARIABLES
    disk,       \* cid -> state of its last line in the file
    keyed,      \* cids whose INTENT line (the only one with a key) is there
    loaded,     \* Core: _initialized
    active,     \* Core: _active_orders.  Options keeps an index as well, but
                \* it only ever calls intent, so nothing reads that one
    owner, key, \* cid -> the process and (ticker, side) that created it
    legs,       \* cid -> broker executions the router still makes for it
    phase,      \* cid -> where the thread that executes it stands
    venue,      \* cid -> what the broker holds of it: "live" is every order
                \* accepted whose outcome nobody has looked at yet, "none" one
                \* that never was or is no more
    fills,      \* cid -> FILL events emitted and not yet consumed
    todo,       \* per process: the recovery loop's snapshot, as cid -> state
    recovering, \* processes that have taken that snapshot
    crashes, faults,
    closed,     \* history: cids that have ever had a terminal line
    abandoned   \* history: cids whose recovery could not write its verdict

logVars  == <<disk, keyed, loaded, active, faults, closed>>
callVars == <<owner, key, legs, phase, venue, fills>>
recVars  == <<todo, recovering, crashes, abandoned>>
vars     == <<logVars, callVars, recVars>>

Incomplete(c) == disk[c] \in Pending

-----------------------------------------------------------------------------
(* The log                                                                   *)

(* Mutant: a replay that blocks only for orders it has not seen filled.      *)
ReplayableUnfilled(k) == {c \in keyed : key[c] = k /\ disk[c] \in Pending \ {"FILLED"}}

(* _replay_file: the last state of every id; per key the last id, in the     *)
(* order of the file, that is keyed and not terminal.                        *)
Replayable(k) == {c \in keyed : key[c] = k /\ Incomplete(c)}

LastOf(S) == IF S = {} THEN NoCid ELSE CHOOSE c \in S : \A d \in S : d <= c

Replay == [k \in Keys |-> LastOf(Replayable(k))]

(* _ensure_initialized: the file is opened and replayed on first access.     *)
Index == IF loaded THEN active ELSE Replay

(* Mutant: the key is released by the fill, before the order is over.        *)
IndexedUntilFilled(c, s, ks) ==
    [k \in Keys |-> IF k \notin ks THEN Index[k]
                    ELSE IF s \in Terminal \cup {"FILLED"} THEN NoCid ELSE c]

(* The tail of _write: the key index (_order_states, which only warnings and *)
(* statistics read, is left out).  ks is the key of an INTENT; any other     *)
(* line finds its key by searching the index for the id.                     *)
Indexed(c, s, ks) ==
    [k \in Keys |-> IF k \notin ks THEN Index[k]
                    ELSE IF s \in Terminal THEN NoCid ELSE c]

KeysOf(c) == {k \in Keys : Index[k] = c}

(* The index of the process that wrote.                                      *)
Reindex(p, ix) ==
    IF p = "Core" THEN loaded' = TRUE /\ active' = ix ELSE UNCHANGED <<loaded, active>>

OnDisk(c, s) ==
    /\ disk' = [disk EXCEPT ![c] = s]
    /\ keyed' = IF s = "INTENT" THEN keyed \cup {c} ELSE keyed
    /\ closed' = IF s \in Terminal THEN closed \cup {c} ELSE closed

(* A write that succeeds: line, flush, fsync, then the index.                *)
Written(p, c, s, ks) ==
    /\ OnDisk(c, s)
    /\ Reindex(p, Indexed(c, s, ks))
    /\ UNCHANGED faults

(* A write that raises: the index stays behind whether or not the line made  *)
(* it to the file before the fsync failed.                                   *)
WriteFailed(p, c, s) ==
    /\ faults < MaxFaults
    /\ faults' = faults + 1
    /\ Reindex(p, Index)
    /\ OnDisk(c, s) \/ UNCHANGED <<disk, keyed, closed>>

Log(p, c, s, ks) == Written(p, c, s, ks) \/ WriteFailed(p, c, s)

(* A line about an order of which the process knows only the id.             *)
Append(c, s) == Log(owner[c], c, s, KeysOf(c))

-----------------------------------------------------------------------------
(* Intents                                                                   *)

IsNext(c) == /\ phase[c] = "unborn"
             /\ \A d \in Cids : d < c => phase[d] # "unborn"

Create(p, c, k, n, ph) ==
    /\ owner' = [owner EXCEPT ![c] = p]
    /\ key' = [key EXCEPT ![c] = k]
    /\ legs' = [legs EXCEPT ![c] = n]
    /\ phase' = [phase EXCEPT ![c] = ph]
    /\ UNCHANGED <<venue, fills, recVars>>

BuyKey(t) == [ticker |-> t, side |-> "BUY"]

(* check_and_intent, the gate of every Core BUY: nothing active under the    *)
(* key.  When the write raises it returns False and the order is refused.    *)
CheckAndIntent(t, c) ==
    /\ IsNext(c)
    /\ BuyKey(t) \in Keys /\ Index[BuyKey(t)] = NoCid
    /\ \/ Written("Core", c, "INTENT", {BuyKey(t)}) /\ Create("Core", c, BuyKey(t), 1, "queued")
       \/ WriteFailed("Core", c, "INTENT") /\ Create("Core", c, BuyKey(t), 1, "refused")

(* check_and_intent or has_pending_order finding the key taken: at most the  *)
(* index is loaded.                                                          *)
DedupBlocked(t) ==
    /\ ~loaded
    /\ BuyKey(t) \in Keys /\ Index[BuyKey(t)] # NoCid
    /\ Reindex("Core", Index)
    /\ UNCHANGED <<disk, keyed, faults, closed, callVars, recVars>>

(* intent: Core SELLs and every Options order, unguarded; the caller cannot  *)
(* see a failed write and goes on.  The router may split a Core SELL in two. *)
Intent(p, k, c) ==
    /\ IsNext(c)
    /\ p = "Core" => k.side = "SELL"
    /\ Log(p, c, "INTENT", {k})
    /\ \E n \in 1 .. 2 : /\ p = "Options" => n = 1
                         /\ Create(p, c, k, n, "queued")

-----------------------------------------------------------------------------
(* Brokers                                                                   *)

Goto(c, ph) == phase' = [phase EXCEPT ![c] = ph]
AtVenue(c, v) == venue' = [venue EXCEPT ![c] = v]

ToSubmit(c) == phase[c] \in {"queued", "ready"}

(* The broker accepts the order: it is live before anything is logged.       *)
Post(c) ==
    /\ ToSubmit(c)
    /\ Goto(c, "posted")
    /\ AtVenue(c, "live")
    /\ UNCHANGED <<logVars, owner, key, legs, fills, recVars>>

(* The submission raises.  Alpaca and Options log FAILED, whatever became of *)
(* the request; Tradier tries again with a new order.                        *)
PostError(c) ==
    /\ ToSubmit(c)
    /\ \/ UNCHANGED venue
       \/ AtVenue(c, "live")
    /\ \/ Append(c, "FAILED") /\ Goto(c, "answered")
       \/ Goto(c, "ready") /\ UNCHANGED logVars
    /\ UNCHANGED <<owner, key, legs, fills, recVars>>

WriteSubmitted(c) ==
    /\ phase[c] = "posted"
    /\ Append(c, "SUBMITTED")
    /\ Goto(c, "working")
    /\ UNCHANGED <<owner, key, legs, venue, fills, recVars>>

(* _emit_fill: FILLED is logged, then FILL is emitted.  A split SELL goes on *)
(* with its second leg, a new order under the same client id.                *)
SeeFill(c) ==
    /\ phase[c] = "working" /\ venue[c] \in {"live", "filled"}
    /\ Append(c, "FILLED")
    /\ fills' = [fills EXCEPT ![c] = @ + 1]
    /\ legs' = [legs EXCEPT ![c] = @ - 1]
    /\ Goto(c, IF legs[c] = 2 THEN "ready" ELSE "answered")
    /\ AtVenue(c, IF legs[c] = 2 THEN "none" ELSE "filled")
    /\ UNCHANGED <<owner, key, recVars>>

(* Not filled in time: the order is cancelled (an error of the cancellation  *)
(* is swallowed), then retried with a new order or failed.                   *)
GiveUp(c) ==
    /\ phase[c] = "working"
    /\ \/ AtVenue(c, "none")
       \/ UNCHANGED venue
    /\ \/ Append(c, "FAILED") /\ Goto(c, "answered")
       \/ Goto(c, "ready") /\ UNCHANGED logVars
    /\ UNCHANGED <<owner, key, legs, fills, recVars>>

(* An ORDER_REQ no broker executes: blocked by the portfolio or registry     *)
(* gate, a duplicate, no healthy broker, no position at Tradier.  Nothing is *)
(* logged.                                                                   *)
Drop(c) ==
    /\ phase[c] = "queued" /\ owner[c] = "Core"
    /\ Goto(c, "dropped")
    /\ UNCHANGED <<logVars, owner, key, legs, venue, fills, recVars>>

(* Mutant: RECORDED is logged whether or not a FILL is there to be consumed. *)
ConsumeAnyFill(c) ==
    /\ fills' = [fills EXCEPT ![c] = @ - 1]
    /\ \/ Append(c, "RECORDED")
       \/ owner[c] = "Core" /\ UNCHANGED logVars
    /\ UNCHANGED <<owner, key, legs, phase, venue, recVars>>

(* PositionManager (or the Options broker) logs RECORDED; PositionManager    *)
(* logs nothing for a BUY of a ticker it holds or a SELL of one it does not. *)
ConsumeFill(c) ==
    /\ fills[c] > 0
    /\ fills' = [fills EXCEPT ![c] = @ - 1]
    /\ \/ Append(c, "RECORDED")
       \/ owner[c] = "Core" /\ UNCHANGED logVars
    /\ UNCHANGED <<owner, key, legs, phase, venue, recVars>>

-----------------------------------------------------------------------------
(* Crash and recovery                                                        *)

Alive == {"queued", "ready", "posted", "working", "answered", "dropped"}

(* A process dies and its supervisor starts it again: index, threads, queued *)
(* events and a recovery under way are gone; the file and the venue are not. *)
Crash(p) ==
    /\ crashes < MaxCrashes
    /\ crashes' = crashes + 1
    /\ loaded' = (loaded /\ p # "Core")
    /\ active' = IF p = "Core" THEN [k \in Keys |-> NoCid] ELSE active
    /\ phase' = [c \in Cids |-> IF owner[c] = p /\ phase[c] \in Alive THEN "lost" ELSE phase[c]]
    /\ fills' = [c \in Cids |-> IF owner[c] = p THEN 0 ELSE fills[c]]
    /\ todo' = [todo EXCEPT ![p] = [c \in Cids |-> NoState]]
    /\ recovering' = recovering \ {p}
    /\ UNCHANGED <<disk, keyed, faults, closed, owner, key, legs, venue, abandoned>>

(* Mutant: only Core resolves what a crash left behind.                      *)
StartRecoveryOfOwn(p) ==
    /\ p \notin recovering
    /\ recovering' = recovering \cup {p}
    /\ todo' = [todo EXCEPT ![p] =
                   [c \in Cids |-> IF Incomplete(c) /\ c \in keyed /\ p = "Core"
                                   THEN disk[c] ELSE NoState]]
    /\ UNCHANGED <<logVars, callVars, crashes, abandoned>>

(* get_incomplete_orders, once per start, after trading has begun.  Core     *)
(* takes every incomplete order of the file, Options those whose INTENT line *)
(* carries an options reason.                                                *)
StartRecovery(p) ==
    /\ p \notin recovering
    /\ recovering' = recovering \cup {p}
    /\ todo' = [todo EXCEPT ![p] =
                   [c \in Cids |->
                       IF Incomplete(c) /\ (p = "Options" => c \in keyed /\ owner[c] = p)
                       THEN disk[c] ELSE NoState]]
    /\ UNCHANGED <<logVars, callVars, crashes, abandoned>>

(* Mutant: a recovery that has no answer for an order whose fill was logged. *)
VerdictsButFilled(p, s, v) ==
    CASE s = "INTENT" -> {<<"CANCELLED", v>>}
      [] s = "FILLED" -> {<<"FILLED", v>>}
      [] OTHER        -> {<<"FAILED", v>>}

(* What the recovery writes for an order it saw in state s, and what has     *)
(* become of the order then: an INTENT was never submitted; otherwise the    *)
(* broker decides, a live order is cancelled (an error is swallowed), and a  *)
(* lookup that fails or answers with a partial fill means FAILED.  Options   *)
(* does not ask about an order it saw FILLED.                                *)
Verdicts(p, s, v) ==
    CASE s = "INTENT"                  -> {<<"CANCELLED", v>>}
      [] s = "FILLED" /\ p = "Options" -> {<<"RECORDED", v>>}
      [] OTHER ->
           {<<"FAILED", v>>}
           \cup {<<"RECORDED", "filled">> : x \in {v} \cap {"live", "filled"}}
           \cup {<<"CANCELLED", x>> : x \in IF v = "filled" THEN {} ELSE {v, "none"}}

(* One turn of the recovery loop, in file order.                             *)
Resolve(p, c) ==
    /\ todo[p][c] # NoState
    /\ \A d \in Cids : d < c => todo[p][d] = NoState
    /\ \E w \in Verdicts(p, todo[p][c], venue[c]) :
          /\ AtVenue(c, w[2])
          /\ \/ Written(p, c, w[1], KeysOf(c)) /\ UNCHANGED abandoned
             \/ WriteFailed(p, c, w[1]) /\ abandoned' = abandoned \cup {c}
    /\ todo' = [todo EXCEPT ![p][c] = NoState]
    /\ UNCHANGED <<owner, key, legs, phase, fills, recovering, crashes>>

-----------------------------------------------------------------------------
Init ==
    /\ disk = [c \in Cids |-> NoState] /\ keyed = {} /\ faults = 0
    /\ loaded = FALSE /\ active = [k \in Keys |-> NoCid]
    /\ owner = [c \in Cids |-> "Core"] /\ key = [c \in Cids |-> NoKey]
    /\ legs = [c \in Cids |-> 0] /\ fills = [c \in Cids |-> 0]
    /\ phase = [c \in Cids |-> "unborn"] /\ venue = [c \in Cids |-> "none"]
    /\ todo = [p \in Procs |-> [c \in Cids |-> NoState]]
    /\ recovering = {} /\ crashes = 0 /\ closed = {} /\ abandoned = {}

OrderStep(c) ==
    \/ Post(c) \/ PostError(c) \/ WriteSubmitted(c) \/ SeeFill(c)
    \/ GiveUp(c) \/ Drop(c) \/ ConsumeFill(c)

Next ==
    \/ \E t \in Tickers : DedupBlocked(t)
    \/ \E t \in Tickers, c \in Cids : CheckAndIntent(t, c)
    \/ \E p \in Procs, k \in Keys, c \in Cids : Intent(p, k, c)
    \/ \E c \in Cids : OrderStep(c)
    \/ \E p \in Procs : Crash(p) \/ StartRecovery(p)
    \/ \E p \in Procs, c \in Cids : Resolve(p, c)

Spec == Init /\ [][Next]_vars

(* The main thread of a process runs its recovery to the end: a plain loop   *)
(* without waiting on anyone.                                                *)
Recovery(p) == StartRecovery(p) \/ \E c \in Cids : Resolve(p, c)
FairSpec == Spec /\ \A p \in Procs : WF_vars(Recovery(p))
-----------------------------------------------------------------------------
(* Properties                                                                *)

LogTyped ==
    /\ disk \in [Cids -> States] /\ keyed \subseteq Cids
    /\ loaded \in BOOLEAN /\ active \in [Keys -> Cids \cup {NoCid}]
    /\ faults \in 0 .. MaxFaults /\ closed \subseteq Cids

CallTyped ==
    /\ owner \in [Cids -> Procs] /\ key \in [Cids -> Keys \cup {NoKey}]
    /\ legs \in [Cids -> 0 .. 2] /\ fills \in [Cids -> 0 .. 2]
    /\ phase \in [Cids -> Phases]
    /\ venue \in [Cids -> {"none", "live", "filled"}]

RecTyped ==
    /\ todo \in [Procs -> [Cids -> States]] /\ recovering \subseteq Procs
    /\ crashes \in 0 .. MaxCrashes /\ abandoned \subseteq Cids

(* Every variable has its type; in particular an order makes at most two     *)
(* FILL events (a SELL the router split), each of them consumed once.        *)
TypeOK == LogTyped /\ CallTyped /\ RecTyped

(* The orders the gate has let through for a ticker and nothing has closed:  *)
(* no terminal line was ever written and no recovery has given up on them.   *)
Admitted == {c \in Cids : /\ owner[c] = "Core" /\ key[c].side = "BUY"
                          /\ phase[c] \notin {"unborn", "refused"}}
Open(t) == {c \in Admitted : key[c] = BuyKey(t) /\ c \notin closed \cup abandoned}

(* The gate of check_and_intent keeps its promise over crashes, replays, the *)
(* other process's lines in the file and failed writes: a BUY is admitted    *)
(* only when every BUY admitted before it for the ticker has been closed.    *)
Gate == INSTANCE DedupGate WITH open <- [t \in Tickers |-> Open(t)],
                                admitted <- Admitted
GateKept == Gate!Spec

(* Losing the index loses no block: while an order that was never closed     *)
(* holds a key in memory, a replay of the file finds the key taken too       *)
(* (has_pending_order: "Crash-safe: rebuilt from WAL file on restart").      *)
RestartKeepsBlock ==
    \A k \in Keys : active[k] \notin closed \cup {NoCid} => Replay[k] # NoCid

(* A process whose recovery is over has nothing left of its previous lives,  *)
(* whichever of the two recoveries saw the order first and in which state:   *)
(* every order it lost in a crash has reached a terminal state.              *)
RecoveredIsClosed ==
    \A p \in recovering, c \in Cids :
        /\ \A d \in Cids : todo[p][d] = NoState
        /\ owner[c] = p /\ phase[c] = "lost" /\ faults = 0
        => ~Incomplete(c)

(* The recovery of the next session closes every order a crash left behind,  *)
(* unless the log itself cannot be written.                                  *)
LostIsClosed ==
    \A c \in Cids :
        (phase[c] = "lost" /\ c \in keyed /\ Incomplete(c))
            ~> (~Incomplete(c) \/ faults > 0)

(* Claimed by run_core.py ("Never submitted - safe to ignore") and by the    *)
(* head of order_wal.py: an order of an earlier session that the recovery    *)
(* writes off because its last line is INTENT never reached the broker.      *)
NeverSubmittedIsSafe ==
    [][\A p \in Procs, c \in Cids :
          /\ todo[p][c] = "INTENT" /\ todo'[p][c] = NoState
          /\ phase[c] = "lost" /\ p \in recovering'
          => venue[c] = "none"]_vars

(* Claimed by check_and_intent ("prevents TOCTOU race in ASYNC mode") and    *)
(* has_pending_order ("to prevent duplicate orders"): the threads of Core    *)
(* never execute two BUYs of a ticker at a time.                             *)
OneBuyInFlight ==
    \A t \in Tickers : \A c, d \in Admitted :
        /\ key[c] = BuyKey(t) /\ phase[c] \in {"queued", "ready", "posted", "working"}
        /\ key[d] = BuyKey(t) /\ phase[d] \in {"queued", "ready", "posted", "working"}
        => c = d
==============================================================================
