----------------------------- MODULE Supervisor -----------------------------
(***************************************************************************)
(* The tree of processes on one trading day: the engines, the supervisor     *)
(* that starts, checks and restarts them (scripts/supervisor.py), and above  *)
(* it the watchdog, whose outer loop restarts a supervisor that died         *)
(* (scripts/outer_watchdog.py) and whose healer kills what is stuck          *)
(* (scripts/session_watchdog.py).                                            *)
(*                                                                           *)
(* Every engine has a session of its own, so that it survives a supervisor    *)
(* that is killed.  Core proves its life with data/heartbeat.json, which is   *)
(* one file whatever process writes it.  Reports, alerts, crash analysis and  *)
(* the other health checks change none of this and are left out.              *)
(***************************************************************************)
EXTENDS Integers, Sequences

CONSTANTS
    Core,               \* the critical engine
    Order,              \* the engines as PROCESSES lists them, Core first
    MaxRestarts,        \* max_restarts, of every engine
    MaxRevivals,        \* the watchdog's restarts of the supervisor in a day
    MaxFaults           \* bound on crashes, hangs, kills and failed starts

Engines == {Order[i] : i \in 1..Len(Order)}

ASSUME SupervisorAssumption ==
    /\ Order \in Seq(Engines) /\ Order # <<>> /\ Order[1] = Core
    /\ \A i, j \in 1..Len(Order) : Order[i] = Order[j] => i = j
    /\ {MaxRestarts, MaxRevivals, MaxFaults} \subseteq Nat

VARIABLES
    open,               \* market hours
    sup,                \* the supervisor: its place, its engine, stuck or told to end
    mgr,                \* ProcessManager: status and restart_count
    child,              \* the process a manager holds, or how it ended
    strays,             \* processes of each engine that no supervisor holds
    mute,               \* how many of Core's strays are hung
    heartbeat,          \* data/heartbeat.json: none, fresh or stale
    revivals,           \* restarts_today
    kills,              \* history: supervisors killed before they could stop
    faults

vars == <<open, sup, mgr, child, strays, mute, heartbeat, revivals, kills, faults>>

Alive(e)   == child[e] \in {"boot", "up", "hung"}
Running(e) == Alive(e) \/ strays[e] > 0
Fault      == faults < MaxFaults /\ faults' = faults + 1

NoChild == [e \in Engines |-> "none"]
Place(at, i) == [at |-> at, i |-> i, stuck |-> FALSE, term |-> FALSE]
Dead == Place("dead", 1)

Init ==
    /\ open = TRUE /\ sup = Place("boot", 1)
    /\ mgr = [e \in Engines |-> [status |-> "stopped", count |-> 0]]
    /\ child = NoChild /\ strays = [e \in Engines |-> 0] /\ mute = 0
    /\ heartbeat = "none" /\ revivals = 0 /\ kills = 0 /\ faults = 0
------------------------------------------------------------------------------
(* The engines                                                               *)

EngineOnly == UNCHANGED <<open, sup, mgr, revivals, kills>>

\* Initialised; Core's writer thread touches the heartbeat from now on.
Up(e) ==
    /\ child[e] = "boot" /\ child' = [child EXCEPT ![e] = "up"]
    /\ heartbeat' = IF e = Core THEN "fresh" ELSE heartbeat
    /\ UNCHANGED <<strays, mute, faults>> /\ EngineOnly

\* It ends: at the close with 0, on the daily loss with 3 (a satellite only), or
\* it crashes.
Exit(e, code) ==
    /\ child[e] \in {"boot", "up"} /\ (code = "exit3" => e # Core)
    /\ IF code = "exit0" THEN ~open /\ UNCHANGED faults ELSE Fault
    /\ child' = [child EXCEPT ![e] = code]
    /\ UNCHANGED <<strays, mute, heartbeat>> /\ EngineOnly

\* The whole process freezes, its heartbeat thread included.
Hang(e) ==
    /\ child[e] = "up" /\ Fault
    /\ child' = [child EXCEPT ![e] = "hung"]
    /\ UNCHANGED <<strays, mute, heartbeat>> /\ EngineOnly

\* A stray process ends at the close, or before.
StrayExits(e) ==
    /\ strays[e] > 0 /\ strays' = [strays EXCEPT ![e] = @ - 1]
    /\ mute' = (IF e = Core /\ mute = strays[e] THEN mute - 1 ELSE mute)
    /\ IF open THEN Fault ELSE UNCHANGED faults
    /\ UNCHANGED <<child, heartbeat>> /\ EngineOnly

\* Nobody has written the heartbeat for _HEARTBEAT_STALE_SEC.
Age ==
    /\ heartbeat = "fresh" /\ child[Core] # "up" /\ strays[Core] = mute
    /\ heartbeat' = "stale"
    /\ UNCHANGED <<child, strays, mute, faults>> /\ EngineOnly
------------------------------------------------------------------------------
(* The supervisor                                                            *)

At(at) == sup.at = at /\ ~sup.stuck
Turn   == Order[sup.i]
Goto(at, i) == sup' = [sup EXCEPT !.at = at, !.i = i]

\* On to the next engine; after the last one comes a new pass.
NextTurn == Goto("check", IF sup.i = Len(Order) THEN 1 ELSE sup.i + 1)
GiveUpAll == Goto("stop", Len(Order))
Keep == UNCHANGED <<open, strays, mute, heartbeat, revivals, kills>>

\* ProcessManager.start of a process that is not running.
Launch(e, ok) ==
    /\ mgr' = [mgr EXCEPT ![e].status = IF ok THEN "running" ELSE "crashed"]
    /\ child' = [child EXCEPT ![e] = IF ok THEN "boot" ELSE @]
    /\ IF ok THEN UNCHANGED faults ELSE Fault

\* main, before the loop: Core first; without it the supervisor returns.
BootNext ==
    /\ At("boot")
    /\ \E ok \in BOOLEAN :
         /\ Launch(Turn, ok)
         /\ sup' = IF ~ok /\ Turn = Core THEN Dead
                   ELSE IF sup.i = Len(Order) THEN [sup EXCEPT !.at = "check", !.i = 1]
                   ELSE [sup EXCEPT !.i = @ + 1]
    /\ Keep

\* restart, up to its delay: a crash counts, and too many disable the engine.
Restart(e, status, proc) ==
    LET crash == status = "crashed"
    IN IF crash /\ mgr[e].count >= MaxRestarts
       THEN /\ mgr' = [mgr EXCEPT ![e].status = "disabled"]
            /\ child' = [child EXCEPT ![e] = proc]
            /\ IF e = Core THEN GiveUpAll ELSE NextTurn
       ELSE /\ mgr' = [mgr EXCEPT ![e] = [status |-> status,
                                          count |-> @.count + IF crash THEN 1 ELSE 0]]
            /\ child' = [child EXCEPT ![e] = proc]
            /\ Goto("delay", sup.i)

\* A new pass begins with a look at the clock and at the SIGTERM flag.
InPass == At("check") /\ (sup.i = 1 => open /\ ~sup.term)

(* Mutant: a process with a PID is running, whatever its heartbeat says.     *)
CheckAliveAnyway ==
    LET e == Turn
    IN /\ InPass /\ Alive(e)
       /\ \/ UNCHANGED mgr
          \/ child[e] = "up" /\ mgr' = [mgr EXCEPT ![e].count = 0]
       /\ NextTurn /\ UNCHANGED <<child, faults>> /\ Keep

\* check: alive, and five minutes without a crash clear the counter.
CheckAlive ==
    LET e == Turn
    IN /\ InPass /\ Alive(e) /\ ~(e = Core /\ open /\ heartbeat = "stale")
       /\ \/ UNCHANGED mgr
          \/ child[e] = "up" /\ mgr' = [mgr EXCEPT ![e].count = 0]
       /\ NextTurn /\ UNCHANGED <<child, faults>> /\ Keep

(* Mutant: the hung process is forgotten without being killed.               *)
CheckHungForgets ==
    LET e == Turn
    IN /\ InPass /\ Alive(e) /\ e = Core /\ open /\ heartbeat = "stale"
       /\ Restart(e, "crashed", "none")
       /\ strays' = [strays EXCEPT ![e] = @ + 1] /\ mute' = mute + 1
       /\ UNCHANGED <<faults, open, heartbeat, revivals, kills>>

\* check says "hung": killed, reaped and restarted as a crash.  The heartbeat
\* stays as stale as it was.
CheckHung ==
    LET e == Turn
    IN /\ InPass /\ Alive(e) /\ e = Core /\ open /\ heartbeat = "stale"
       /\ Restart(e, "crashed", "none")
       /\ UNCHANGED faults /\ Keep

(* Mutant: the exit code 3 is a crash like any other.                        *)
CheckEndedAlike ==
    LET e == Turn
    IN /\ InPass /\ ~Alive(e)
       /\ \/ child[e] = "none" /\ Restart(e, mgr[e].status, "none")
          \/ child[e] \in {"exit0", "killed"} /\ Restart(e, "stopped", child[e])
          \/ child[e] \in {"exit3", "crash"} /\ Restart(e, "crashed", child[e])
       /\ UNCHANGED faults /\ Keep

\* check of a process that ended, or never was: code 3 disables the engine, a
\* clean exit and a signal do not count, a failed start left its status behind.
CheckEnded ==
    LET e == Turn
    IN /\ InPass /\ ~Alive(e)
       /\ \/ child[e] = "none" /\ Restart(e, mgr[e].status, "none")
          \/ child[e] \in {"exit0", "killed"} /\ Restart(e, "stopped", child[e])
          \/ child[e] = "crash" /\ Restart(e, "crashed", "crash")
          \/ /\ child[e] = "exit3" /\ mgr' = [mgr EXCEPT ![e].status = "disabled"]
             /\ NextTurn /\ UNCHANGED child
       /\ UNCHANGED faults /\ Keep

\* restart, after its delay.  A Core that cannot be started stops everything.
Relaunch ==
    /\ At("delay")
    /\ \E ok \in BOOLEAN :
         /\ Launch(Turn, ok)
         /\ IF ~ok /\ Turn = Core THEN GiveUpAll ELSE NextTurn
    /\ Keep

EndPasses ==
    /\ At("check") /\ sup.i = 1 /\ (~open \/ sup.term) /\ GiveUpAll
    /\ UNCHANGED <<mgr, child, faults>> /\ Keep

\* finally: the engines are stopped in reverse order, SIGKILL after SIGTERM, and
\* the heartbeat is removed with the last.
StopNext ==
    /\ At("stop")
    /\ mgr' = [mgr EXCEPT ![Turn] = [status |-> "stopped", count |-> 0]]
    /\ child' = [child EXCEPT ![Turn] = "none"]
    /\ IF sup.i = 1 THEN sup' = Dead /\ heartbeat' = "none"
       ELSE Goto("stop", sup.i - 1) /\ UNCHANGED heartbeat
    /\ UNCHANGED <<open, strays, mute, revivals, kills, faults>>
------------------------------------------------------------------------------
(* What happens to the supervisor, and the watchdog                          *)

\* SIGKILL: the memory is gone, the engines are not.
Killed ==
    /\ sup' = Dead /\ kills' = kills + 1
    /\ mgr' = [e \in Engines |-> [status |-> "stopped", count |-> 0]]
    /\ child' = NoChild
    /\ strays' = [e \in Engines |-> strays[e] + IF Alive(e) THEN 1 ELSE 0]
    /\ mute' = mute + IF child[Core] = "hung" THEN 1 ELSE 0

SupervisorKilled ==
    /\ sup.at # "dead" /\ Fault /\ Killed
    /\ UNCHANGED <<open, heartbeat, revivals>>

\* It blocks, and may come back.
Stick   == sup.at # "dead" /\ ~sup.stuck /\ Fault /\ sup' = [sup EXCEPT !.stuck = TRUE]
Unstick == sup.stuck /\ UNCHANGED faults /\ sup' = [sup EXCEPT !.stuck = FALSE]
SupervisorSticks == (Stick \/ Unstick) /\ UNCHANGED <<mgr, child>> /\ Keep

\* No supervisor in the process list, so a new one.
NewSupervisor ==
    /\ open /\ sup.at = "dead" /\ sup' = Place("boot", 1)
    /\ mgr' = [e \in Engines |-> [status |-> "stopped", count |-> 0]]
    /\ UNCHANGED <<open, child, strays, mute, heartbeat, kills, faults>>

\* check_and_heal counts its restarts of the day.
Revive == revivals < MaxRevivals /\ revivals' = revivals + 1 /\ NewSupervisor

\* The healer, which runs right after it, does not: _heal_restart_supervisor.
HealMissing == UNCHANGED revivals /\ NewSupervisor

\* check_and_heal: no Core, and the supervisor's log is stale: SIGTERM, which a
\* supervisor sees at the start of a pass.
Terminate ==
    /\ open /\ sup.stuck /\ ~Running(Core) /\ ~sup.term
    /\ sup' = [sup EXCEPT !.term = TRUE]
    /\ UNCHANGED <<mgr, child, faults>> /\ Keep

(* Mutant: the stuck supervisor gets the SIGTERM that it cannot see.         *)
HealSupervisorGently ==
    /\ open /\ sup.stuck /\ sup' = [sup EXCEPT !.term = TRUE]
    /\ UNCHANGED <<mgr, child, faults>> /\ Keep

\* The healer: a supervisor whose log is stale is killed.
HealSupervisor ==
    /\ open /\ sup.stuck /\ Killed
    /\ UNCHANGED <<open, heartbeat, revivals, faults>>

\* The healer: every process of a stale (or misbehaving) engine is killed.
HealEngine(e) ==
    /\ open /\ Running(e)
    /\ IF child[e] = "hung" THEN UNCHANGED faults ELSE Fault
    /\ child' = [child EXCEPT ![e] = IF Alive(e) THEN "killed" ELSE @]
    /\ strays' = [strays EXCEPT ![e] = 0] /\ mute' = (IF e = Core THEN 0 ELSE mute)
    /\ UNCHANGED heartbeat /\ EngineOnly

MarketCloses ==
    /\ open /\ open' = FALSE
    /\ UNCHANGED <<sup, mgr, child, strays, mute, heartbeat, revivals, kills, faults>>

Pass == \/ BootNext \/ CheckAlive \/ CheckHung \/ CheckEnded \/ Relaunch
        \/ EndPasses \/ StopNext

Next ==
    \/ \E e \in Engines : \/ Up(e) \/ Hang(e) \/ StrayExits(e) \/ HealEngine(e)
                          \/ \E code \in {"exit0", "exit3", "crash"} : Exit(e, code)
    \/ Age \/ Pass
    \/ SupervisorKilled \/ SupervisorSticks
    \/ Revive \/ HealMissing \/ Terminate \/ HealSupervisor \/ MarketCloses

Spec == Init /\ [][Next]_vars

\* The supervisor passes, the watchdog cycles, a Core that is let live comes up,
\* and time goes by.  Nothing hurries the market's close or the end of a block.
FairSpec == Spec /\ WF_vars(Pass) /\ WF_vars(Revive \/ HealMissing)
                 /\ WF_vars(HealSupervisor) /\ WF_vars(Up(Core)) /\ WF_vars(Age)
------------------------------------------------------------------------------
TypeOK ==
    /\ open \in BOOLEAN /\ heartbeat \in {"none", "fresh", "stale"}
    /\ sup \in [at : {"dead", "boot", "check", "delay", "stop"}, i : 1..Len(Order),
                stuck : BOOLEAN, term : BOOLEAN]
    /\ mgr \in [Engines -> [status : {"stopped", "running", "crashed", "disabled"},
                            count : 0..MaxRestarts]]
    /\ child \in [Engines -> {"none", "boot", "up", "hung", "exit0", "exit3", "crash",
                              "killed"}]
    /\ strays \in [Engines -> Nat] /\ mute \in 0..strays[Core] /\ revivals \in 0..MaxRevivals
    /\ kills \in Nat /\ faults \in 0..MaxFaults

\* Only a killed supervisor leaves processes behind, one of each engine at most:
\* neither a restart, a hang nor a shutdown loses one that still runs.
StraysForCause == \A e \in Engines : strays[e] <= kills

\* An engine that halted on its daily loss, or that used up its restarts, is not
\* started again by the supervisor that saw it end.
GivenUp(e) == \/ child[e] = "exit3"
              \/ child[e] = "crash" /\ mgr[e].status = "disabled"
GivenUpStaysDown == [][\A e \in Engines : GivenUp(e) => child'[e] # "boot"]_vars

\* As long as the market is open, a missing Core comes up again, through restarts
\* that count, a supervisor that gives up, gets stuck or is killed, and a stale
\* heartbeat that shoots new Cores down.
CoreReturns ==
    (open /\ ~Running(Core)) ~> (child[Core] = "up" \/ strays[Core] > 0 \/ ~open)

\* A frozen Core is found by its heartbeat and replaced, unless a stray Core goes on
\* writing the file.
HungIsSeen ==
    child[Core] = "hung" ~> (child[Core] # "hung" \/ strays[Core] > mute \/ ~open)

\* "Max 5 restarts/day, then alerts for manual intervention" (outer_watchdog.py): a
\* watchdog that has used its restarts of the day leaves a dead supervisor dead.
LeftForTheOperator ==
    [][revivals = MaxRevivals /\ sup.at = "dead" => sup'.at = "dead"]_vars

\* "Prevents duplicate supervisors from spawning duplicate child processes"
\* (supervisor.py): at most one process of an engine runs.
OneProcess == \A e \in Engines : strays[e] + (IF Alive(e) THEN 1 ELSE 0) <= 1
==============================================================================
