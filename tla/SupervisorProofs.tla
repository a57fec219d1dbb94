-------------------------- MODULE SupervisorProofs --------------------------
(***************************************************************************)
(* What holds of Supervisor for every list of engines and every limit on     *)
(* restarts, revivals and faults.                                            *)
(***************************************************************************)
EXTENDS Supervisor, SequenceTheorems, TLAPS

\* Where a launch may come, what it launches is not running and not given up.
Launchable ==
    /\ sup.at = "delay" =>
         \/ child[Turn] \in {"none", "exit0", "killed"}
         \/ child[Turn] = "crash" /\ mgr[Turn].status = "crashed"
    /\ sup.at = "boot" => \A j \in sup.i..Len(Order) : child[Order[j]] = "none"
    /\ sup.at = "stop" => \A j \in (sup.i + 1)..Len(Order) : child[Order[j]] = "none"
    /\ sup.at = "dead" => \A e \in Engines : child[e] = "none"

IInv == TypeOK /\ StraysForCause /\ Launchable
------------------------------------------------------------------------------
LEMMA Lists ==
    /\ Len(Order) \in Nat /\ Len(Order) >= 1
    /\ \A i \in 1..Len(Order) : Order[i] \in Engines
    /\ Core \in Engines /\ Core = Order[1]
    /\ \A i \in 1..Len(Order) : Order[i] = Core => i = 1
    /\ MaxRestarts \in Nat /\ MaxRevivals \in Nat /\ MaxFaults \in Nat
<1>1. Len(Order) \in Nat
  BY SupervisorAssumption
<1>2. Len(Order) # 0
  BY SupervisorAssumption, EmptySeq
<1>3. Len(Order) >= 1
  BY <1>1, <1>2
<1>4. \A i \in 1..Len(Order) : Order[i] \in Engines
  BY DEF Engines
<1>5. 1 \in 1..Len(Order)
  BY <1>1, <1>3
<1>6. Core \in Engines /\ Core = Order[1]
  BY <1>4, <1>5, SupervisorAssumption
<1>7. \A i \in 1..Len(Order) : Order[i] = Core => i = 1
  BY <1>5, <1>6, SupervisorAssumption
<1>8. MaxRestarts \in Nat /\ MaxRevivals \in Nat /\ MaxFaults \in Nat
  BY SupervisorAssumption
<1> QED BY <1>1, <1>3, <1>4, <1>6, <1>7, <1>8

LEMMA InitInv == Init => IInv
BY Lists DEF Init, IInv, TypeOK, StraysForCause, Launchable, NoChild, Place, Turn

Places   == {"dead", "boot", "check", "delay", "stop"}
SupType  == [at : Places, i : 1..Len(Order), stuck : BOOLEAN, term : BOOLEAN]
Statuses == {"stopped", "running", "crashed", "disabled"}
MgrType  == [Engines -> [status : Statuses, count : 0..MaxRestarts]]
States   == {"none", "boot", "up", "hung", "exit0", "exit3", "crash", "killed"}

LEMMA TypeParts ==
    TypeOK <=> /\ open \in BOOLEAN /\ heartbeat \in {"none", "fresh", "stale"}
               /\ sup \in SupType /\ mgr \in MgrType /\ child \in [Engines -> States]
               /\ strays \in [Engines -> Nat] /\ mute \in 0..strays[Core]
               /\ revivals \in 0..MaxRevivals /\ kills \in Nat /\ faults \in 0..MaxFaults
BY DEF TypeOK, SupType, Places, MgrType, Statuses, States

\* What the supervisor may be about to launch stays so when only live processes change.
LEMMA IdleKept ==
    ASSUME TypeOK, Launchable, sup' = sup, mgr' = mgr,
           \A f \in Engines : ~Alive(f) => child'[f] = child[f]
    PROVE  Launchable'
<1> USE Lists
<1>1. /\ Turn \in Engines /\ Turn' = Turn /\ sup.i \in 1..Len(Order)
      /\ \A j \in sup.i..Len(Order) : Order[j] \in Engines
      /\ \A j \in (sup.i + 1)..Len(Order) : Order[j] \in Engines
  BY DEF TypeOK, Turn
<1>2. \A f \in Engines : child[f] \in {"none", "exit0", "killed", "crash"} => child'[f] = child[f]
  BY DEF Alive
<1> QED BY <1>1, <1>2 DEF Launchable

\* The steps of the engines, of the healer on them, and of time.
LEMMA EngineSteps ==
    ASSUME IInv, NEW e \in Engines,
           \/ Up(e) \/ Hang(e) \/ StrayExits(e) \/ HealEngine(e) \/ Age
           \/ \E code \in {"exit0", "exit3", "crash"} : Exit(e, code)
    PROVE  IInv'
<1> USE Lists DEF EngineOnly, Fault
<1>1. CASE Up(e)
  <2>1. TypeOK'
    BY <1>1 DEF Up, IInv, TypeOK
  <2>2. StraysForCause'
    BY <1>1 DEF Up, IInv, TypeOK, StraysForCause
  <2>3. sup' = sup /\ mgr' = mgr
    BY <1>1 DEF Up
  <2>4. \A f \in Engines : ~Alive(f) => child'[f] = child[f]
    BY <1>1 DEF Up, IInv, TypeOK, Alive
  <2> QED BY <2>1, <2>2, <2>3, <2>4, IdleKept DEF IInv
<1>2. CASE Hang(e)
  <2>1. TypeOK'
    BY <1>2 DEF Hang, IInv, TypeOK
  <2>2. StraysForCause'
    BY <1>2 DEF Hang, IInv, TypeOK, StraysForCause
  <2>3. sup' = sup /\ mgr' = mgr
    BY <1>2 DEF Hang
  <2>4. \A f \in Engines : ~Alive(f) => child'[f] = child[f]
    BY <1>2 DEF Hang, IInv, TypeOK, Alive
  <2> QED BY <2>1, <2>2, <2>3, <2>4, IdleKept DEF IInv
<1>3. CASE StrayExits(e)
  <2>1. TypeOK'
    BY <1>3 DEF StrayExits, IInv, TypeOK
  <2>2. StraysForCause'
    BY <1>3 DEF StrayExits, IInv, TypeOK, StraysForCause
  <2>3. sup' = sup /\ mgr' = mgr
    BY <1>3 DEF StrayExits
  <2>4. \A f \in Engines : ~Alive(f) => child'[f] = child[f]
    BY <1>3 DEF StrayExits, IInv, TypeOK, Alive
  <2> QED BY <2>1, <2>2, <2>3, <2>4, IdleKept DEF IInv
<1>4. CASE HealEngine(e)
  <2>1. TypeOK'
    BY <1>4 DEF HealEngine, IInv, TypeOK, Alive
  <2>2. StraysForCause'
    BY <1>4 DEF HealEngine, IInv, TypeOK, StraysForCause
  <2>3. sup' = sup /\ mgr' = mgr
    BY <1>4 DEF HealEngine
  <2>4. \A f \in Engines : ~Alive(f) => child'[f] = child[f]
    BY <1>4 DEF HealEngine, IInv, TypeOK, Alive
  <2> QED BY <2>1, <2>2, <2>3, <2>4, IdleKept DEF IInv
<1>5. CASE Age
  <2>1. TypeOK'
    BY <1>5 DEF Age, IInv, TypeOK
  <2>2. StraysForCause'
    BY <1>5 DEF Age, IInv, TypeOK, StraysForCause
  <2>3. sup' = sup /\ mgr' = mgr
    BY <1>5 DEF Age
  <2>4. \A f \in Engines : ~Alive(f) => child'[f] = child[f]
    BY <1>5 DEF Age, IInv, TypeOK, Alive
  <2> QED BY <2>1, <2>2, <2>3, <2>4, IdleKept DEF IInv
<1>6. ASSUME NEW code \in {"exit0", "exit3", "crash"}, Exit(e, code)
      PROVE  IInv'
  <2>1. TypeOK'
    BY <1>6 DEF Exit, IInv, TypeOK
  <2>2. StraysForCause'
    BY <1>6 DEF Exit, IInv, TypeOK, StraysForCause
  <2>3. sup' = sup /\ mgr' = mgr
    BY <1>6 DEF Exit
  <2>4. \A f \in Engines : ~Alive(f) => child'[f] = child[f]
    BY <1>6 DEF Exit, IInv, TypeOK, Alive
  <2> QED BY <2>1, <2>2, <2>3, <2>4, IdleKept DEF IInv
<1> QED BY <1>1, <1>2, <1>3, <1>4, <1>5, <1>6
------------------------------------------------------------------------------
(* The places of a pass                                                      *)

LEMMA GotoGoes ==
    ASSUME sup \in SupType, NEW at \in Places, NEW i \in 1..Len(Order), Goto(at, i)
    PROVE  sup' \in SupType /\ sup'.at = at /\ sup'.i = i
BY DEF SupType, Goto

LEMMA NextTurnGoes ==
    ASSUME sup \in SupType, NextTurn
    PROVE  sup' \in SupType /\ sup'.at = "check"
<1>1. (IF sup.i = Len(Order) THEN 1 ELSE sup.i + 1) \in 1..Len(Order)
  BY Lists DEF SupType
<1> QED BY <1>1, GotoGoes DEF NextTurn, Places

LEMMA GiveUpAllGoes ==
    ASSUME sup \in SupType, GiveUpAll
    PROVE  sup' \in SupType /\ sup'.at = "stop" /\ sup'.i = Len(Order)
BY Lists, GotoGoes DEF GiveUpAll, Places

\* A step of the supervisor that loses no process, with its variables well typed.
LEMMA PassCloses ==
    ASSUME IInv, sup' \in SupType, mgr' \in MgrType, child' \in [Engines -> States],
           faults' \in 0..MaxFaults, heartbeat' \in {heartbeat, "none"},
           UNCHANGED <<open, strays, mute, revivals, kills>>, Launchable'
    PROVE  IInv'
<1>1. TypeOK'
  BY DEF IInv, TypeOK, SupType, Places, MgrType, Statuses, States
<1>2. StraysForCause'
  BY DEF IInv, StraysForCause
<1> QED BY <1>1, <1>2 DEF IInv

\* At the check there is nothing to launch, and at the end of the list nothing behind.
LEMMA NothingAhead ==
    ASSUME sup'.at = "check" \/ (sup'.at = "stop" /\ sup'.i = Len(Order))
    PROVE  Launchable'
BY Lists DEF Launchable

LEMMA LaunchableDead ==
    ASSUME sup'.at = "dead", \A e \in Engines : child'[e] = "none"
    PROVE  Launchable'
BY DEF Launchable

LEMMA RestartSteps ==
    ASSUME IInv, NEW status \in Statuses,
           NEW proc \in {"none", "exit0", "killed", "crash"},
           proc = "crash" => status = "crashed",
           sup.at = "check", Restart(Turn, status, proc), Keep, UNCHANGED faults
    PROVE  IInv'
<1> USE Lists DEF Keep
<1>1. /\ Turn \in Engines /\ sup.i \in 1..Len(Order) /\ sup \in SupType
      /\ mgr \in MgrType /\ child \in [Engines -> States] /\ faults \in 0..MaxFaults
  BY TypeParts DEF IInv, SupType, Turn
<1>2. child' = [child EXCEPT ![Turn] = proc] /\ child' \in [Engines -> States]
  BY <1>1 DEF Restart, States
<1>3. CASE status = "crashed" /\ mgr[Turn].count >= MaxRestarts
  <2>1. mgr' \in MgrType
    <3>1. [mgr[Turn] EXCEPT !.status = "disabled"] \in [status : Statuses, count : 0..MaxRestarts]
      BY <1>1 DEF MgrType, Statuses
    <3> QED BY <1>1, <1>3, <3>1 DEF Restart, MgrType
  <2>2. sup' \in SupType /\ Launchable'
    BY <1>1, <1>3, GiveUpAllGoes, NextTurnGoes, NothingAhead DEF Restart
  <2> QED BY <1>1, <1>2, <2>1, <2>2, PassCloses
<1>4. CASE ~(status = "crashed" /\ mgr[Turn].count >= MaxRestarts)
  <2>1. mgr[Turn].count \in 0..MaxRestarts
    BY <1>1 DEF MgrType
  <2>2. mgr[Turn].count + (IF status = "crashed" THEN 1 ELSE 0) \in 0..MaxRestarts
    BY <1>4, <2>1
  <2>3. mgr' = [mgr EXCEPT ![Turn] = [status |-> status,
                  count |-> mgr[Turn].count + IF status = "crashed" THEN 1 ELSE 0]]
        /\ Goto("delay", sup.i)
    BY <1>1, <1>4 DEF Restart, MgrType
  <2>4. mgr' \in MgrType /\ mgr'[Turn].status = status
    BY <1>1, <2>2, <2>3 DEF MgrType
  <2>5. sup' \in SupType /\ sup'.at = "delay" /\ sup'.i = sup.i
    BY <1>1, <2>3, GotoGoes DEF Places
  <2>6. Launchable'
    <3>1. Turn' = Turn /\ child'[Turn] = proc
      BY <1>1, <1>2, <2>5 DEF Turn
    <3> QED BY <2>4, <2>5, <3>1 DEF Launchable
  <2> QED BY <1>1, <1>2, <2>4, <2>5, <2>6, PassCloses
<1> QED BY <1>3, <1>4

\* A launch keeps the types of what it writes.
LEMMA LaunchType ==
    ASSUME IInv, NEW e \in Engines, NEW ok \in BOOLEAN, Launch(e, ok)
    PROVE  /\ mgr' \in MgrType /\ child' \in [Engines -> States] /\ faults' \in 0..MaxFaults
           /\ \A f \in Engines : f # e => child'[f] = child[f]
           /\ ~ok => child' = child
<1>1. mgr \in MgrType /\ child \in [Engines -> States] /\ faults \in 0..MaxFaults
  BY TypeParts DEF IInv
<1>2. mgr' \in MgrType
  BY <1>1 DEF Launch, MgrType, Statuses
<1>3. child' \in [Engines -> States] /\ \A f \in Engines : f # e => child'[f] = child[f]
  BY <1>1 DEF Launch, States
<1>4. faults' \in 0..MaxFaults
  BY <1>1, Lists DEF Launch, Fault
<1>5. ~ok => child' = child
  BY <1>1 DEF Launch
<1> QED BY <1>2, <1>3, <1>4, <1>5

LEMMA PassSteps == ASSUME IInv, Pass PROVE IInv'
<1> USE Lists DEF Keep
<1>0. /\ Turn \in Engines /\ sup.i \in 1..Len(Order) /\ sup \in SupType
      /\ mgr \in MgrType /\ child \in [Engines -> States] /\ TypeOK
      /\ faults \in 0..MaxFaults
  BY TypeParts DEF IInv, SupType, Turn
<1>1. CASE BootNext
  <2> PICK ok \in BOOLEAN :
        /\ Launch(Turn, ok)
        /\ sup' = IF ~ok /\ Turn = Core THEN Dead
                  ELSE IF sup.i = Len(Order) THEN [sup EXCEPT !.at = "check", !.i = 1]
                  ELSE [sup EXCEPT !.i = @ + 1]
    BY <1>1 DEF BootNext
  <2>1. /\ mgr' \in MgrType /\ child' \in [Engines -> States] /\ faults' \in 0..MaxFaults
        /\ \A f \in Engines : f # Turn => child'[f] = child[f]
        /\ ~ok => child' = child
    BY <1>0, LaunchType
  <2>2. \A j \in sup.i..Len(Order) : child[Order[j]] = "none"
    BY <1>1 DEF BootNext, At, IInv, Launchable
  <2>3. sup' \in SupType
    <3>1. Dead \in SupType
      BY DEF Dead, Place, SupType, Places
    <3>2. [sup EXCEPT !.at = "check", !.i = 1] \in SupType
      <4>1. 1 \in 1..Len(Order) /\ "check" \in Places
        BY DEF Places
      <4> QED BY <1>0, <4>1 DEF SupType
    <3>3. sup.i # Len(Order) => [sup EXCEPT !.i = @ + 1] \in SupType
      <4>1. sup.i # Len(Order) => sup.i + 1 \in 1..Len(Order)
        BY <1>0
      <4> QED BY <1>0, <4>1 DEF SupType
    <3> QED BY <3>1, <3>2, <3>3
  <2>4. CASE ~ok /\ Turn = Core
    <3>1. sup.i = 1
      BY <1>0, <2>4 DEF Turn
    <3>2. \A e \in Engines : child[e] = "none"
      BY <2>2, <3>1 DEF Engines
    <3>3. sup'.at = "dead"
      BY <2>4 DEF Dead, Place
    <3> QED BY <1>1, <2>1, <2>3, <2>4, <3>2, <3>3, LaunchableDead, PassCloses
            DEF BootNext
  <2>5. CASE ~(~ok /\ Turn = Core) /\ sup.i = Len(Order)
    <3>1. sup'.at = "check"
      BY <1>0, <2>5 DEF SupType
    <3> QED BY <1>1, <2>1, <2>3, <3>1, NothingAhead, PassCloses DEF BootNext
  <2>6. CASE ~(~ok /\ Turn = Core) /\ sup.i # Len(Order)
    <3>1. sup'.at = "boot" /\ sup'.i = sup.i + 1
      BY <1>0, <1>1, <2>6 DEF SupType, BootNext, At
    <3>2. \A j \in (sup.i + 1)..Len(Order) : /\ j \in sup.i..Len(Order) /\ Order[j] \in Engines
                                             /\ Order[j] # Turn
      BY <1>0, SupervisorAssumption DEF Turn
    <3>3. Launchable'
      BY <2>1, <2>2, <3>1, <3>2 DEF Launchable
    <3> QED BY <1>1, <2>1, <2>3, <3>3, PassCloses DEF BootNext
  <2> QED BY <2>4, <2>5, <2>6
<1>2. CASE CheckAlive
  <2>1. mgr' \in MgrType
    <3>1. [mgr EXCEPT ![Turn].count = 0] \in MgrType
      <4>1. [mgr[Turn] EXCEPT !.count = 0] \in [status : Statuses, count : 0..MaxRestarts]
        BY <1>0 DEF MgrType
      <4> QED BY <1>0, <4>1 DEF MgrType
    <3> QED BY <1>0, <1>2, <3>1 DEF CheckAlive
  <2>2. sup' \in SupType /\ Launchable'
    BY <1>0, <1>2, NextTurnGoes, NothingAhead DEF CheckAlive
  <2> QED BY <1>0, <1>2, <2>1, <2>2, PassCloses DEF CheckAlive
<1>3. CASE CheckHung
  BY <1>0, <1>3, RestartSteps DEF CheckHung, InPass, At, Statuses
<1>4. CASE CheckEnded
  <2> USE DEF Statuses
  <2>0. sup.at = "check" /\ Keep /\ UNCHANGED faults
    BY <1>4 DEF CheckEnded, InPass, At
  <2>1. CASE child[Turn] = "none" /\ Restart(Turn, mgr[Turn].status, "none")
    <3>1. mgr[Turn].status \in Statuses
      BY <1>0 DEF MgrType
    <3> QED BY <2>0, <2>1, <3>1, RestartSteps
  <2>2. CASE child[Turn] \in {"exit0", "killed"} /\ Restart(Turn, "stopped", child[Turn])
    BY <2>0, <2>2, RestartSteps
  <2>3. CASE child[Turn] = "crash" /\ Restart(Turn, "crashed", "crash")
    BY <2>0, <2>3, RestartSteps
  <2>4. CASE child[Turn] = "exit3" /\ mgr' = [mgr EXCEPT ![Turn].status = "disabled"]
             /\ NextTurn /\ UNCHANGED child
    <3>1. mgr' \in MgrType
      BY <1>0, <2>4 DEF MgrType
    <3>2. sup' \in SupType /\ Launchable'
      BY <1>0, <2>4, NextTurnGoes, NothingAhead
    <3> QED BY <1>0, <2>0, <2>4, <3>1, <3>2, PassCloses
  <2> QED BY <1>4, <2>1, <2>2, <2>3, <2>4 DEF CheckEnded
<1>5. CASE Relaunch
  <2> PICK ok \in BOOLEAN : /\ Launch(Turn, ok)
                            /\ IF ~ok /\ Turn = Core THEN GiveUpAll ELSE NextTurn
    BY <1>5 DEF Relaunch
  <2>1. /\ mgr' \in MgrType /\ child' \in [Engines -> States] /\ faults' \in 0..MaxFaults
    BY <1>0, LaunchType
  <2>2. sup' \in SupType /\ Launchable'
    BY <1>0, GiveUpAllGoes, NextTurnGoes, NothingAhead
  <2> QED BY <1>0, <1>5, <2>1, <2>2, PassCloses DEF Relaunch
<1>6. CASE EndPasses
  <2>1. sup' \in SupType /\ Launchable'
    BY <1>0, <1>6, GiveUpAllGoes, NothingAhead DEF EndPasses
  <2> QED BY <1>0, <1>6, <2>1, PassCloses DEF EndPasses
<1>7. CASE StopNext
  <2>1. mgr' \in MgrType /\ child' = [child EXCEPT ![Turn] = "none"]
        /\ child' \in [Engines -> States]
    BY <1>0, <1>7 DEF StopNext, MgrType, Statuses, States
  <2>2. \A j \in sup.i..Len(Order) : child'[Order[j]] = "none"
    <3>1. \A j \in (sup.i + 1)..Len(Order) : child[Order[j]] = "none"
      BY <1>7 DEF StopNext, At, IInv, Launchable
    <3>2. \A j \in sup.i..Len(Order) : j = sup.i \/ j \in (sup.i + 1)..Len(Order)
      BY <1>0
    <3>3. \A j \in sup.i..Len(Order) : Order[j] \in Engines
      BY <1>0
    <3> QED BY <1>0, <2>1, <3>1, <3>2, <3>3 DEF Turn
  <2>3. CASE sup.i = 1
    <3>1. \A e \in Engines : child'[e] = "none"
      BY <2>2, <2>3 DEF Engines
    <3>2. sup' \in SupType /\ sup'.at = "dead" /\ heartbeat' = "none"
      <4>1. Dead \in SupType /\ Dead.at = "dead"
        BY DEF Dead, Place, SupType, Places
      <4> QED BY <1>7, <2>3, <4>1 DEF StopNext
    <3> QED BY <1>0, <1>7, <2>1, <3>1, <3>2, LaunchableDead, PassCloses DEF StopNext
  <2>4. CASE sup.i # 1
    <3>1. sup.i - 1 \in 1..Len(Order) /\ (sup.i - 1) + 1 = sup.i
      BY <1>0, <2>4
    <3>2. sup' \in SupType /\ sup'.at = "stop" /\ sup'.i = sup.i - 1
      BY <1>0, <1>7, <2>4, <3>1, GotoGoes DEF StopNext, Places
    <3>3. Launchable'
      BY <2>2, <3>1, <3>2 DEF Launchable
    <3> QED BY <1>0, <1>7, <2>1, <2>4, <3>2, <3>3, PassCloses DEF StopNext
  <2> QED BY <2>3, <2>4
<1> QED BY <1>1, <1>2, <1>3, <1>4, <1>5, <1>6, <1>7 DEF Pass
------------------------------------------------------------------------------
(* The watchdog                                                              *)

\* A kill adds one stray of an engine at most, and one kill.
LEMMA KilledStep ==
    ASSUME IInv, Killed, UNCHANGED <<open, heartbeat, revivals>>, faults' \in 0..MaxFaults
    PROVE  IInv'
<1> USE Lists
<1>1. \A e \in Engines : strays'[e] \in Nat /\ strays'[e] <= strays[e] + 1
  BY DEF Killed, IInv, TypeOK
<1>2. StraysForCause'
  BY <1>1 DEF Killed, IInv, TypeOK, StraysForCause
<1>3. mute' \in 0..strays'[Core]
  BY DEF Killed, IInv, TypeOK, Alive
<1>4. TypeOK'
  BY <1>1, <1>3 DEF Killed, Dead, Place, NoChild, IInv, TypeOK
<1>5. Launchable'
  BY DEF Killed, Dead, Place, NoChild, Launchable
<1> QED BY <1>2, <1>4, <1>5 DEF IInv

LEMMA WatchdogSteps ==
    ASSUME IInv, \/ SupervisorKilled \/ SupervisorSticks \/ Revive \/ HealMissing \/ Terminate
                 \/ HealSupervisor \/ MarketCloses
    PROVE  IInv'
<1> USE Lists DEF Fault, Keep
<1>1. CASE SupervisorKilled
  BY <1>1, KilledStep DEF SupervisorKilled, IInv, TypeOK
<1>2. CASE SupervisorSticks
  <2>1. sup \in SupType /\ mgr \in MgrType /\ child \in [Engines -> States]
        /\ faults \in 0..MaxFaults
    BY TypeParts DEF IInv
  <2>2. PICK b \in BOOLEAN : sup' = [sup EXCEPT !.stuck = b]
    BY <1>2 DEF SupervisorSticks, Stick, Unstick
  <2>3. sup' \in SupType /\ sup'.at = sup.at /\ sup'.i = sup.i
    BY <2>1, <2>2 DEF SupType
  <2>4. mgr' = mgr /\ child' = child /\ faults' \in 0..MaxFaults
    BY <1>2, <2>1 DEF SupervisorSticks, Stick, Unstick
  <2>5. Launchable'
    BY <2>3, <2>4 DEF IInv, Launchable, Turn
  <2> QED BY <1>2, <2>1, <2>3, <2>4, <2>5, PassCloses DEF SupervisorSticks
<1>3. CASE Revive \/ HealMissing
  <2>1. NewSupervisor /\ revivals' \in 0..MaxRevivals
    BY <1>3 DEF Revive, HealMissing, NewSupervisor, IInv, TypeOK
  <2>2. mgr' \in MgrType
    BY <2>1 DEF NewSupervisor, MgrType, Statuses
  <2>3. sup' \in SupType /\ sup'.at = "boot"
    BY <2>1 DEF NewSupervisor, Place, SupType, Places
  <2>4. TypeOK'
    BY <2>1, <2>2, <2>3, TypeParts DEF NewSupervisor, IInv, TypeOK, SupType, Places, MgrType,
                                       Statuses
  <2>5. StraysForCause'
    BY <2>1 DEF NewSupervisor, IInv, StraysForCause
  <2>6. \A e \in Engines : child'[e] = "none"
    BY <2>1 DEF NewSupervisor, IInv, Launchable
  <2>7. Launchable'
    BY <2>3, <2>6 DEF Launchable, SupType, Places
  <2> QED BY <2>4, <2>5, <2>7 DEF IInv
<1>4. CASE Terminate
  BY <1>4 DEF Terminate, IInv, TypeOK, StraysForCause, Launchable, Turn
<1>5. CASE HealSupervisor
  BY <1>5, KilledStep DEF HealSupervisor, IInv, TypeOK
<1>6. CASE MarketCloses
  BY <1>6 DEF MarketCloses, IInv, TypeOK, StraysForCause, Launchable, Turn
<1> QED BY <1>1, <1>2, <1>3, <1>4, <1>5, <1>6

LEMMA NextInv == IInv /\ [Next]_vars => IInv'
<1> SUFFICES ASSUME IInv, [Next]_vars PROVE IInv'
  OBVIOUS
<1>1. CASE UNCHANGED vars
  BY <1>1 DEF vars, IInv, TypeOK, StraysForCause, Launchable, Turn
<1> QED BY <1>1, Lists, EngineSteps, PassSteps, WatchdogSteps DEF Next

LEMMA Invariant == Spec => []IInv
BY InitInv, NextInv, PTL DEF Spec

(* For every list of engines, whatever crashes, hangs or is killed, and in   *)
(* whatever order: a process runs without a supervisor only because one was   *)
(* killed before it could stop, and then at most one of an engine.            *)
THEOREM StraysHaveCause == Spec => [](TypeOK /\ StraysForCause)
<1>1. IInv => TypeOK /\ StraysForCause
  BY DEF IInv
<1> QED BY <1>1, Invariant, PTL

LEMMA StepHolds ==
    ASSUME IInv, [Next]_vars, NEW e \in Engines, GivenUp(e)
    PROVE  child'[e] # "boot"
<1> USE Lists
<1>0. child \in [Engines -> {"none", "boot", "up", "hung", "exit0", "exit3", "crash",
                             "killed"}]
      /\ Turn \in Engines /\ child[e] \in {"exit3", "crash"}
  BY DEF IInv, TypeOK, Turn, GivenUp
<1>1. CASE Pass
  <2>1. CASE BootNext
    BY <1>0, <2>1 DEF BootNext, Launch, At, IInv, TypeOK, Launchable, Turn, GivenUp
  <2>2. CASE Relaunch
    BY <1>0, <2>2 DEF Relaunch, Launch, At, IInv, TypeOK, Launchable, Turn, GivenUp
  <2>3. CASE CheckHung \/ CheckEnded
    BY <1>0, <2>3 DEF CheckHung, CheckEnded, Restart
  <2>4. CASE CheckAlive \/ EndPasses \/ StopNext
    BY <1>0, <2>4 DEF CheckAlive, EndPasses, StopNext
  <2> QED BY <1>1, <2>1, <2>2, <2>3, <2>4 DEF Pass
<1>2. CASE \E f \in Engines : \/ Up(f) \/ Hang(f) \/ StrayExits(f) \/ HealEngine(f)
                              \/ \E code \in {"exit0", "exit3", "crash"} : Exit(f, code)
  BY <1>0, <1>2 DEF Up, Hang, StrayExits, HealEngine, Exit
<1>3. CASE SupervisorKilled \/ HealSupervisor
  BY <1>0, <1>3 DEF SupervisorKilled, HealSupervisor, Killed, NoChild
<1>4. CASE Age \/ SupervisorSticks \/ Revive \/ HealMissing \/ Terminate \/ MarketCloses
            \/ UNCHANGED vars
  BY <1>0, <1>4 DEF Age, SupervisorSticks, Revive, HealMissing, NewSupervisor, Terminate, MarketCloses, vars
<1> QED BY <1>1, <1>2, <1>3, <1>4 DEF Next

(* For every max_restarts: an engine that halted on its daily loss, or used   *)
(* up its restarts, is not started again by the supervisor that saw it end.   *)
THEOREM GivenUpForGood == Spec => GivenUpStaysDown
<1>1. IInv /\ [Next]_vars => [\A e \in Engines : GivenUp(e) => child'[e] # "boot"]_vars
  BY StepHolds
<1> QED BY <1>1, Invariant, PTL DEF Spec, GivenUpStaysDown
==============================================================================
