--------------------------- MODULE OrderWALProofs ---------------------------
(***************************************************************************)
(* What holds of OrderWAL for every set of tickers and every bound: its     *)
(* type invariant, that a restart loses no block, and that it implements    *)
(* DedupGate.  All three follow from one inductive invariant, IndInv.       *)
(***************************************************************************)
EXTENDS OrderWAL, TLAPS, WellFoundedInduction

(* An execution under way has a leg left; every leg makes at most one FILL.  *)
LegsOK ==
    \A c \in Cids :
        /\ fills[c] + legs[c] \in 0 .. 2
        /\ phase[c] \in {"queued", "ready", "posted", "working"} => legs[c] >= 1

(* An order that is not born has left no trace, and orders are born in       *)
(* increasing order.                                                         *)
UnbornOK ==
    \A c \in Cids : phase[c] = "unborn" =>
        /\ disk[c] = NoState /\ fills[c] = 0
        /\ c \notin keyed \cup closed \cup abandoned
        /\ \A d \in Cids : c < d => phase[d] = "unborn"

(* A recovery has orders to resolve only once it has started, and only such  *)
(* as exist.                                                                 *)
TodoOK ==
    \A p \in Procs, c \in Cids : todo[p][c] # NoState =>
        p \in recovering /\ phase[c] # "unborn"

(* The index in memory never holds a key that the file would not hold.       *)
ActiveOK ==
    \A k \in Keys : active[k] \notin closed \cup {NoCid} => active[k] \in Replayable(k)

(* The recovery of Core is still to come, or still has c before it.          *)
Ahead(c) == "Core" \in recovering => todo["Core"][c] # NoState

(* The index, or else the replay, holds the key of an open BUY: with that    *)
(* BUY, or with a later Options order under the same key, which the recovery *)
(* of Core cannot reach before the BUY.                                      *)
Guarded(t, c) ==
    /\ c \in Replayable(BuyKey(t))
    /\ \A d \in Cids : owner[d] = "Core" /\ key[d] = BuyKey(t) /\ phase[d] # "unborn" => d <= c
    /\ ~loaded => Ahead(c)
    /\ LET i == Index[BuyKey(t)]
       IN  i = c \/ (i \in Cids /\ c < i /\ owner[i] # "Core" /\ Ahead(c))

OpenOK == \A t \in Tickers : \A c \in Open(t) : Guarded(t, c)

IndInv == TypeOK /\ LegsOK /\ UnbornOK /\ TodoOK /\ ActiveOK /\ OpenOK

-----------------------------------------------------------------------------
(* The operators of the log                                                  *)

(* A set of orders that is not empty has a last one: what a replay chooses.  *)
LEMMA LastOfMax ==
    ASSUME NEW S \in SUBSET Cids, S # {}
    PROVE  LastOf(S) \in S /\ \A d \in S : d <= LastOf(S)
<1> DEFINE R == OpToRel(<, Nat)
           T == {MaxOrders - c : c \in S}
<1>1. T \subseteq Nat /\ T # {}
  <2>1. \A c \in S : MaxOrders - c \in Nat
    BY OrderWALAssumption DEF Cids
  <2> QED  BY <2>1
<1>2. PICK x \in T : \A y \in T : <<y, x>> \notin R
  <2> HIDE DEF R, T
  <2> IsWellFoundedOn(R, Nat)
    BY NatLessThanWellFounded DEF R
  <2> QED  BY <1>1, WFMin
<1>3. PICK c \in S : x = MaxOrders - c
  OBVIOUS
<1>4. ASSUME NEW d \in S PROVE d <= c
  <2>1. MaxOrders - d \in T /\ MaxOrders - d \in Nat /\ x \in Nat
    BY <1>1
  <2>2. ~(MaxOrders - d < x)
    BY <1>2, <2>1 DEF OpToRel
  <2> QED  BY <2>2, <1>3, OrderWALAssumption DEF Cids
<1> QED  BY <1>4 DEF LastOf

(* Every key of a replay, and of the index, holds an order or none.          *)
LEMMA IndexType ==
    ASSUME active \in [Keys -> Cids \cup {NoCid}], keyed \subseteq Cids
    PROVE  /\ Replay \in [Keys -> Cids \cup {NoCid}]
           /\ Index \in [Keys -> Cids \cup {NoCid}]
<1>1. ASSUME NEW k \in Keys PROVE LastOf(Replayable(k)) \in Cids \cup {NoCid}
  <2>1. CASE Replayable(k) = {}
    BY <2>1 DEF LastOf
  <2>2. CASE Replayable(k) # {}
    <3>1. Replayable(k) \in SUBSET Cids
      BY DEF Replayable
    <3> QED  BY <2>2, <3>1, LastOfMax
  <2> QED  BY <2>1, <2>2
<1> QED  BY <1>1 DEF Replay, Index

(* A line of any state about any order keeps the log well-typed.             *)
LEMMA LogType ==
    ASSUME LogTyped, NEW p, NEW c \in Cids, NEW s \in States, NEW ks, Log(p, c, s, ks)
    PROVE  LogTyped'
<1>1. Index \in [Keys -> Cids \cup {NoCid}]
  BY IndexType DEF LogTyped
<1>2. Indexed(c, s, ks) \in [Keys -> Cids \cup {NoCid}]
  BY <1>1 DEF Indexed
<1>3. OnDisk(c, s) \/ UNCHANGED <<disk, keyed, closed>>
  BY DEF Log, Written, WriteFailed
<1>4. disk' \in [Cids -> States] /\ keyed' \subseteq Cids /\ closed' \subseteq Cids
  BY <1>3 DEF OnDisk, LogTyped
<1>5. loaded' \in BOOLEAN /\ active' \in [Keys -> Cids \cup {NoCid}]
  BY <1>1, <1>2 DEF Log, Written, WriteFailed, Reindex, LogTyped
<1>6. faults' \in 0 .. MaxFaults
  BY OrderWALAssumption DEF Log, Written, WriteFailed, LogTyped
<1> QED  BY <1>4, <1>5, <1>6 DEF LogTyped

(* A recovery's verdict is always final, and says what the venue holds.      *)
LEMMA VerdictsFinal ==
    ASSUME NEW p, NEW s, NEW v \in {"none", "live", "filled"}, NEW w \in Verdicts(p, s, v)
    PROVE  w[1] \in Terminal /\ w[2] \in {"none", "live", "filled"}
BY DEF Verdicts, Terminal

-----------------------------------------------------------------------------
(* Type correctness                                                          *)

LEMMA InitType == Init => TypeOK /\ LegsOK
<1> SUFFICES ASSUME Init PROVE TypeOK /\ LegsOK
  OBVIOUS
<1> USE DEF Init
<1>1. LogTyped
  <2>1. faults \in 0 .. MaxFaults
    BY OrderWALAssumption
  <2>2. disk \in [Cids -> States] /\ active \in [Keys -> Cids \cup {NoCid}]
    BY DEF States
  <2> QED  BY <2>1, <2>2 DEF LogTyped
<1>2. CallTyped
  BY OrderWALAssumption DEF CallTyped, Phases
<1>3. RecTyped
  BY OrderWALAssumption DEF RecTyped, States, NoState
<1>4. LegsOK
  BY DEF LegsOK
<1> QED  BY <1>1, <1>2, <1>3, <1>4 DEF TypeOK

LEMMA NewOrderType ==
    ASSUME CallTyped, LegsOK, UnbornOK, NEW p \in Procs, NEW c \in Cids, NEW k \in Keys,
           NEW n \in 1 .. 2, NEW ph \in {"queued", "refused"}, IsNext(c), Create(p, c, k, n, ph)
    PROVE  CallTyped' /\ LegsOK'
<1>1. CallTyped'
  BY DEF CallTyped, Create, Phases
<1>2. LegsOK'
  BY DEF CallTyped, Create, LegsOK, UnbornOK, IsNext
<1> QED  BY <1>1, <1>2

(* The states that callers and recoveries write.                             *)
LEMMA LineStates ==
    {"INTENT", "SUBMITTED", "FILLED", "RECORDED", "FAILED"} \cup Terminal \subseteq States \ {NoState}
BY DEF States, Terminal, Pending, NoState

LEMMA AppendType ==
    ASSUME LogTyped, NEW c \in Cids, NEW s \in States, Append(c, s)
    PROVE  LogTyped'
BY LogType DEF Append

(* What the threads of a process do with an order.                           *)
LEMMA OrderStepType ==
    ASSUME TypeOK, LegsOK, NEW c \in Cids, OrderStep(c)
    PROVE  TypeOK' /\ LegsOK'
<1> USE DEF TypeOK
<1> USE DEF Goto, AtVenue, Phases
<1>0. LogTyped /\ CallTyped /\ RecTyped /\ (UNCHANGED recVars => RecTyped')
  BY DEF RecTyped, recVars
<1>1. CASE Post(c)
  <2>1. UNCHANGED logVars /\ UNCHANGED recVars
    BY <1>1 DEF Post
  <2>2. LogTyped'
    BY <1>0, <2>1 DEF LogTyped, logVars
  <2>3. CallTyped' /\ LegsOK'
    BY <1>0, <1>1 DEF Post, ToSubmit, CallTyped, LegsOK
  <2> QED  BY <1>0, <2>1, <2>2, <2>3
<1>2. CASE PostError(c)
  <2>1. (UNCHANGED logVars \/ Append(c, "FAILED")) /\ UNCHANGED recVars
    BY <1>2 DEF PostError
  <2>2. LogTyped'
    BY <1>0, <2>1, AppendType, LineStates DEF LogTyped, logVars
  <2>3. CallTyped' /\ LegsOK'
    BY <1>0, <1>2 DEF PostError, ToSubmit, CallTyped, LegsOK
  <2> QED  BY <1>0, <2>1, <2>2, <2>3
<1>3. CASE WriteSubmitted(c)
  <2>1. Append(c, "SUBMITTED") /\ UNCHANGED recVars
    BY <1>3 DEF WriteSubmitted
  <2>2. LogTyped'
    BY <1>0, <2>1, AppendType, LineStates
  <2>3. CallTyped' /\ LegsOK'
    BY <1>0, <1>3 DEF WriteSubmitted, CallTyped, LegsOK
  <2> QED  BY <1>0, <2>1, <2>2, <2>3
<1>4. CASE SeeFill(c)
  <2>1. Append(c, "FILLED") /\ UNCHANGED recVars
    BY <1>4 DEF SeeFill
  <2>2. LogTyped'
    BY <1>0, <2>1, AppendType, LineStates
  <2>3. legs[c] \in 1 .. 2 /\ fills[c] + 1 \in 0 .. 2
    BY <1>0, <1>4 DEF SeeFill, CallTyped, LegsOK
  <2>4. CallTyped'
    BY <1>0, <1>4, <2>3 DEF SeeFill, CallTyped
  <2>5. LegsOK'
    BY <1>0, <1>4, <2>3 DEF SeeFill, CallTyped, LegsOK
  <2> QED  BY <1>0, <2>1, <2>2, <2>4, <2>5
<1>5. CASE GiveUp(c)
  <2>1. (UNCHANGED logVars \/ Append(c, "FAILED")) /\ UNCHANGED recVars
    BY <1>5 DEF GiveUp
  <2>2. LogTyped'
    BY <1>0, <2>1, AppendType, LineStates DEF LogTyped, logVars
  <2>3. CallTyped' /\ LegsOK'
    BY <1>0, <1>5 DEF GiveUp, CallTyped, LegsOK
  <2> QED  BY <1>0, <2>1, <2>2, <2>3
<1>6. CASE Drop(c)
  <2>1. UNCHANGED logVars /\ UNCHANGED recVars
    BY <1>6 DEF Drop
  <2>2. LogTyped'
    BY <1>0, <2>1 DEF LogTyped, logVars
  <2>3. CallTyped' /\ LegsOK'
    BY <1>0, <1>6 DEF Drop, CallTyped, LegsOK
  <2> QED  BY <1>0, <2>1, <2>2, <2>3
<1>7. CASE ConsumeFill(c)
  <2>1. (UNCHANGED logVars \/ Append(c, "RECORDED")) /\ UNCHANGED recVars
    BY <1>7 DEF ConsumeFill
  <2>2. LogTyped'
    BY <1>0, <2>1, AppendType, LineStates DEF LogTyped, logVars
  <2>3. CallTyped' /\ LegsOK'
    BY <1>0, <1>7 DEF ConsumeFill, CallTyped, LegsOK
  <2> QED  BY <1>0, <2>1, <2>2, <2>3
<1> QED  BY <1>1, <1>2, <1>3, <1>4, <1>5, <1>6, <1>7 DEF OrderStep

(* What a process does at a crash and in its recovery.                       *)
LEMMA ProcStepType ==
    ASSUME TypeOK, LegsOK, NEW p \in Procs, Crash(p) \/ StartRecovery(p)
    PROVE  TypeOK' /\ LegsOK'
<1> USE DEF TypeOK
<1>1. CASE Crash(p)
  <2>1. LogTyped'
    BY <1>1 DEF Crash, LogTyped
  <2>2. CallTyped' /\ LegsOK'
    BY <1>1 DEF Crash, CallTyped, LegsOK, Phases
  <2>3. RecTyped'
    BY <1>1, OrderWALAssumption DEF Crash, RecTyped, States
  <2> QED  BY <2>1, <2>2, <2>3
<1>2. CASE StartRecovery(p)
  <2>1. LogTyped' /\ CallTyped' /\ LegsOK'
    BY <1>2 DEF StartRecovery, LogTyped, CallTyped, LegsOK, logVars, callVars
  <2>2. [c \in Cids |-> IF Incomplete(c) /\ (p = "Options" => c \in keyed /\ owner[c] = p)
                        THEN disk[c] ELSE NoState] \in [Cids -> States]
    BY DEF LogTyped, States
  <2>3. RecTyped'
    BY <1>2, <2>2 DEF StartRecovery, RecTyped
  <2> QED  BY <2>1, <2>3
<1> QED  BY <1>1, <1>2

LEMMA ResolveType ==
    ASSUME TypeOK, LegsOK, NEW p \in Procs, NEW c \in Cids, Resolve(p, c)
    PROVE  TypeOK' /\ LegsOK'
<1> USE DEF TypeOK
<1>1. PICK w \in Verdicts(p, todo[p][c], venue[c]) :
          /\ AtVenue(c, w[2])
          /\ \/ Written(p, c, w[1], KeysOf(c)) /\ UNCHANGED abandoned
             \/ WriteFailed(p, c, w[1]) /\ abandoned' = abandoned \cup {c}
  BY DEF Resolve
<1>2. w[1] \in Terminal /\ w[2] \in {"none", "live", "filled"}
  BY VerdictsFinal DEF CallTyped
<1>3. LogTyped'
  BY <1>1, <1>2, LogType, LineStates DEF Log
<1>4. CallTyped' /\ LegsOK'
  BY <1>1, <1>2 DEF Resolve, AtVenue, CallTyped, LegsOK
<1>5. RecTyped'
  BY <1>1 DEF Resolve, RecTyped, States
<1> QED  BY <1>3, <1>4, <1>5

(* The gate of Core and the intents that pass it by.                         *)
LEMMA IntentType ==
    ASSUME TypeOK, LegsOK, UnbornOK
    PROVE  /\ \A t \in Tickers : DedupBlocked(t) => TypeOK' /\ LegsOK'
           /\ \A t \in Tickers, c \in Cids : CheckAndIntent(t, c) => TypeOK' /\ LegsOK'
           /\ \A p \in Procs, k \in Keys, c \in Cids : Intent(p, k, c) => TypeOK' /\ LegsOK'
<1> USE DEF TypeOK
<1>0. UNCHANGED recVars => RecTyped'
  BY DEF RecTyped, recVars
<1>1. ASSUME NEW t \in Tickers, DedupBlocked(t) PROVE TypeOK' /\ LegsOK'
  <2>1. LogTyped'
    BY <1>1, IndexType DEF DedupBlocked, Reindex, LogTyped
  <2>2. CallTyped' /\ LegsOK'
    BY <1>1 DEF DedupBlocked, callVars, CallTyped, LegsOK
  <2> QED  BY <1>0, <1>1, <2>1, <2>2 DEF DedupBlocked
<1>2. ASSUME NEW t \in Tickers, NEW c \in Cids, CheckAndIntent(t, c) PROVE TypeOK' /\ LegsOK'
  <2>1. /\ Log("Core", c, "INTENT", {BuyKey(t)})
        /\ \E ph \in {"queued", "refused"} : Create("Core", c, BuyKey(t), 1, ph)
        /\ IsNext(c) /\ BuyKey(t) \in Keys
    BY <1>2 DEF CheckAndIntent, Log
  <2>2. LogTyped'
    BY <2>1, LogType, LineStates
  <2>3. CallTyped' /\ LegsOK'
    BY <2>1, NewOrderType, OrderWALAssumption
  <2> QED  BY <1>0, <2>1, <2>2, <2>3 DEF Create
<1>3. ASSUME NEW p \in Procs, NEW k \in Keys, NEW c \in Cids, Intent(p, k, c) PROVE TypeOK' /\ LegsOK'
  <2>1. LogTyped'
    BY <1>3, LogType, LineStates DEF Intent
  <2>2. CallTyped' /\ LegsOK'
    BY <1>3, NewOrderType DEF Intent
  <2> QED  BY <1>0, <1>3, <2>1, <2>2 DEF Intent, Create
<1> QED  BY <1>1, <1>2, <1>3

-----------------------------------------------------------------------------
(* Effects of the steps                                                      *)

(* One line touches one order; a terminal one that is written closes it.     *)
LEMMA LogEffect ==
    ASSUME LogTyped, NEW p, NEW c \in Cids, NEW s \in States \ {NoState}, NEW ks, Log(p, c, s, ks)
    PROVE  /\ \A d \in Cids : d # c => disk'[d] = disk[d]
           /\ keyed \subseteq keyed' /\ keyed' \subseteq keyed \cup {c}
           /\ closed \subseteq closed' /\ closed' \subseteq closed \cup {c}
           /\ c \notin closed' => \/ disk'[c] = disk[c]
                                  \/ disk'[c] \in Pending
           /\ Written(p, c, s, ks) => disk'[c] = s /\ (s \in Terminal => c \in closed')
<1>1. OnDisk(c, s) \/ UNCHANGED <<disk, keyed, closed>>
  BY DEF Log, Written, WriteFailed
<1>2. Written(p, c, s, ks) => OnDisk(c, s)
  BY DEF Written
<1>3. OnDisk(c, s) => disk'[c] = s /\ (c \notin closed' => s \in Pending)
  BY DEF OnDisk, LogTyped, States
<1>4. /\ \A d \in Cids : d # c => disk'[d] = disk[d]
      /\ keyed \subseteq keyed' /\ keyed' \subseteq keyed \cup {c}
      /\ closed \subseteq closed' /\ closed' \subseteq closed \cup {c}
  BY <1>1 DEF OnDisk, LogTyped
<1>5. OnDisk(c, s) => (s \in Terminal => c \in closed')
  BY DEF OnDisk
<1> QED  BY <1>1, <1>2, <1>3, <1>4, <1>5

(* A thread writes at most one line about its order, never an INTENT, and    *)
(* only of an order that exists.                                             *)
LEMMA OrderStepEffect ==
    ASSUME TypeOK, UnbornOK, NEW c \in Cids, OrderStep(c)
    PROVE  /\ phase[c] # "unborn"
           /\ \A d \in Cids : \/ phase'[d] = phase[d]
                              \/ d = c /\ phase[d] # "refused" /\ phase'[d] \notin {"unborn", "refused"}
           /\ \A d \in Cids : d # c => fills'[d] = fills[d]
           /\ UNCHANGED <<owner, key, recVars>>
           /\ \/ UNCHANGED logVars
              \/ \E s \in {"SUBMITTED", "FILLED", "RECORDED", "FAILED"} : Append(c, s)
<1> USE DEF TypeOK, CallTyped, Goto, AtVenue
<1>1. CASE Post(c)
  BY <1>1 DEF Post, ToSubmit
<1>2. CASE PostError(c)
  BY <1>2 DEF PostError, ToSubmit
<1>3. CASE WriteSubmitted(c)
  BY <1>3 DEF WriteSubmitted
<1>4. CASE SeeFill(c)
  BY <1>4 DEF SeeFill
<1>5. CASE GiveUp(c)
  BY <1>5 DEF GiveUp
<1>6. CASE Drop(c)
  BY <1>6 DEF Drop
<1>7. CASE ConsumeFill(c)
  BY <1>7 DEF ConsumeFill, UnbornOK
<1> QED  BY <1>1, <1>2, <1>3, <1>4, <1>5, <1>6, <1>7 DEF OrderStep

(* A turn of a recovery writes one terminal line, and a turn whose write     *)
(* fails abandons its order.                                                 *)
LEMMA ResolveEffect ==
    ASSUME TypeOK, TodoOK, NEW p \in Procs, NEW c \in Cids, Resolve(p, c)
    PROVE  /\ phase[c] # "unborn" /\ p \in recovering
           /\ UNCHANGED <<owner, key, phase, fills, recovering>>
           /\ \A q \in Procs, d \in Cids : IF q = p /\ d = c THEN todo'[q][d] = NoState
                                                             ELSE todo'[q][d] = todo[q][d]
           /\ \A d \in Cids : d < c => todo[p][d] = NoState
           /\ \E s \in Terminal : Log(p, c, s, KeysOf(c))
           /\ abandoned' \in {abandoned, abandoned \cup {c}}
           /\ c \in closed' \cup abandoned'
<1>1. PICK w \in Verdicts(p, todo[p][c], venue[c]) :
          \/ Written(p, c, w[1], KeysOf(c)) /\ UNCHANGED abandoned
          \/ WriteFailed(p, c, w[1]) /\ abandoned' = abandoned \cup {c}
  BY DEF Resolve
<1>2. w[1] \in Terminal
  BY VerdictsFinal DEF TypeOK, CallTyped
<1>3. Log(p, c, w[1], KeysOf(c))
  BY <1>1 DEF Log
<1>4. c \in closed' \cup abandoned'
  BY <1>1, <1>2, <1>3, LogEffect, LineStates DEF TypeOK
<1>5. phase[c] # "unborn" /\ p \in recovering
  BY DEF Resolve, TodoOK
<1> QED  BY <1>1, <1>2, <1>3, <1>4, <1>5 DEF Resolve, TypeOK, RecTyped

-----------------------------------------------------------------------------
(* Unborn orders and the recovery's list                                     *)

LEMMA UnbornStep ==
    ASSUME TypeOK, LegsOK, UnbornOK, TodoOK, Next
    PROVE  UnbornOK' /\ TodoOK'
<1> USE DEF TypeOK
<1>1. ASSUME NEW t \in Tickers, DedupBlocked(t) PROVE UnbornOK' /\ TodoOK'
  BY <1>1 DEF DedupBlocked, callVars, recVars, UnbornOK, TodoOK
<1>2. ASSUME NEW p \in Procs, NEW k \in Keys, NEW c \in Cids, NEW n, NEW ph \in Phases \ {"unborn"},
             NEW ks, IsNext(c), Log(p, c, "INTENT", ks), Create(p, c, k, n, ph)
      PROVE  UnbornOK' /\ TodoOK'
  <2>0. /\ \A d \in Cids : d # c => disk'[d] = disk[d]
        /\ keyed' \subseteq keyed \cup {c} /\ closed' \subseteq closed \cup {c}
    BY <1>2, LogEffect, LineStates
  <2>1. /\ \A d \in Cids : d # c => disk'[d] = disk[d] /\ phase'[d] = phase[d]
        /\ fills' = fills /\ phase'[c] # "unborn" /\ UNCHANGED recVars
        /\ keyed' \subseteq keyed \cup {c} /\ closed' \subseteq closed \cup {c}
    BY <1>2, <2>0 DEF Create, CallTyped
  <2>2. UnbornOK'
    <3> SUFFICES ASSUME NEW d \in Cids, phase'[d] = "unborn"
                 PROVE  /\ disk'[d] = NoState /\ fills'[d] = 0
                        /\ d \notin keyed' \cup closed' \cup abandoned'
                        /\ \A e \in Cids : d < e => phase'[e] = "unborn"
      BY DEF UnbornOK
    <3>1. d # c /\ phase[d] = "unborn" /\ ~(d < c)
      BY <2>1, <1>2 DEF IsNext
    <3> QED  BY <2>1, <3>1 DEF UnbornOK, recVars
  <2>3. TodoOK'
    BY <2>1 DEF TodoOK, recVars
  <2> QED  BY <2>2, <2>3
<1>3. ASSUME NEW t \in Tickers, NEW c \in Cids, CheckAndIntent(t, c) PROVE UnbornOK' /\ TodoOK'
  <2>1. /\ Log("Core", c, "INTENT", {BuyKey(t)}) /\ IsNext(c) /\ BuyKey(t) \in Keys
        /\ \E ph \in {"queued", "refused"} : Create("Core", c, BuyKey(t), 1, ph)
    BY <1>3 DEF CheckAndIntent, Log
  <2> QED  BY <1>2, <2>1, OrderWALAssumption DEF Phases
<1>4. ASSUME NEW p \in Procs, NEW k \in Keys, NEW c \in Cids, Intent(p, k, c) PROVE UnbornOK' /\ TodoOK'
  BY <1>2, <1>4 DEF Intent, Phases
<1>5. ASSUME NEW c \in Cids, OrderStep(c) PROVE UnbornOK' /\ TodoOK'
  <2>1. /\ \A d \in Cids : d # c => disk'[d] = disk[d] /\ fills'[d] = fills[d]
        /\ keyed' \subseteq keyed \cup {c} /\ closed' \subseteq closed \cup {c}
    BY <1>5, OrderStepEffect, LogEffect, LineStates DEF Append, logVars
  <2>2. /\ phase[c] # "unborn" /\ \A d \in Cids : (phase[d] = "unborn") <=> (phase'[d] = "unborn")
        /\ UNCHANGED recVars
    BY <1>5, OrderStepEffect
  <2> QED  BY <2>1, <2>2 DEF UnbornOK, TodoOK, recVars
<1>6. ASSUME NEW p \in Procs, Crash(p) PROVE UnbornOK' /\ TodoOK'
  <2>1. \A d \in Cids : (phase[d] = "unborn") <=> (phase'[d] = "unborn")
    BY <1>6 DEF Crash, Alive, CallTyped
  <2>2. \A d \in Cids : fills'[d] \in {0, fills[d]}
    BY <1>6 DEF Crash, CallTyped
  <2>3. UnbornOK'
    BY <1>6, <2>1, <2>2 DEF Crash, UnbornOK
  <2>4. TodoOK'
    BY <1>6, <2>1 DEF Crash, TodoOK, RecTyped
  <2> QED  BY <2>3, <2>4
<1>7. ASSUME NEW p \in Procs, StartRecovery(p) PROVE UnbornOK' /\ TodoOK'
  <2>1. UnbornOK'
    BY <1>7 DEF StartRecovery, UnbornOK, logVars, callVars
  <2>2. \A c \in Cids : Incomplete(c) => phase[c] # "unborn"
    BY DEF Incomplete, Pending, UnbornOK, NoState
  <2>3. TodoOK'
    BY <1>7, <2>2 DEF StartRecovery, TodoOK, RecTyped, callVars
  <2> QED  BY <2>1, <2>3
<1>8. ASSUME NEW p \in Procs, NEW c \in Cids, Resolve(p, c) PROVE UnbornOK' /\ TodoOK'
  <2>1. /\ \A d \in Cids : d # c => disk'[d] = disk[d]
        /\ keyed' \subseteq keyed \cup {c} /\ closed' \subseteq closed \cup {c}
        /\ abandoned' \subseteq abandoned \cup {c}
    <3>1. PICK s \in Terminal : Log(p, c, s, KeysOf(c))
      BY <1>8, ResolveEffect
    <3>2. abandoned' \subseteq abandoned \cup {c}
      BY <1>8, ResolveEffect
    <3> QED  BY <3>1, <3>2, LogEffect, LineStates
  <2> QED  BY <1>8, <2>1, ResolveEffect DEF UnbornOK, TodoOK
<1> QED  BY <1>1, <1>3, <1>4, <1>5, <1>6, <1>7, <1>8 DEF Next

-----------------------------------------------------------------------------
(* The index in memory                                                       *)

(* What the index holds is closed, or in the file under that key.            *)
LEMMA IndexHolds ==
    ASSUME TypeOK, ActiveOK, NEW k \in Keys, Index[k] \notin closed \cup {NoCid}
    PROVE  Index[k] \in Replayable(k)
<1>1. CASE loaded
  BY <1>1 DEF Index, ActiveOK
<1>2. CASE ~loaded
  <2>1. Index[k] = LastOf(Replayable(k))
    BY <1>2 DEF Index, Replay
  <2>2. Replayable(k) # {} /\ Replayable(k) \in SUBSET Cids
    BY <2>1 DEF LastOf, Replayable, TypeOK, LogTyped
  <2> QED  BY <2>1, <2>2, LastOfMax
<1> QED  BY <1>1, <1>2

LEMMA LineActive ==
    ASSUME TypeOK, ActiveOK, NEW p, NEW c \in Cids, NEW s \in States \ {NoState},
           Log(p, c, s, KeysOf(c)), key' = key
    PROVE  ActiveOK'
<1> SUFFICES ASSUME NEW k \in Keys, active'[k] \notin closed' \cup {NoCid}
             PROVE  active'[k] \in Replayable(k)'
  BY DEF ActiveOK
<1>1. active'[k] \in {active[k], Index[k]}
  BY DEF Log, Written, WriteFailed, Reindex, Indexed, KeysOf
<1>2. active'[k] \in Replayable(k)
  BY <1>1, IndexHolds, LogEffect DEF ActiveOK, TypeOK
<1> QED  BY <1>2, LogEffect DEF Replayable, Incomplete, TypeOK, LogTyped

LEMMA IntentActive ==
    ASSUME TypeOK, ActiveOK, UnbornOK, NEW p, NEW c \in Cids, NEW k0 \in Keys, NEW n, NEW ph,
           IsNext(c), Log(p, c, "INTENT", {k0}), Create(p, c, k0, n, ph)
    PROVE  ActiveOK'
<1> SUFFICES ASSUME NEW k \in Keys, active'[k] \notin closed' \cup {NoCid}
             PROVE  active'[k] \in Replayable(k)'
  BY DEF ActiveOK
<1>1. CASE active'[k] \in {active[k], Index[k]}
  <2>1. active'[k] \in Replayable(k)
    BY <1>1, IndexHolds, LogEffect, LineStates DEF ActiveOK, TypeOK
  <2>2. active'[k] # c
    BY <2>1 DEF Replayable, IsNext, UnbornOK
  <2> QED  BY <2>1, <2>2, LogEffect, LineStates DEF Replayable, Incomplete, Create, TypeOK, LogTyped, CallTyped
<1>2. CASE active'[k] \notin {active[k], Index[k]}
  <2>1. Written(p, c, "INTENT", {k0}) /\ k = k0 /\ active'[k] = c
    BY <1>2 DEF Log, Written, WriteFailed, Reindex, Indexed, Terminal
  <2>2. c \in keyed' /\ disk'[c] = "INTENT" /\ key'[c] = k
    BY <2>1 DEF Written, OnDisk, Create, TypeOK, LogTyped, CallTyped
  <2> QED  BY <2>1, <2>2 DEF Replayable, Incomplete, Pending
<1> QED  BY <1>1, <1>2

LEMMA ActiveStep ==
    ASSUME TypeOK, LegsOK, UnbornOK, TodoOK, ActiveOK, Next
    PROVE  ActiveOK'
<1> USE DEF TypeOK
<1>1. ASSUME NEW t \in Tickers, DedupBlocked(t) PROVE ActiveOK'
  BY <1>1, IndexHolds DEF DedupBlocked, Reindex, callVars, ActiveOK, Replayable, Incomplete
<1>2. ASSUME NEW t \in Tickers, NEW c \in Cids, CheckAndIntent(t, c) PROVE ActiveOK'
  BY <1>2, IntentActive DEF CheckAndIntent, Log
<1>3. ASSUME NEW p \in Procs, NEW k \in Keys, NEW c \in Cids, Intent(p, k, c) PROVE ActiveOK'
  BY <1>3, IntentActive DEF Intent
<1>4. ASSUME NEW c \in Cids, OrderStep(c) PROVE ActiveOK'
  <2>1. key' = key /\ (UNCHANGED logVars \/ \E s \in {"SUBMITTED", "FILLED", "RECORDED", "FAILED"} : Append(c, s))
    BY <1>4, OrderStepEffect
  <2>2. CASE UNCHANGED logVars
    BY <2>1, <2>2 DEF logVars, ActiveOK, Replayable, Incomplete
  <2>3. CASE \E s \in {"SUBMITTED", "FILLED", "RECORDED", "FAILED"} : Append(c, s)
    BY <2>1, <2>3, LineActive, LineStates DEF Append
  <2> QED  BY <2>1, <2>2, <2>3
<1>5. ASSUME NEW p \in Procs, Crash(p) \/ StartRecovery(p) PROVE ActiveOK'
  BY <1>5 DEF Crash, StartRecovery, logVars, callVars, ActiveOK, Replayable, Incomplete
<1>6. ASSUME NEW p \in Procs, NEW c \in Cids, Resolve(p, c) PROVE ActiveOK'
  BY <1>6, ResolveEffect, LineActive, LineStates
<1> QED  BY <1>1, <1>2, <1>3, <1>4, <1>5, <1>6 DEF Next

-----------------------------------------------------------------------------
(* Open orders guard their key                                               *)

LEMMA BuyKeys ==
    /\ \A t, u \in Tickers : BuyKey(t) = BuyKey(u) => t = u
    /\ \A t \in Tickers : BuyKey(t) \in Keys \cup {NoKey} => BuyKey(t) \in Keys
    /\ \A t \in Tickers : BuyKey(t).side = "BUY"
BY DEF BuyKey, NoKey

LEMMA OpenOrder ==
    ASSUME TypeOK, NEW t \in Tickers, NEW c \in Open(t)
    PROVE  /\ c \in Cids /\ owner[c] = "Core" /\ key[c] = BuyKey(t) /\ BuyKey(t) \in Keys
           /\ c \notin closed \cup abandoned /\ phase[c] \notin {"unborn", "refused"}
BY BuyKeys DEF Open, Admitted, TypeOK, CallTyped

(* An order is admitted only when it is created.                             *)
LEMMA SameAdmitted ==
    ASSUME UNCHANGED <<owner, key>>,
           \A d \in Cids : phase'[d] \in {"unborn", "refused"} <=> phase[d] \in {"unborn", "refused"}
    PROVE  Admitted' = Admitted
BY DEF Admitted

(* The index never holds an order that does not exist.                       *)
LEMMA IndexBorn ==
    ASSUME TypeOK, UnbornOK, ActiveOK, NEW k \in Keys, Index[k] # NoCid
    PROVE  Index[k] \in Cids /\ phase[Index[k]] # "unborn"
<1>1. Index[k] \in Cids
  BY IndexType DEF TypeOK, LogTyped
<1>2. CASE Index[k] \in closed
  BY <1>1, <1>2 DEF UnbornOK
<1>3. CASE Index[k] \notin closed
  BY <1>1, <1>3, IndexHolds DEF UnbornOK, Replayable
<1> QED  BY <1>1, <1>2, <1>3

(* A replay finds the key of an open BUY taken, by it or by something later. *)
LEMMA ReplayGuards ==
    ASSUME TypeOK', UnbornOK', NEW t \in Tickers, NEW c \in Cids, BuyKey(t) \in Keys, ~loaded',
           c \in Replayable(BuyKey(t))', Ahead(c)',
           \A d \in Cids : owner'[d] = "Core" /\ key'[d] = BuyKey(t) /\ phase'[d] # "unborn" => d <= c
    PROVE  Guarded(t, c)'
<1> DEFINE S == Replayable(BuyKey(t))'
<1>1. Index'[BuyKey(t)] = LastOf(S)
  BY DEF Index, Replay
<1>2. S \in SUBSET Cids /\ c \in S
  BY DEF Replayable, TypeOK, LogTyped
<1>3. LastOf(S) \in S /\ c <= LastOf(S)
  <2> HIDE DEF S
  <2> QED  BY <1>2, LastOfMax
<1>4. \A d \in S : key'[d] = BuyKey(t) /\ phase'[d] # "unborn"
  BY DEF Replayable, UnbornOK, TypeOK, LogTyped
<1>5. ASSUME LastOf(S) # c
      PROVE  LastOf(S) \in Cids /\ c < LastOf(S) /\ owner'[LastOf(S)] # "Core"
  <2> HIDE DEF S
  <2>1. LastOf(S) \in Cids /\ c \in Cids
    BY <1>2, <1>3
  <2>2. c < LastOf(S) /\ ~(LastOf(S) <= c)
    BY <1>3, <1>5, <2>1, OrderWALAssumption DEF Cids
  <2> QED  BY <1>3, <1>4, <2>1, <2>2
<1> QED  BY <1>1, <1>5 DEF Guarded

(* An order that stays open stays guarded when the index keeps its key as it *)
(* was, or when the index was lost and is replayed.                          *)
LEMMA StaysGuarded ==
    ASSUME TypeOK, UnbornOK, ActiveOK, TypeOK', UnbornOK',
           NEW t \in Tickers, NEW c \in Open(t), c \in Open(t)', Guarded(t, c),
           keyed \subseteq keyed', disk'[c] = disk[c] \/ disk'[c] \in Pending,
           \A d \in Cids : phase[d] # "unborn" => owner'[d] = owner[d] /\ key'[d] = key[d],
           \A d \in Cids : phase[d] = "unborn" /\ phase'[d] # "unborn" =>
               owner'[d] # "Core" \/ key'[d] # BuyKey(t),
           Ahead(c) \/ ~loaded' => Ahead(c)',
           loaded' => active'[BuyKey(t)] = Index[BuyKey(t)]
    PROVE  Guarded(t, c)'
<1> DEFINE k == BuyKey(t)
<1>1. c \in Cids /\ k \in Keys /\ phase[c] # "unborn" /\ key'[c] = k
  BY OpenOrder
<1>2. c \in Replayable(k)'
  BY <1>1 DEF Guarded, Replayable, Incomplete
<1>3. \A d \in Cids : owner'[d] = "Core" /\ key'[d] = k /\ phase'[d] # "unborn" => d <= c
  BY DEF Guarded
<1>4. CASE ~loaded'
  BY <1>1, <1>2, <1>3, <1>4, ReplayGuards
<1>5. CASE loaded'
  <2>1. Index'[k] = Index[k]
    BY <1>5 DEF Index
  <2>2. Index[k] # NoCid
    BY <1>1 DEF Guarded, NoCid, Cids
  <2>3. owner'[Index[k]] = owner[Index[k]]
    BY <1>1, <2>2, IndexBorn
  <2>4. Index[k] = c \/ (Index[k] \in Cids /\ c < Index[k] /\ owner'[Index[k]] # "Core" /\ Ahead(c)')
    BY <2>3 DEF Guarded
  <2> QED  BY <1>2, <1>3, <1>5, <2>1, <2>4 DEF Guarded
<1> QED  BY <1>4, <1>5

(* An INTENT passes the open orders by unless it is a BUY of their key.      *)
LEMMA IntentOpen ==
    ASSUME TypeOK, UnbornOK, ActiveOK, OpenOK, TypeOK', UnbornOK',
           NEW p \in Procs, NEW c \in Cids, NEW k \in Keys, NEW n, NEW ph \in {"queued", "refused"},
           IsNext(c), Log(p, c, "INTENT", {k}), Create(p, c, k, n, ph),
           NEW t \in Tickers, NEW e \in Open(t), p = "Core" => k # BuyKey(t)
    PROVE  e \in Open(t)' => Guarded(t, e)'
<1> SUFFICES ASSUME e \in Open(t)' PROVE Guarded(t, e)'
  OBVIOUS
<1>1. phase[e] # "unborn" /\ e # c /\ e \in Cids /\ BuyKey(t) \in Keys
  BY OpenOrder DEF IsNext
<1>2. disk'[e] = disk[e] /\ keyed \subseteq keyed'
  BY <1>1, LogEffect, LineStates DEF TypeOK
<1>3. \A d \in Cids : d # c => owner'[d] = owner[d] /\ key'[d] = key[d] /\ phase'[d] = phase[d]
  BY DEF Create, TypeOK, CallTyped
<1>4. phase[c] = "unborn" /\ owner'[c] = p /\ key'[c] = k
  BY DEF IsNext, Create, TypeOK, CallTyped
<1>5. Ahead(e)' <=> Ahead(e)
  BY DEF Create, recVars, Ahead
<1>6. ~loaded' => ~loaded
  BY DEF Log, Written, WriteFailed, Reindex
<1>7. loaded' => active'[BuyKey(t)] = Index[BuyKey(t)]
  <2>1. CASE p = "Core"
    BY <1>1, <2>1 DEF Log, Written, WriteFailed, Reindex, Indexed
  <2>2. CASE p # "Core"
    BY <2>2 DEF Log, Written, WriteFailed, Reindex, Index
  <2> QED  BY <2>1, <2>2
<1>8. Guarded(t, e)
  BY DEF OpenOK
<1>9. Ahead(e) \/ ~loaded' => Ahead(e)'
  BY <1>5, <1>6, <1>8 DEF Guarded
<1>10. \A d \in Cids : phase[d] = "unborn" /\ phase'[d] # "unborn" => owner'[d] # "Core" \/ key'[d] # BuyKey(t)
  BY <1>3, <1>4
<1>11. \A d \in Cids : phase[d] # "unborn" => owner'[d] = owner[d] /\ key'[d] = key[d]
  BY <1>3, <1>4
<1> QED  BY <1>2, <1>7, <1>8, <1>9, <1>10, <1>11, StaysGuarded

(* A later line about an order leaves the other open orders their key, and   *)
(* an order that it does not close its own.                                  *)
LEMMA LineOpen ==
    ASSUME TypeOK, UnbornOK, ActiveOK, OpenOK, TypeOK', UnbornOK',
           NEW p \in Procs, NEW c \in Cids, NEW s \in States \ {NoState}, Log(p, c, s, KeysOf(c)),
           UNCHANGED <<owner, key>>, \A d \in Cids : phase[d] = "unborn" <=> phase'[d] = "unborn",
           NEW t \in Tickers, NEW e \in Open(t), e \in Open(t)',
           Ahead(e) => Ahead(e)',
           p = "Core" /\ Index[BuyKey(t)] = c => e = c
    PROVE  Guarded(t, e)'
<1>1. phase[e] # "unborn" /\ e \in Cids /\ BuyKey(t) \in Keys /\ e \notin closed'
  BY OpenOrder DEF Open
<1>2. (disk'[e] = disk[e] \/ disk'[e] \in Pending) /\ keyed \subseteq keyed'
  BY <1>1, LogEffect DEF TypeOK
<1>3. ~loaded' => ~loaded
  BY DEF Log, Written, WriteFailed, Reindex
<1>4. Guarded(t, e)
  BY DEF OpenOK
<1>5. loaded' => active'[BuyKey(t)] = Index[BuyKey(t)]
  <2>1. CASE p # "Core"
    BY <2>1 DEF Log, Written, WriteFailed, Reindex, Index
  <2>2. CASE p = "Core" /\ Index[BuyKey(t)] # c
    BY <1>1, <2>2 DEF Log, Written, WriteFailed, Reindex, Indexed, KeysOf
  <2>3. CASE p = "Core" /\ Index[BuyKey(t)] = c
    <3>1. c \notin closed'
      BY <1>1, <2>3
    <3>2. Written(p, c, s, KeysOf(c)) => s \notin Terminal
      BY <3>1, LogEffect DEF TypeOK
    <3> QED  BY <1>1, <2>3, <3>2 DEF Log, Written, WriteFailed, Reindex, Indexed
  <2> QED  BY <2>1, <2>2, <2>3
<1>6. Ahead(e) \/ ~loaded' => Ahead(e)'
  BY <1>3, <1>4 DEF Guarded
<1> QED  BY <1>2, <1>4, <1>5, <1>6, StaysGuarded

LEMMA OpenStep ==
    ASSUME IndInv, TypeOK', UnbornOK', Next
    PROVE  OpenOK'
<1> USE DEF IndInv, TypeOK
<1> SUFFICES ASSUME NEW t \in Tickers, NEW e \in Open(t)' PROVE Guarded(t, e)'
  BY DEF OpenOK
<1>0. ASSUME e \in Open(t) PROVE Guarded(t, e) /\ phase[e] # "unborn" /\ BuyKey(t) \in Keys
  BY <1>0, OpenOrder DEF OpenOK
<1>1. ASSUME NEW u \in Tickers, DedupBlocked(u) PROVE Guarded(t, e)'
  <2>1. e \in Open(t)
    BY <1>1 DEF DedupBlocked, callVars, recVars, Open, Admitted
  <2>2. active'[BuyKey(t)] = Index[BuyKey(t)] /\ UNCHANGED <<disk, keyed, callVars, recVars>>
    BY <1>1 DEF DedupBlocked, Reindex
  <2>3. loaded' /\ ~loaded
    BY <1>1 DEF DedupBlocked, Reindex
  <2>4. Ahead(e)'
    BY <1>0, <2>1, <2>2, <2>3 DEF Guarded, Ahead, recVars
  <2> QED  BY <1>0, <2>1, <2>2, <2>4, StaysGuarded DEF callVars
<1>2. ASSUME NEW u \in Tickers, NEW c \in Cids, CheckAndIntent(u, c) PROVE Guarded(t, e)'
  <2>1. PICK ph \in {"queued", "refused"} : Create("Core", c, BuyKey(u), 1, ph)
    BY <1>2 DEF CheckAndIntent
  <2>2. Log("Core", c, "INTENT", {BuyKey(u)}) /\ IsNext(c) /\ BuyKey(u) \in Keys
    BY <1>2 DEF CheckAndIntent, Log
  <2>3. e = c \/ e \in Open(t)
    <3>1. closed \subseteq closed'
      BY <2>2, LogEffect, LineStates
    <3>2. abandoned' = abandoned /\ e \in Cids /\ (e # c => owner'[e] = owner[e]
                              /\ key'[e] = key[e] /\ phase'[e] = phase[e])
      BY <2>1 DEF Create, recVars, CallTyped, Open, Admitted
    <3> QED  BY <3>1, <3>2 DEF Open, Admitted
  <2>4. Open(u) = {}
    BY <1>2, OpenOrder DEF CheckAndIntent, OpenOK, Guarded, NoCid, Cids
  <2>5. CASE e # c
    BY <2>1, <2>2, <2>3, <2>4, <2>5, IntentOpen, BuyKeys, OrderWALAssumption
  <2>6. CASE e = c
    <3>1. /\ t = u /\ Written("Core", c, "INTENT", {BuyKey(u)}) /\ key'[c] = BuyKey(u)
          /\ owner'[c] = "Core"
      <4>1. /\ key'[c] = BuyKey(u) /\ key'[c] = BuyKey(t) /\ phase'[c] = ph /\ owner'[c] = "Core"
            /\ phase'[c] # "refused"
        BY <2>1, <2>6 DEF Create, Open, Admitted, CallTyped
      <4>2. Written("Core", c, "INTENT", {BuyKey(u)})
        BY <1>2, <4>1 DEF CheckAndIntent, Create, CallTyped
      <4> QED  BY <4>1, <4>2, BuyKeys
    <3>2. c \in Replayable(BuyKey(t))'
      BY <3>1 DEF Written, OnDisk, LogTyped, Replayable, Incomplete, Pending
    <3>3. ASSUME NEW d \in Cids, phase'[d] # "unborn" PROVE d <= c
      <4>1. d = c \/ phase[d] # "unborn"
        BY <2>1, <3>3 DEF Create, CallTyped
      <4>2. ~(c < d)
        BY <2>2, <4>1 DEF IsNext, UnbornOK
      <4> QED  BY <4>2, OrderWALAssumption DEF Cids
    <3>4. loaded' /\ Index'[BuyKey(t)] = c
      BY <2>2, <3>1 DEF Written, Reindex, Indexed, Terminal, Index
    <3> QED  BY <2>6, <3>2, <3>3, <3>4 DEF Guarded
  <2> QED  BY <2>5, <2>6
<1>3. ASSUME NEW p \in Procs, NEW k \in Keys, NEW c \in Cids, Intent(p, k, c) PROVE Guarded(t, e)'
  <2>1. PICK n \in 1 .. 2 : Create(p, c, k, n, "queued")
    BY <1>3 DEF Intent
  <2>2. Log(p, c, "INTENT", {k}) /\ IsNext(c) /\ (p = "Core" => k.side = "SELL")
    BY <1>3 DEF Intent
  <2>3. e \in Open(t)
    <3>1. e # c
      BY <2>1, <2>2, BuyKeys DEF Create, CallTyped, Open, Admitted
    <3>2. closed \subseteq closed'
      BY <2>2, LogEffect, LineStates
    <3>3. /\ abandoned' = abandoned /\ e \in Cids
          /\ owner'[e] = owner[e] /\ key'[e] = key[e] /\ phase'[e] = phase[e]
      BY <2>1, <3>1 DEF Create, recVars, CallTyped, Open, Admitted
    <3> QED  BY <3>2, <3>3 DEF Open, Admitted
  <2> QED  BY <2>1, <2>2, <2>3, IntentOpen, BuyKeys
<1>4. ASSUME NEW c \in Cids, OrderStep(c) PROVE Guarded(t, e)'
  <2>1. /\ \A d \in Cids : \/ phase'[d] = phase[d]
                           \/ d = c /\ phase[d] # "refused" /\ phase'[d] \notin {"unborn", "refused"}
        /\ phase[c] # "unborn" /\ UNCHANGED <<owner, key, recVars>>
    BY <1>4, OrderStepEffect
  <2>2. Admitted' = Admitted
    BY <2>1, SameAdmitted
  <2>3. Ahead(e)' <=> Ahead(e)
    BY <2>1 DEF Ahead, recVars
  <2>4. CASE UNCHANGED logVars
    <3>1. e \in Open(t)
      BY <2>1, <2>2, <2>4 DEF Open, logVars, recVars
    <3>2. ~loaded' => ~loaded
      BY <2>4 DEF logVars
    <3>3. loaded' => active'[BuyKey(t)] = Index[BuyKey(t)]
      BY <2>4 DEF logVars, Index
    <3> QED  BY <1>0, <2>1, <2>3, <2>4, <3>1, <3>2, <3>3, StaysGuarded DEF logVars, Guarded
  <2>5. CASE \E s \in {"SUBMITTED", "FILLED", "RECORDED", "FAILED"} : Append(c, s)
    <3>1. PICK s \in States \ {NoState} : Log(owner[c], c, s, KeysOf(c))
      BY <2>5, LineStates DEF Append
    <3>2. e \in Open(t)
      BY <2>1, <2>2, <3>1, LogEffect DEF Open, recVars
    <3>3. owner[c] = "Core" /\ Index[BuyKey(t)] = c => e = c
      BY <1>0, <3>2 DEF Guarded
    <3> QED  BY <2>1, <2>3, <3>1, <3>2, <3>3, LineOpen DEF CallTyped
  <2> QED  BY <1>4, <2>4, <2>5, OrderStepEffect
<1>5. ASSUME NEW p \in Procs, Crash(p) PROVE Guarded(t, e)'
  <2>1. \A d \in Cids : \/ phase'[d] = phase[d]
                         \/ {phase'[d], phase[d]} \cap {"unborn", "refused"} = {}
    BY <1>5 DEF Crash, Alive, CallTyped
  <2>2. UNCHANGED <<disk, keyed, closed, abandoned, owner, key>>
    BY <1>5 DEF Crash
  <2>3. e \in Open(t)
    BY <2>1, <2>2, SameAdmitted DEF Open
  <2>4. Ahead(e) => Ahead(e)'
    BY <1>5 DEF Crash, Ahead, RecTyped
  <2>5. p = "Core" => ~loaded' /\ Ahead(e)'
    BY <1>5 DEF Crash, Ahead
  <2>6. p # "Core" => loaded' = loaded /\ active' = active
    BY <1>5 DEF Crash, LogTyped
  <2>7. loaded' => active'[BuyKey(t)] = Index[BuyKey(t)]
    BY <2>5, <2>6 DEF Index
  <2>8. Ahead(e) \/ ~loaded' => Ahead(e)'
    BY <1>0, <2>3, <2>4, <2>5, <2>6 DEF Guarded
  <2> QED  BY <1>0, <2>1, <2>2, <2>3, <2>7, <2>8, StaysGuarded
<1>6. ASSUME NEW p \in Procs, StartRecovery(p) PROVE Guarded(t, e)'
  <2>1. UNCHANGED <<logVars, callVars, abandoned>>
    BY <1>6 DEF StartRecovery
  <2>2. e \in Open(t)
    BY <2>1 DEF Open, Admitted, logVars, callVars
  <2>3. Incomplete(e) /\ e \in Cids
    BY <1>0, <2>2 DEF Guarded, Replayable, Open, Admitted
  <2>4. p = "Core" => Ahead(e)'
    BY <1>6, <2>3 DEF StartRecovery, Ahead, RecTyped, Incomplete, Pending, NoState
  <2>5. p # "Core" => Ahead(e)' = Ahead(e)
    BY <1>6, OrderWALAssumption DEF StartRecovery, Ahead, RecTyped
  <2>6. loaded' => active'[BuyKey(t)] = Index[BuyKey(t)]
    BY <2>1 DEF logVars, Index
  <2>7. Ahead(e) \/ ~loaded' => Ahead(e)'
    BY <1>0, <2>1, <2>2, <2>4, <2>5 DEF Guarded, logVars
  <2> QED  BY <1>0, <2>1, <2>2, <2>6, <2>7, StaysGuarded DEF logVars, callVars
<1>7. ASSUME NEW p \in Procs, NEW c \in Cids, Resolve(p, c) PROVE Guarded(t, e)'
  <2>1. PICK s \in States \ {NoState} : Log(p, c, s, KeysOf(c))
    BY <1>7, ResolveEffect, LineStates
  <2>2. UNCHANGED <<owner, key, phase, recovering>> /\ c \in closed' \cup abandoned'
    BY <1>7, ResolveEffect
  <2>3. e \in Open(t) /\ e # c /\ e \in Cids
    BY <1>7, <2>1, <2>2, ResolveEffect, LogEffect DEF Open, Admitted
  <2>4. Ahead(e)' <=> Ahead(e)
    BY <1>7, <2>2, <2>3, ResolveEffect, OrderWALAssumption DEF Ahead
  <2>5. ASSUME p = "Core", Index[BuyKey(t)] = c PROVE FALSE
    <3>1. e < c /\ Ahead(e)
      BY <1>0, <2>3, <2>5 DEF Guarded
    <3>2. "Core" \in recovering /\ todo["Core"][e] = NoState
      BY <1>7, <2>3, <2>5, <3>1, ResolveEffect
    <3> QED  BY <3>1, <3>2 DEF Ahead
  <2> QED  BY <2>1, <2>2, <2>3, <2>4, <2>5, LineOpen
<1> QED  BY <1>1, <1>2, <1>3, <1>4, <1>5, <1>6, <1>7 DEF Next

-----------------------------------------------------------------------------
(* The theorems                                                              *)

LEMMA InitInv == Init => IndInv
<1> SUFFICES ASSUME Init PROVE IndInv
  OBVIOUS
<1>1. TypeOK /\ LegsOK
  BY InitType
<1>2. UnbornOK /\ TodoOK /\ ActiveOK
  BY DEF Init, UnbornOK, TodoOK, ActiveOK
<1>3. OpenOK
  BY DEF Init, OpenOK, Open, Admitted
<1> QED  BY <1>1, <1>2, <1>3 DEF IndInv

LEMMA NextInv == IndInv /\ [Next]_vars => IndInv'
<1> SUFFICES ASSUME IndInv, [Next]_vars PROVE IndInv'
  OBVIOUS
<1>1. CASE Next
  <2>1. TypeOK' /\ LegsOK'
    BY <1>1, IntentType, OrderStepType, ProcStepType, ResolveType DEF Next, IndInv
  <2>2. UnbornOK' /\ TodoOK'
    BY <1>1, UnbornStep DEF IndInv
  <2>3. ActiveOK'
    BY <1>1, ActiveStep DEF IndInv
  <2>4. OpenOK'
    BY <1>1, <2>1, <2>2, OpenStep
  <2> QED  BY <2>1, <2>2, <2>3, <2>4 DEF IndInv
<1>2. CASE UNCHANGED vars
  <2> USE <1>2 DEF IndInv, vars, logVars, callVars, recVars
  <2>1. TypeOK' /\ LegsOK' /\ UnbornOK' /\ TodoOK'
    BY DEF TypeOK, LogTyped, CallTyped, RecTyped, LegsOK, UnbornOK, TodoOK
  <2>2. ActiveOK'
    BY DEF ActiveOK, Replayable, Incomplete
  <2>3. OpenOK'
    <3>1. \A t \in Tickers : Open(t)' = Open(t)
      BY DEF Open, Admitted
    <3>2. \A k : Replayable(k)' = Replayable(k)
      BY DEF Replayable, Incomplete
    <3>3. Index' = Index
      BY <3>2 DEF Index, Replay
    <3>4. \A t \in Tickers, c \in Cids : Guarded(t, c)' <=> Guarded(t, c)
      BY <3>2, <3>3 DEF Guarded, Ahead
    <3> QED  BY <3>1, <3>4 DEF OpenOK, Open, Admitted
  <2> QED  BY <2>1, <2>2, <2>3
<1> QED  BY <1>1, <1>2

LEMMA InvAlways == Spec => []IndInv
BY InitInv, NextInv, PTL DEF Spec

(* Every variable keeps its type, for every number of orders, crashes and    *)
(* failed writes; in particular a recovery, a replay or a split SELL never   *)
(* takes an order outside the states the code knows.                         *)
THEOREM TypeCorrect == Spec => []TypeOK
<1>1. IndInv => TypeOK
  BY DEF IndInv
<1> QED  BY <1>1, InvAlways, PTL

(* A restart at any moment finds every key taken that the running Core held  *)
(* for an order not yet closed, whatever the other process wrote and         *)
(* whichever writes failed.                                                  *)
THEOREM RestartIsSafe == Spec => []RestartKeepsBlock
<1>1. IndInv => RestartKeepsBlock
  <2> SUFFICES ASSUME IndInv, NEW k \in Keys, active[k] \notin closed \cup {NoCid}
               PROVE  Replay[k] # NoCid
    BY DEF RestartKeepsBlock
  <2>1. active[k] \in Replayable(k)
    BY DEF IndInv, ActiveOK
  <2>2. Replayable(k) \in SUBSET Cids
    BY DEF IndInv, TypeOK, LogTyped, Replayable
  <2>3. LastOf(Replayable(k)) \in Cids
    BY <2>1, <2>2, LastOfMax
  <2> QED  BY <2>3 DEF Replay, NoCid, Cids
<1> QED  BY <1>1, InvAlways, PTL

(* A step that changes no order's place in the gate stutters there, one that *)
(* closes or abandons orders, at most the one it writes about, closes it.    *)
LEMMA GateClosing ==
    ASSUME TypeOK, NEW c \in Cids, Admitted' = Admitted, key' = key,
           closed \subseteq closed', closed' \subseteq closed \cup {c},
           abandoned \subseteq abandoned', abandoned' \subseteq abandoned \cup {c}
    PROVE  Gate!Next \/ UNCHANGED Gate!vars
<1>1. \A t \in Tickers : Open(t)' \in {Open(t), Open(t) \ {c}}
  BY DEF Open, Admitted
<1>2. CASE \E t \in Tickers : c \in Open(t) /\ c \notin Open(t)'
  <2>1. PICK t \in Tickers : c \in Open(t) /\ c \notin Open(t)'
    BY <1>2
  <2>2. Open(t)' = Open(t) \ {c}
    BY <1>1, <2>1
  <2>3. \A u \in Tickers : u # t => Open(u)' = Open(u)
    BY <1>1, <2>1, BuyKeys DEF Open
  <2>4. [u \in Tickers |-> Open(u)]' = [[u \in Tickers |-> Open(u)] EXCEPT ![t] = @ \ {c}]
    BY <2>2, <2>3
  <2>5. Gate!Close(t, c)
    BY <2>1, <2>4 DEF Gate!Close
  <2> QED  BY <2>5 DEF Gate!Next
<1>3. CASE \A t \in Tickers : c \in Open(t) => c \in Open(t)'
  <2>1. \A t \in Tickers : Open(t)' = Open(t)
    BY <1>1, <1>3
  <2> QED  BY <2>1 DEF Gate!vars
<1> QED  BY <1>2, <1>3

LEMMA GateAdmitting ==
    ASSUME IndInv, NEW t \in Tickers, NEW c \in Cids, CheckAndIntent(t, c)
    PROVE  Gate!Next \/ UNCHANGED Gate!vars
<1> USE DEF IndInv, TypeOK
<1>1. PICK ph \in {"queued", "refused"} :
         /\ Create("Core", c, BuyKey(t), 1, ph)
         /\ Log("Core", c, "INTENT", {BuyKey(t)}) /\ BuyKey(t) \in Keys
         /\ phase[c] = "unborn"
  BY DEF CheckAndIntent, Log, IsNext
<1>2. closed' = closed /\ abandoned' = abandoned
  BY <1>1 DEF Log, Written, WriteFailed, OnDisk, Terminal, Create, recVars
<1>3. /\ owner'[c] = "Core" /\ key'[c] = BuyKey(t) /\ phase'[c] = ph
      /\ \A d \in Cids : d # c => owner'[d] = owner[d] /\ key'[d] = key[d] /\ phase'[d] = phase[d]
  BY <1>1 DEF Create, CallTyped
<1>4. c \notin Admitted /\ c \notin closed \cup abandoned /\ Admitted \subseteq Cids
  BY <1>1 DEF Admitted, UnbornOK
<1>5. CASE ph = "refused"
  <2>1. Admitted' = Admitted
    BY <1>3, <1>4, <1>5 DEF Admitted
  <2>2. \A u \in Tickers : Open(u)' = Open(u)
    BY <1>2, <1>3, <1>4, <2>1 DEF Open
  <2> QED  BY <2>1, <2>2 DEF Gate!vars
<1>6. CASE ph = "queued"
  <2>1. Admitted' = Admitted \cup {c}
    BY <1>3, <1>6, BuyKeys DEF Admitted
  <2>2. Open(t) = {}
    BY OpenOrder DEF CheckAndIntent, OpenOK, Guarded, NoCid, Cids
  <2>3. Open(t)' = {c}
    BY <1>2, <1>3, <1>4, <2>1, <2>2 DEF Open
  <2>4. \A u \in Tickers : u # t => Open(u)' = Open(u)
    BY <1>2, <1>3, <1>4, <2>1, BuyKeys DEF Open
  <2>5. [u \in Tickers |-> Open(u)]' = [[u \in Tickers |-> Open(u)] EXCEPT ![t] = {c}]
    BY <2>3, <2>4
  <2>6. Gate!Admit(t, c)
    BY <1>4, <2>1, <2>2, <2>5 DEF Gate!Admit
  <2> QED  BY <2>6 DEF Gate!Next
<1> QED  BY <1>5, <1>6

LEMMA GateStuttering ==
    ASSUME TypeOK, UNCHANGED <<closed, abandoned, key>>, Admitted' = Admitted
    PROVE  UNCHANGED Gate!vars
<1>1. \A t \in Tickers : Open(t)' = Open(t)
  BY DEF Open, Admitted
<1> QED  BY <1>1 DEF Gate!vars

LEMMA GateStep ==
    ASSUME IndInv, [Next]_vars
    PROVE  Gate!Next \/ UNCHANGED Gate!vars
<1> USE DEF IndInv, TypeOK
<1>1. ASSUME NEW t \in Tickers, DedupBlocked(t) PROVE UNCHANGED Gate!vars
  BY <1>1, GateStuttering DEF DedupBlocked, callVars, recVars, Admitted
<1>2. ASSUME NEW t \in Tickers, NEW c \in Cids, CheckAndIntent(t, c)
      PROVE  Gate!Next \/ UNCHANGED Gate!vars
  BY <1>2, GateAdmitting
<1>3. ASSUME NEW p \in Procs, NEW k \in Keys, NEW c \in Cids, Intent(p, k, c)
      PROVE  UNCHANGED Gate!vars
  <2>1. PICK n \in 1 .. 2 : Create(p, c, k, n, "queued")
    BY <1>3 DEF Intent
  <2>2. UNCHANGED <<closed, abandoned>>
    BY <1>3, <2>1 DEF Intent, Log, Written, WriteFailed, OnDisk, Terminal, Create, recVars
  <2>3. c \notin Admitted /\ Admitted \subseteq Cids
    BY <1>3 DEF Intent, IsNext, Admitted
  <2>4. /\ \A d \in Cids : d # c => owner'[d] = owner[d] /\ key'[d] = key[d] /\ phase'[d] = phase[d]
        /\ owner'[c] = p /\ key'[c] = k
    BY <2>1 DEF Create, CallTyped
  <2>5. Admitted' = Admitted
    BY <1>3, <2>3, <2>4 DEF Intent, Admitted
  <2>6. \A t \in Tickers : Open(t)' = Open(t)
    BY <2>2, <2>3, <2>4, <2>5 DEF Open
  <2> QED  BY <2>5, <2>6 DEF Gate!vars
<1>4. ASSUME NEW c \in Cids, OrderStep(c) PROVE Gate!Next \/ UNCHANGED Gate!vars
  <2>1. UNCHANGED <<owner, key, recVars>> /\ Admitted' = Admitted
    BY <1>4, OrderStepEffect, SameAdmitted
  <2>2. UNCHANGED logVars \/ \E s \in States \ {NoState} : Log(owner[c], c, s, KeysOf(c))
    BY <1>4, OrderStepEffect, LineStates DEF Append
  <2>3. closed \subseteq closed' /\ closed' \subseteq closed \cup {c}
    BY <2>2, LogEffect DEF logVars
  <2> QED  BY <2>1, <2>3, GateClosing DEF recVars
<1>5. ASSUME NEW p \in Procs, Crash(p) PROVE UNCHANGED Gate!vars
  <2>1. \A d \in Cids : phase'[d] \in {"unborn", "refused"} <=> phase[d] \in {"unborn", "refused"}
    BY <1>5 DEF Crash, Alive, CallTyped
  <2> QED  BY <1>5, <2>1, SameAdmitted, GateStuttering DEF Crash
<1>6. ASSUME NEW p \in Procs, StartRecovery(p) PROVE UNCHANGED Gate!vars
  BY <1>6, GateStuttering DEF StartRecovery, logVars, callVars, Admitted
<1>7. ASSUME NEW p \in Procs, NEW c \in Cids, Resolve(p, c) PROVE Gate!Next \/ UNCHANGED Gate!vars
  <2>1. PICK s \in States \ {NoState} : Log(p, c, s, KeysOf(c))
    BY <1>7, ResolveEffect, LineStates
  <2>2. /\ UNCHANGED <<owner, key, phase>>
        /\ abandoned \subseteq abandoned' /\ abandoned' \subseteq abandoned \cup {c}
    BY <1>7, ResolveEffect
  <2>3. Admitted' = Admitted
    BY <2>2, SameAdmitted
  <2> QED  BY <2>1, <2>2, <2>3, LogEffect, GateClosing
<1>8. CASE UNCHANGED vars
  BY <1>8, GateStuttering DEF vars, logVars, callVars, recVars, Admitted
<1> QED  BY <1>1, <1>2, <1>3, <1>4, <1>5, <1>6, <1>7, <1>8 DEF Next

(* OrderWAL implements DedupGate: over every interleaving of both processes, *)
(* every crash, replay, recovery and failed write, a BUY is admitted for a   *)
(* ticker only when no BUY admitted before it for that ticker is open.       *)
THEOREM GateIsKept == Spec => GateKept
<1>1. Init => Gate!Init
  BY DEF Init, Gate!Init, Open, Admitted
<1>2. IndInv /\ [Next]_vars => [Gate!Next]_(Gate!vars)
  BY GateStep
<1> QED  BY <1>1, <1>2, InvAlways, PTL DEF Spec, GateKept, Gate!Spec

-----------------------------------------------------------------------------
(* What a crash leaves behind                                                *)

(* A lost order has no FILL on its way, every order has its INTENT line      *)
(* while no write has failed, and a recovery that has started still has      *)
(* before it whatever its process lost and nothing has closed.               *)
LostOK == \A c \in Cids : phase[c] = "lost" => fills[c] = 0

KeyedOK == faults = 0 => \A c \in Cids : phase[c] # "unborn" => c \in keyed

LeftOK == \A p \in recovering, c \in Cids :
              owner[c] = p /\ phase[c] = "lost" /\ faults = 0 /\ Incomplete(c)
              => todo[p][c] # NoState

RecInv == LostOK /\ KeyedOK /\ LeftOK

LEMMA NoFaults ==
    ASSUME LogTyped, NEW p, NEW c, NEW s, NEW ks, Log(p, c, s, ks), faults' = 0
    PROVE  faults = 0 /\ Written(p, c, s, ks)
BY DEF LogTyped, Log, Written, WriteFailed

LEMMA IntentRec ==
    ASSUME TypeOK, UnbornOK, RecInv, NEW p, NEW c \in Cids, NEW k, NEW n, NEW ph \in {"queued", "refused"},
           IsNext(c), Log(p, c, "INTENT", {k}), Create(p, c, k, n, ph)
    PROVE  RecInv'
<1> USE DEF TypeOK
<1>1. /\ fills' = fills /\ UNCHANGED recVars /\ phase'[c] = ph
      /\ \A d \in Cids : d # c => phase'[d] = phase[d] /\ owner'[d] = owner[d]
  BY DEF Create, CallTyped
<1>2. LostOK'
  BY <1>1 DEF RecInv, LostOK
<1>3. ASSUME faults' = 0
      PROVE  faults = 0 /\ c \in keyed' /\ keyed \subseteq keyed'
  <2>1. faults = 0 /\ Written(p, c, "INTENT", {k})
    BY <1>3, NoFaults
  <2> QED  BY <2>1 DEF Written, OnDisk
<1>4. KeyedOK'
  BY <1>1, <1>3 DEF RecInv, KeyedOK
<1>5. \A d \in Cids : d # c => disk'[d] = disk[d]
  BY LogEffect, LineStates
<1>6. LeftOK'
  BY <1>1, <1>3, <1>5 DEF RecInv, LeftOK, Incomplete, recVars
<1> QED  BY <1>2, <1>4, <1>6 DEF RecInv

LEMMA RecStep == IndInv /\ RecInv /\ [Next]_vars => RecInv'
<1> SUFFICES ASSUME IndInv, RecInv, [Next]_vars PROVE RecInv'
  OBVIOUS
<1> USE DEF IndInv, TypeOK
<1>1. ASSUME NEW t \in Tickers, DedupBlocked(t) PROVE RecInv'
  BY <1>1 DEF DedupBlocked, callVars, recVars, RecInv, LostOK, KeyedOK, LeftOK, Incomplete
<1>2. ASSUME NEW t \in Tickers, NEW c \in Cids, CheckAndIntent(t, c) PROVE RecInv'
  BY <1>2, IntentRec DEF CheckAndIntent, Log
<1>3. ASSUME NEW p \in Procs, NEW k \in Keys, NEW c \in Cids, Intent(p, k, c) PROVE RecInv'
  BY <1>3, IntentRec DEF Intent
<1>4. ASSUME NEW c \in Cids, OrderStep(c) PROVE RecInv'
  <2>1. /\ phase[c] # "lost" /\ phase[c] # "unborn" /\ phase'[c] # "lost"
        /\ \A d \in Cids : d # c => phase'[d] = phase[d] /\ fills'[d] = fills[d]
        /\ UNCHANGED <<owner, recVars>>
    <3>1. phase[c] # "lost" /\ phase'[c] # "lost"
      BY <1>4 DEF OrderStep, Post, PostError, WriteSubmitted, SeeFill, GiveUp, Drop, ConsumeFill,
                  Goto, ToSubmit, CallTyped, RecInv, LostOK
    <3> QED  BY <1>4, <3>1, OrderStepEffect
  <2>2. UNCHANGED logVars \/ \E s \in States \ {NoState} : Log(owner[c], c, s, KeysOf(c))
    BY <1>4, OrderStepEffect, LineStates DEF Append
  <2>3. /\ keyed \subseteq keyed' /\ (faults' = 0 => faults = 0)
        /\ \A d \in Cids : d # c => disk'[d] = disk[d]
    BY <2>2, LogEffect, NoFaults DEF logVars
  <2>4. LostOK'
    BY <2>1 DEF RecInv, LostOK
  <2>5. KeyedOK'
    BY <2>1, <2>3 DEF RecInv, KeyedOK
  <2>6. LeftOK'
    BY <2>1, <2>3 DEF RecInv, LeftOK, Incomplete, recVars
  <2> QED  BY <2>4, <2>5, <2>6 DEF RecInv
<1>5. ASSUME NEW p \in Procs, Crash(p) PROVE RecInv'
  <2>1. LostOK'
    BY <1>5 DEF Crash, RecInv, LostOK, CallTyped
  <2>2. KeyedOK'
    BY <1>5 DEF Crash, RecInv, KeyedOK, Alive, CallTyped
  <2>3. ASSUME NEW q \in recovering', NEW c \in Cids, owner'[c] = q, phase'[c] = "lost",
               faults' = 0, Incomplete(c)'
        PROVE  todo'[q][c] # NoState
    <3>1. q # p /\ q \in recovering /\ owner[c] = q /\ phase[c] = "lost" /\ Incomplete(c) /\ faults = 0
      BY <1>5, <2>3 DEF Crash, CallTyped, Incomplete
    <3>2. todo[q][c] # NoState
      BY <3>1 DEF RecInv, LeftOK
    <3> QED  BY <1>5, <3>1, <3>2 DEF Crash, RecTyped
  <2> QED  BY <2>1, <2>2, <2>3 DEF RecInv, LeftOK
<1>6. ASSUME NEW p \in Procs, StartRecovery(p) PROVE RecInv'
  <2>1. LostOK' /\ KeyedOK'
    BY <1>6 DEF StartRecovery, logVars, callVars, RecInv, LostOK, KeyedOK
  <2>2. ASSUME NEW q \in recovering', NEW c \in Cids, owner'[c] = q, phase'[c] = "lost",
               faults' = 0, Incomplete(c)'
        PROVE  todo'[q][c] # NoState
    <3>1. owner[c] = q /\ phase[c] = "lost" /\ Incomplete(c) /\ faults = 0 /\ c \in keyed
      BY <1>6, <2>2 DEF StartRecovery, logVars, callVars, Incomplete, RecInv, KeyedOK
    <3>2. CASE q = p
      BY <1>6, <3>1, <3>2 DEF StartRecovery, RecTyped, Incomplete, Pending, NoState
    <3>3. CASE q # p
      BY <1>6, <2>2, <3>1, <3>3 DEF StartRecovery, RecTyped, RecInv, LeftOK
    <3> QED  BY <3>2, <3>3
  <2> QED  BY <2>1, <2>2 DEF RecInv, LeftOK
<1>7. ASSUME NEW p \in Procs, NEW c \in Cids, Resolve(p, c) PROVE RecInv'
  <2>1. PICK s \in Terminal : Log(p, c, s, KeysOf(c))
    BY <1>7, ResolveEffect
  <2>2. /\ keyed \subseteq keyed' /\ \A d \in Cids : d # c => disk'[d] = disk[d]
        /\ faults' = 0 => faults = 0 /\ disk'[c] \in Terminal
    BY <2>1, LogEffect, NoFaults, LineStates
  <2>3. LostOK' /\ KeyedOK'
    BY <1>7, <2>2, ResolveEffect DEF RecInv, LostOK, KeyedOK
  <2>4. ASSUME NEW q \in recovering', NEW d \in Cids, owner'[d] = q, phase'[d] = "lost",
               faults' = 0, Incomplete(d)'
        PROVE  todo'[q][d] # NoState
    <3>1. d # c
      BY <2>2, <2>4 DEF Incomplete, Pending, Terminal
    <3>2. q \in recovering /\ owner[d] = q /\ phase[d] = "lost" /\ faults = 0 /\ Incomplete(d)
      BY <1>7, <2>2, <2>4, <3>1, ResolveEffect DEF Incomplete
    <3>3. todo[q][d] # NoState
      BY <3>2 DEF RecInv, LeftOK
    <3> QED  BY <1>7, <3>1, <3>2, <3>3, ResolveEffect DEF RecTyped
  <2> QED  BY <2>3, <2>4 DEF RecInv, LeftOK
<1>8. CASE UNCHANGED vars
  BY <1>8 DEF vars, logVars, callVars, recVars, RecInv, LostOK, KeyedOK, LeftOK, Incomplete
<1> QED  BY <1>1, <1>2, <1>3, <1>4, <1>5, <1>6, <1>7, <1>8 DEF Next

(* While no write fails, a process that has finished its recovery has        *)
(* brought every order of its earlier lives to a terminal state, also when   *)
(* the other process took the order first or both resolve it.                *)
THEOREM RecoveryIsComplete == Spec => []RecoveredIsClosed
<1>1. Init => RecInv
  BY DEF Init, RecInv, LostOK, KeyedOK, LeftOK
<1>2. IndInv /\ RecInv => RecoveredIsClosed
  BY DEF RecInv, LeftOK, RecoveredIsClosed
<1> QED  BY <1>1, <1>2, RecStep, InvAlways, PTL DEF Spec
==============================================================================
