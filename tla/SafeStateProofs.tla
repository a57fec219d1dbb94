-------------------------- MODULE SafeStateProofs --------------------------
(***************************************************************************)
(* The file of SafeState implements DurableCell, and its version numbers tell *)
(* writes apart, for every set of processes and texts and every bound on      *)
(* writes, crashes, failed operations and damage.  The fill ledger, whose     *)
(* lots are kept in such a file, gives every share once and oldest first, for *)
(* every set of tickers and every bound on lots, sizes, days and starts.      *)
(***************************************************************************)
EXTENDS SafeState, FillLedger, SequenceTheorems, FiniteSetTheorems, WellFoundedInduction, TLAPS

Primary == copy["primary"]
Prev == copy["prev"]
Prev2 == copy["prev2"]

Marks == Writes \cup {Absent, Torn}
CopyTyped == copy \in [Copies -> [data : Marks, sum : Marks]]
WriterTyped == writer \in {NoWrite} \cup [by : Procs, id : 1 .. written, at : 1 .. SidecarStep]
------------------------------------------------------------------------------
(* What one file operation does to the three copies                          *)

LEMMA CopiesAre ==
    CopyTyped => {Primary, Prev, Prev2} \subseteq [data : Marks, sum : Marks]
BY DEF CopyTyped, Copies, Primary, Prev, Prev2

LEMMA TheRotation ==
    /\ DOMAIN Rotation = {1, 2, 3, 4}
    /\ Rotation[1] = [from |-> "prev",    to |-> "prev2", part |-> "data"]
    /\ Rotation[2] = [from |-> "prev",    to |-> "prev2", part |-> "sum"]
    /\ Rotation[3] = [from |-> "primary", to |-> "prev",  part |-> "data"]
    /\ Rotation[4] = [from |-> "primary", to |-> "prev",  part |-> "sum"]
BY DEF Rotation

\* One part of one copy is written.
Put(c, part, m) == copy' = [copy EXCEPT ![c][part] = m]

LEMMA DataPut ==
    ASSUME CopyTyped, NEW c \in Copies, NEW m, Put(c, "data", m)
    PROVE  /\ copy'[c] = [data |-> m, sum |-> copy[c].sum]
           /\ \A d \in Copies \ {c} : copy'[d] = copy[d]
           /\ m \in Marks => CopyTyped'
<1>1. copy' = [copy EXCEPT ![c]["data"] = m]
  BY DEF Put
<1>2. /\ copy'[c] = [copy[c] EXCEPT !["data"] = m]
      /\ copy[c] \in [data : Marks, sum : Marks]
      /\ \A d \in Copies \ {c} : copy'[d] = copy[d]
      /\ copy' = [d \in Copies |-> IF d = c THEN copy'[c] ELSE copy[d]]
  BY <1>1 DEF CopyTyped
<1>3. copy'[c] = [data |-> m, sum |-> copy[c].sum]
  BY <1>2
<1>4. ASSUME m \in Marks PROVE CopyTyped'
  BY <1>2, <1>3, <1>4 DEF CopyTyped, Marks
<1> QED BY <1>2, <1>3, <1>4

LEMMA SumPut ==
    ASSUME CopyTyped, NEW c \in Copies, NEW m, Put(c, "sum", m)
    PROVE  /\ copy'[c] = [data |-> copy[c].data, sum |-> m]
           /\ \A d \in Copies \ {c} : copy'[d] = copy[d]
           /\ m \in Marks => CopyTyped'
<1>1. copy' = [copy EXCEPT ![c]["sum"] = m]
  BY DEF Put
<1>2. /\ copy'[c] = [copy[c] EXCEPT !["sum"] = m]
      /\ copy[c] \in [data : Marks, sum : Marks]
      /\ \A d \in Copies \ {c} : copy'[d] = copy[d]
      /\ copy' = [d \in Copies |-> IF d = c THEN copy'[c] ELSE copy[d]]
  BY <1>1 DEF CopyTyped
<1>3. copy'[c] = [data |-> copy[c].data, sum |-> m]
  BY <1>2
<1>4. ASSUME m \in Marks PROVE CopyTyped'
  BY <1>2, <1>3, <1>4 DEF CopyTyped, Marks
<1> QED BY <1>2, <1>3, <1>4

\* The four copies of the rotation, one by one.
Rotated ==
    /\ writer.at \in {1, 2} => Primary' = Primary /\ Prev' = Prev
    /\ writer.at \in {3, 4} => Primary' = Primary /\ Prev2' = Prev2
    /\ writer.at = 1 => Prev2' = IF Prev.data = Absent THEN Prev2
                                 ELSE [data |-> Prev.data, sum |-> Prev2.sum]
    /\ writer.at = 2 => Prev2' = IF Absent \in {Prev.data, Prev.sum} THEN Prev2
                                 ELSE [data |-> Prev2.data, sum |-> Prev.sum]
    /\ writer.at = 3 => Prev' = IF Primary.data = Absent THEN Prev
                                ELSE [data |-> Primary.data, sum |-> Prev.sum]
    /\ writer.at = 4 => Prev' = IF Absent \in {Primary.data, Primary.sum} THEN Prev
                                ELSE [data |-> Prev.data, sum |-> Primary.sum]

LEMMA RotateCopies ==
    ASSUME CopyTyped, Rotate
    PROVE  Rotated /\ CopyTyped'
<1> DEFINE r == Rotation[writer.at]
<1>1. /\ writer.at \in {1, 2, 3, 4}
      /\ copy' = IF Copied(r) THEN [copy EXCEPT ![r.to][r.part] = copy[r.from][r.part]]
                 ELSE copy
  BY TheRotation DEF Rotate
<1>2. CASE ~Copied(r)
  <2>1. copy' = copy
    BY <1>1, <1>2
  <2>2. /\ writer.at = 1 => Prev.data = Absent
        /\ writer.at = 2 => Absent \in {Prev.data, Prev.sum}
        /\ writer.at = 3 => Primary.data = Absent
        /\ writer.at = 4 => Absent \in {Primary.data, Primary.sum}
    BY <1>1, <1>2, TheRotation DEF Copied, Primary, Prev
  <2> QED BY <2>1, <2>2 DEF Rotated, CopyTyped, Primary, Prev, Prev2
<1>3. CASE Copied(r)
  <2>1. copy' = [copy EXCEPT ![r.to][r.part] = copy[r.from][r.part]]
    BY <1>1, <1>3
  <2>2. /\ r.to \in Copies /\ r.from \in Copies
        /\ Prev \in [data : Marks, sum : Marks] /\ Primary \in [data : Marks, sum : Marks]
    BY <1>1, TheRotation, CopiesAre DEF Copies
  <2>3. CASE writer.at = 1
    <3>1. /\ r.to = "prev2" /\ r.part = "data" /\ copy[r.from][r.part] = Prev.data
          /\ Prev.data # Absent
      BY <1>3, <2>3, TheRotation DEF Copied, Prev
    <3> HIDE DEF r
    <3>2. Put("prev2", "data", Prev.data) /\ "prev2" \in Copies
      BY <2>1, <3>1 DEF Put, Copies
    <3>3. Prev.data \in Marks
      BY <2>2
    <3>4. /\ copy'["prev2"] = [data |-> Prev.data, sum |-> copy["prev2"].sum]
          /\ \A d \in Copies \ {"prev2"} : copy'[d] = copy[d]
          /\ CopyTyped'
      BY <3>2, <3>3, DataPut
    <3> QED BY <2>3, <3>1, <3>4 DEF Copies, Rotated, Primary, Prev, Prev2
  <2>4. CASE writer.at = 2
    <3>1. /\ r.to = "prev2" /\ r.part = "sum" /\ copy[r.from][r.part] = Prev.sum
          /\ Absent \notin {Prev.data, Prev.sum}
      BY <1>3, <2>4, TheRotation DEF Copied, Prev
    <3> HIDE DEF r
    <3>2. Put("prev2", "sum", Prev.sum) /\ "prev2" \in Copies
      BY <2>1, <3>1 DEF Put, Copies
    <3>3. Prev.sum \in Marks
      BY <2>2
    <3>4. /\ copy'["prev2"] = [data |-> copy["prev2"].data, sum |-> Prev.sum]
          /\ \A d \in Copies \ {"prev2"} : copy'[d] = copy[d]
          /\ CopyTyped'
      BY <3>2, <3>3, SumPut
    <3> QED BY <2>4, <3>1, <3>4 DEF Copies, Rotated, Primary, Prev, Prev2
  <2>5. CASE writer.at = 3
    <3>1. /\ r.to = "prev" /\ r.part = "data" /\ copy[r.from][r.part] = Primary.data
          /\ Primary.data # Absent
      BY <1>3, <2>5, TheRotation DEF Copied, Primary
    <3> HIDE DEF r
    <3>2. Put("prev", "data", Primary.data) /\ "prev" \in Copies
      BY <2>1, <3>1 DEF Put, Copies
    <3>3. Primary.data \in Marks
      BY <2>2
    <3>4. /\ copy'["prev"] = [data |-> Primary.data, sum |-> copy["prev"].sum]
          /\ \A d \in Copies \ {"prev"} : copy'[d] = copy[d]
          /\ CopyTyped'
      BY <3>2, <3>3, DataPut
    <3> QED BY <2>5, <3>1, <3>4 DEF Copies, Rotated, Primary, Prev, Prev2
  <2>6. CASE writer.at = 4
    <3>1. /\ r.to = "prev" /\ r.part = "sum" /\ copy[r.from][r.part] = Primary.sum
          /\ Absent \notin {Primary.data, Primary.sum}
      BY <1>3, <2>6, TheRotation DEF Copied, Primary
    <3> HIDE DEF r
    <3>2. Put("prev", "sum", Primary.sum) /\ "prev" \in Copies
      BY <2>1, <3>1 DEF Put, Copies
    <3>3. Primary.sum \in Marks
      BY <2>2
    <3>4. /\ copy'["prev"] = [data |-> copy["prev"].data, sum |-> Primary.sum]
          /\ \A d \in Copies \ {"prev"} : copy'[d] = copy[d]
          /\ CopyTyped'
      BY <3>2, <3>3, SumPut
    <3> QED BY <2>6, <3>1, <3>4 DEF Copies, Rotated, Primary, Prev, Prev2
  <2> QED BY <1>1, <2>3, <2>4, <2>5, <2>6
<1> QED BY <1>2, <1>3

\* A step broken off: nothing is changed, or the file open for writing is cut.
Unmoved == Primary' = Primary /\ Prev' = Prev /\ Prev2' = Prev2

Cut ==
    \/ Unmoved
    \/ /\ writer.at \in {1, 2} /\ Prev.data # Absent
       /\ Primary' = Primary /\ Prev' = Prev
       /\ Prev2' = IF writer.at = 1 THEN [data |-> Torn, sum |-> Prev2.sum]
                   ELSE [data |-> Prev2.data, sum |-> Torn]
    \/ /\ writer.at \in {3, 4} /\ Primary.data # Absent
       /\ Primary' = Primary /\ Prev2' = Prev2
       /\ Prev' = IF writer.at = 3 THEN [data |-> Torn, sum |-> Prev.sum]
                  ELSE [data |-> Prev.data, sum |-> Torn]
    \/ /\ writer.at = SidecarStep /\ Prev' = Prev /\ Prev2' = Prev2
       /\ Primary' = [data |-> Primary.data, sum |-> Torn]

LEMMA CutCopies ==
    ASSUME CopyTyped, CutShort
    PROVE  Cut /\ CopyTyped'
<1>1. CASE copy' = copy
  BY <1>1 DEF Cut, Unmoved, Primary, Prev, Prev2, CopyTyped
<1>2. ASSUME NEW o \in Opened, Put(o.to, o.part, Torn) PROVE Cut /\ CopyTyped'
  <2>1. CASE writer.at \in {1, 2, 3, 4}
    <3>1. o = Rotation[writer.at] /\ Copied(o)
      BY <1>2, <2>1, TheRotation DEF Opened
    <3>2. CASE writer.at = 1
      <4>1. o.from = "prev" /\ o.to = "prev2" /\ o.part = "data"
        BY <3>1, <3>2, TheRotation
      <4>2. Put("prev2", "data", Torn) /\ "prev2" \in Copies /\ Prev.data # Absent
        BY <1>2, <3>1, <4>1 DEF Copies, Copied, Prev
      <4>3. /\ copy'["prev2"] = [data |-> Torn, sum |-> copy["prev2"].sum]
            /\ \A d \in Copies \ {"prev2"} : copy'[d] = copy[d]
            /\ CopyTyped'
        BY <4>2, DataPut DEF Marks
      <4> QED BY <3>2, <4>2, <4>3 DEF Cut, Copies, Primary, Prev, Prev2
    <3>3. CASE writer.at = 2
      <4>1. o.from = "prev" /\ o.to = "prev2" /\ o.part = "sum"
        BY <3>1, <3>3, TheRotation
      <4>2. Put("prev2", "sum", Torn) /\ "prev2" \in Copies /\ Prev.data # Absent
        BY <1>2, <3>1, <4>1 DEF Copies, Copied, Prev
      <4>3. /\ copy'["prev2"] = [data |-> copy["prev2"].data, sum |-> Torn]
            /\ \A d \in Copies \ {"prev2"} : copy'[d] = copy[d]
            /\ CopyTyped'
        BY <4>2, SumPut DEF Marks
      <4> QED BY <3>3, <4>2, <4>3 DEF Cut, Copies, Primary, Prev, Prev2
    <3>4. CASE writer.at = 3
      <4>1. o.from = "primary" /\ o.to = "prev" /\ o.part = "data"
        BY <3>1, <3>4, TheRotation
      <4>2. Put("prev", "data", Torn) /\ "prev" \in Copies /\ Primary.data # Absent
        BY <1>2, <3>1, <4>1 DEF Copies, Copied, Primary
      <4>3. /\ copy'["prev"] = [data |-> Torn, sum |-> copy["prev"].sum]
            /\ \A d \in Copies \ {"prev"} : copy'[d] = copy[d]
            /\ CopyTyped'
        BY <4>2, DataPut DEF Marks
      <4> QED BY <3>4, <4>2, <4>3 DEF Cut, Copies, Primary, Prev, Prev2
    <3>5. CASE writer.at = 4
      <4>1. o.from = "primary" /\ o.to = "prev" /\ o.part = "sum"
        BY <3>1, <3>5, TheRotation
      <4>2. Put("prev", "sum", Torn) /\ "prev" \in Copies /\ Primary.data # Absent
        BY <1>2, <3>1, <4>1 DEF Copies, Copied, Primary
      <4>3. /\ copy'["prev"] = [data |-> copy["prev"].data, sum |-> Torn]
            /\ \A d \in Copies \ {"prev"} : copy'[d] = copy[d]
            /\ CopyTyped'
        BY <4>2, SumPut DEF Marks
      <4> QED BY <3>5, <4>2, <4>3 DEF Cut, Copies, Primary, Prev, Prev2
    <3> QED BY <2>1, <3>2, <3>3, <3>4, <3>5
  <2>2. CASE writer.at \notin {1, 2, 3, 4}
    <3>1. writer.at = SidecarStep /\ o = [to |-> "primary", part |-> "sum"]
      BY <1>2, <2>2, TheRotation DEF Opened
    <3>2. Put("primary", "sum", Torn) /\ "primary" \in Copies
      BY <1>2, <3>1 DEF Copies
    <3>3. /\ copy'["primary"] = [data |-> copy["primary"].data, sum |-> Torn]
          /\ \A d \in Copies \ {"primary"} : copy'[d] = copy[d]
          /\ CopyTyped'
      BY <3>2, SumPut DEF Marks
    <3> QED BY <3>1, <3>3 DEF Cut, Copies, Primary, Prev, Prev2
  <2> QED BY <2>1, <2>2
<1> QED BY <1>1, <1>2 DEF CutShort, Put

\* The primary alone is written: its content, or its checksum.
LEMMA PrimaryPut ==
    ASSUME CopyTyped, NEW m \in Marks
    PROVE  /\ copy' = [copy EXCEPT !["primary"].data = m]
              => /\ Primary' = [data |-> m, sum |-> Primary.sum]
                 /\ Prev' = Prev /\ Prev2' = Prev2 /\ CopyTyped'
           /\ copy' = [copy EXCEPT !["primary"].sum = m]
              => /\ Primary' = [data |-> Primary.data, sum |-> m]
                 /\ Prev' = Prev /\ Prev2' = Prev2 /\ CopyTyped'
<1>1. "primary" \in Copies /\ Copies = {"primary", "prev", "prev2"}
  BY DEF Copies
<1>2. ASSUME copy' = [copy EXCEPT !["primary"].data = m] PROVE Put("primary", "data", m)
  BY <1>2 DEF Put
<1>3. ASSUME copy' = [copy EXCEPT !["primary"].sum = m] PROVE Put("primary", "sum", m)
  BY <1>3 DEF Put
<1>4. Put("primary", "data", m)
      => /\ Primary' = [data |-> m, sum |-> Primary.sum]
         /\ Prev' = Prev /\ Prev2' = Prev2 /\ CopyTyped'
  BY <1>1, DataPut DEF Primary, Prev, Prev2
<1>5. Put("primary", "sum", m)
      => /\ Primary' = [data |-> Primary.data, sum |-> m]
         /\ Prev' = Prev /\ Prev2' = Prev2 /\ CopyTyped'
  BY <1>1, SumPut DEF Primary, Prev, Prev2
<1> QED BY <1>2, <1>3, <1>4, <1>5
------------------------------------------------------------------------------
(* Type correctness                                                          *)

Steps == 1 .. SidecarStep

\* TypeOK, by its parts.
Typed ==
    /\ CopyTyped /\ WriterTyped
    /\ version \in [Writes -> Nat] /\ text \in [Writes -> Texts \cup {Unset}]
    /\ written \in 0 .. MaxWrites
    /\ last \in [Procs -> Texts \cup {Unset}]
    /\ poll \in [id : 0 .. MaxWrites, version : Nat]
    /\ crashes \in 0 .. MaxCrashes /\ faults \in 0 .. MaxFaults
    /\ damage \in 0 .. MaxDamage
    /\ done \in 0 .. written /\ tries \in Nat /\ unsafe \in BOOLEAN

LEMMA TypedIsTypeOK == Typed => TypeOK
BY DEF Typed, TypeOK, CopyTyped, WriterTyped, Marks

LEMMA FoundTyped == CopyTyped => Found \in {0} \cup Writes
BY DEF CopyTyped, Found, Valid, Copies

LEMMA RawTyped ==
    CopyTyped /\ version \in [Writes -> Nat] => RawVersion \in Nat
BY DEF CopyTyped, RawVersion, Copies

\* Whoever is past Begin holds the lock.
LEMMA Holder ==
    ASSUME WriterTyped, writer.at # 0
    PROVE  writer \in [by : Procs, id : 1 .. written, at : Steps] /\ writer # NoWrite
BY DEF WriterTyped, NoWrite, Steps

LEMMA InitTyped == Init => Typed
<1> SUFFICES ASSUME Init PROVE Typed
  OBVIOUS
<1>1. WriterTyped
  BY DEF Init, WriterTyped
<1>2. CopyTyped
  BY DEF Init, CopyTyped, Marks
<1>3. unsafe \in BOOLEAN /\ last \in [Procs -> Texts \cup {Unset}]
  BY DEF Init
<1> QED BY <1>1, <1>2, <1>3, SafeStateAssumption DEF Init, Typed

LEMMA NextTyped == Typed /\ [Next]_vars => Typed'
<1> SUFFICES ASSUME Typed, [Next]_vars PROVE Typed'
  OBVIOUS
<1> USE SafeStateAssumption DEF Typed
<1>1. CASE UNCHANGED vars
  BY <1>1 DEF vars, disk, counts, ghosts, CopyTyped, WriterTyped
<1>2. ASSUME NEW p \in Procs, Crash(p) PROVE Typed'
  <2>1. CASE writer.by = p
    <3>1. CopyTyped' /\ writer' = NoWrite
      BY <1>2, <2>1, CutCopies DEF Crash
    <3>2. WriterTyped'
      BY <3>1 DEF WriterTyped
    <3> QED BY <1>2, <2>1, <3>1, <3>2 DEF Crash, Unsafe
  <2>2. CASE writer.by # p
    BY <1>2, <2>2 DEF Crash, ghosts, CopyTyped, WriterTyped
  <2> QED BY <2>1, <2>2
<1>3. ASSUME NEW p \in Procs, NEW t \in Texts, Begin(p, t) PROVE Typed'
  <2>1. written + 1 \in Writes /\ written' = written + 1 /\ written' \in 0 .. MaxWrites
    BY <1>3, SafeStateAssumption DEF Begin, Writes
  <2>2. version' \in [Writes -> Nat] /\ text' \in [Writes -> Texts \cup {Unset}]
    <3>1. RawVersion + 1 \in Nat
      BY RawTyped
    <3>2. version' = [version EXCEPT ![written + 1] = RawVersion + 1]
      BY <1>3 DEF Begin
    <3>3. text' = [text EXCEPT ![written + 1] = t]
      BY <1>3 DEF Begin
    <3> QED BY <2>1, <3>1, <3>2, <3>3
  <2>3. CopyTyped' /\ WriterTyped'
    BY <1>3, <2>1, SafeStateAssumption DEF Begin, CopyTyped, WriterTyped, SidecarStep, Marks
  <2> QED BY <1>3, <2>1, <2>2, <2>3 DEF Begin, counts
<1>4. CASE Rotate
  <2>1. writer.at \in {1, 2, 3, 4}
    BY <1>4, TheRotation DEF Rotate
  <2>2. WriterTyped'
    BY <1>4, <2>1, Holder DEF Rotate, WriterTyped, Steps, SidecarStep
  <2> QED BY <1>4, <2>2, RotateCopies DEF Rotate, counts, ghosts
<1>5. CASE Replace
  <2>1. writer \in [by : Procs, id : 1 .. written, at : Steps] /\ writer # NoWrite
    BY <1>5, Holder DEF Replace, ReplaceStep
  <2>2. writer.id \in 1 .. written /\ writer.id \in Marks
    BY <2>1 DEF Marks, Writes
  <2>3. WriterTyped'
    BY <1>5, <2>1 DEF Replace, WriterTyped, ReplaceStep, SidecarStep, Steps
  <2>4. CopyTyped'
    BY <1>5, <2>2, PrimaryPut DEF Replace
  <2>5. Completed \/ UNCHANGED ghosts
    BY <1>5 DEF Replace
  <2>6. unsafe' \in BOOLEAN
    BY <2>5 DEF Completed, ghosts
  <2>7. written' = written /\ done' \in 0 .. written /\ tries' \in Nat
    BY <1>5, <2>2, <2>5 DEF Replace, Completed, ghosts
  <2> QED BY <1>5, <2>3, <2>4, <2>6, <2>7 DEF Replace, counts
<1>6. ASSUME Return, writer.at = SidecarStep, UNCHANGED written
      PROVE  /\ WriterTyped' /\ last' \in [Procs -> Texts \cup {Unset}]
             /\ writer.id \in 1 .. written /\ writer.id \in Marks
  <2>1. writer.by \in Procs /\ writer.id \in Writes /\ writer.id \in 1 .. written
    BY <1>6, Holder DEF SidecarStep, Writes
  <2> QED BY <1>6, <2>1 DEF Return, WriterTyped, Marks
<1>7. CASE Sidecar
  <2>1. /\ WriterTyped' /\ last' \in [Procs -> Texts \cup {Unset}]
        /\ writer.id \in 1 .. written /\ writer.id \in Marks
    BY <1>6, <1>7 DEF Sidecar
  <2>2. CopyTyped'
    BY <1>7, <2>1, PrimaryPut DEF Sidecar
  <2>3. unsafe' \in BOOLEAN
    BY <1>7 DEF Sidecar, Completed
  <2>4. done' \in 0 .. written /\ tries' \in Nat
    BY <1>7, <2>1 DEF Sidecar, Completed
  <2> QED BY <1>7, <2>1, <2>2, <2>3, <2>4 DEF Sidecar, counts
<1>8. CASE RotateFails
  <2>1. CopyTyped'
    BY <1>8, CutCopies DEF RotateFails
  <2>2. writer.at # 0
    BY <1>8, TheRotation DEF RotateFails
  <2>3. WriterTyped'
    BY <1>8, <2>2, Holder DEF RotateFails, WriterTyped, ReplaceStep, SidecarStep, Steps
  <2> QED BY <1>8, <2>1, <2>3, SafeStateAssumption DEF RotateFails, Fault, Unsafe
<1>9. CASE ReplaceFails
  BY <1>9, SafeStateAssumption
  DEF ReplaceFails, Fault, disk, ghosts, CopyTyped, WriterTyped
<1>10. CASE SidecarFails
  <2>1. WriterTyped' /\ last' \in [Procs -> Texts \cup {Unset}]
    BY <1>6, <1>10 DEF SidecarFails
  <2>2. CopyTyped'
    BY <1>10, CutCopies DEF SidecarFails
  <2> QED BY <1>10, <2>1, <2>2, SafeStateAssumption DEF SidecarFails, Fault, Unsafe
<1>11. CASE Damage
  <2>1. CopyTyped'
    BY <1>11, PrimaryPut DEF Damage, Marks
  <2> QED BY <1>11, <2>1, SafeStateAssumption DEF Damage, WriterTyped
<1>12. CASE Poll
  <2>1. Found \in Writes /\ Found \in 0 .. MaxWrites /\ version[Found] \in Nat
    BY <1>12, FoundTyped DEF Poll, Writes
  <2> QED BY <1>12, <2>1 DEF Poll, disk, counts, ghosts, CopyTyped, WriterTyped
<1> QED BY <1>1, <1>2, <1>3, <1>4, <1>5, <1>7, <1>8, <1>9, <1>10, <1>11, <1>12 DEF Next

\* Every file holds a write's number, nothing or garbage, and the lock a write begun.
THEOREM TypeCorrect == Spec => []TypeOK
<1> QED BY InitTyped, NextTyped, TypedIsTypeOK, PTL DEF Spec
------------------------------------------------------------------------------
(* Where the last completed write is                                         *)

Pair(m) == [data |-> m, sum |-> m]

\* A copy no reader takes, and which stays so when it is cut or copied.
Broken(f) == f.data \notin {Absent, done} /\ f.sum \in {done, Torn}

\* Nothing was ever written.
Empty == /\ done = 0 /\ writer.at <= ReplaceStep
         /\ Primary = Pair(Absent) /\ Prev = Pair(Absent) /\ Prev2 = Pair(Absent)

\* The first write of all, already readable without its sidecar.
First == /\ writer.at = SidecarStep /\ done = writer.id /\ tries = 0 /\ ~unsafe
         /\ Primary = [data |-> done, sum |-> Absent]

InPrimary == /\ Primary = Pair(done) /\ writer.at <= ReplaceStep
             /\ writer.at \in {4, 5} => Prev.data = done
             /\ writer.at = 5 => Prev.sum = done

\* One write was interrupted after it had replaced the primary.
InPrev == /\ Broken(Primary) /\ Prev = Pair(done)
          /\ writer.at \in {0, 1, 2, 3, SidecarStep} /\ tries >= 1
          /\ writer.at \in {1, 2, 3} => tries >= 2
          /\ writer.at \in {2, 3} => Prev2.data = done
          /\ writer.at = 3 => Prev2.sum = done

\* Two were.
InPrev2 == /\ Broken(Primary) /\ Broken(Prev) /\ Prev2 = Pair(done) /\ tries >= 2
           /\ writer.at \notin {2, 3} /\ (writer.at = 1 => tries >= 3)

Lost == Broken(Primary) /\ Broken(Prev) /\ Broken(Prev2) /\ tries >= 3

Where == \/ Empty \/ First
         \/ done # 0 /\ (InPrimary \/ InPrev \/ InPrev2 \/ Lost)

\* The lock is held for the newest write, which no copy has before it is replaced.
LockInv ==
    /\ Primary.data <= written /\ Primary.sum <= written
    /\ writer # NoWrite =>
         /\ writer.id = written /\ Primary.sum # written
         /\ writer.at <= ReplaceStep => done < written /\ tries > 0 /\ Primary.data < written
         /\ writer.at = SidecarStep =>
              /\ Primary.data = written
              /\ First \/ (done < written /\ tries > 0 /\ Primary.sum # Absent)

FileInv == Typed /\ LockInv /\ (~unsafe => Where)

\* What has to be shown of a step that neither begins nor completes a write.
Stays == /\ LockInv' /\ (~unsafe' => Where')
         /\ ~unsafe /\ Lost /\ ~unsafe' => Lost'

USE DEF Absent, Torn, ReplaceStep, SidecarStep

LEMMA RotateStays ==
    ASSUME FileInv, Rotate
    PROVE  Stays
<1>1. /\ CopyTyped /\ WriterTyped /\ LockInv /\ done \in Nat /\ tries \in Nat /\ written \in Nat
      /\ ~unsafe => Where
  BY DEF FileInv, Typed
<1>2. /\ writer.at \in {1, 2, 3, 4} /\ writer # NoWrite
      /\ writer'.at = writer.at + 1 /\ writer'.id = writer.id /\ writer' # NoWrite
  BY <1>1, TheRotation, Holder DEF Rotate, NoWrite, Steps
<1>3. UNCHANGED <<written, done, tries, unsafe>>
  BY DEF Rotate, ghosts
<1>4. Rotated /\ Primary' = Primary
  BY <1>1, <1>2, RotateCopies DEF Rotated
<1>5. {Primary, Prev, Prev2} \subseteq [data : Marks, sum : Marks]
  BY <1>1, CopiesAre
<1>6. LockInv'
  BY <1>1, <1>2, <1>3, <1>4 DEF LockInv
<1>7. CASE unsafe
  BY <1>3, <1>6, <1>7 DEF Stays
<1>8. CASE ~unsafe
  <2>1. CASE Empty
    BY <1>2, <1>3, <1>4, <1>6, <2>1 DEF Empty, Rotated, Stays, Where, Pair, Lost, Broken
  <2>2. CASE First
    BY <1>2, <2>2 DEF First
  <2>3. CASE done # 0 /\ InPrimary
    <3>1. InPrimary'
      BY <1>2, <1>3, <1>4, <2>3 DEF InPrimary, Rotated, Pair
    <3> QED BY <1>3, <1>6, <2>3, <3>1 DEF Stays, Where, Lost, Broken, InPrimary, Pair
  <2>4. CASE done # 0 /\ InPrev
    <3>1. CASE writer.at \in {1, 2}
      <4>1. InPrev'
        BY <1>2, <1>3, <1>4, <1>5, <2>4, <3>1 DEF InPrev, Rotated, Pair, Broken
      <4> QED BY <1>3, <1>6, <2>4, <4>1 DEF Stays, Where, Lost, Broken, InPrev, Pair
    <3>2. CASE writer.at = 3
      <4>1. Prev2 = Pair(done)
        BY <1>5, <2>4, <3>2 DEF InPrev, Pair
      <4>2. InPrev2'
        BY <1>2, <1>3, <1>4, <1>5, <2>4, <3>2, <4>1 DEF InPrev, InPrev2, Rotated, Pair, Broken
      <4> QED BY <1>3, <1>6, <2>4, <4>2 DEF Stays, Where, Lost, Broken, InPrev, Pair
    <3> QED BY <1>2, <2>4, <3>1, <3>2 DEF InPrev
  <2>5. CASE done # 0 /\ InPrev2
    <3>1. CASE writer.at = 1
      <4>1. Lost'
        BY <1>1, <1>2, <1>3, <1>4, <2>5, <3>1 DEF InPrev2, Lost, Rotated, Pair, Broken
      <4> QED BY <1>3, <1>6, <2>5, <4>1 DEF Stays, Where
    <3>2. CASE writer.at = 4
      <4>1. InPrev2'
        BY <1>2, <1>3, <1>4, <1>5, <2>5, <3>2 DEF InPrev2, Rotated, Pair, Broken
      <4> QED BY <1>3, <1>6, <2>5, <4>1 DEF Stays, Where, Lost, Broken, InPrev2, Pair
    <3> QED BY <1>2, <2>5, <3>1, <3>2 DEF InPrev2
  <2>6. CASE done # 0 /\ Lost
    <3>1. Lost'
      BY <1>1, <1>2, <1>3, <1>4, <2>6 DEF Lost, Rotated, Broken
    <3> QED BY <1>3, <1>6, <2>6, <3>1 DEF Stays, Where
  <2> QED BY <1>1, <1>8, <2>1, <2>2, <2>3, <2>4, <2>5, <2>6 DEF Where
<1> QED BY <1>7, <1>8

\* A write broken off, by the death of its process or a sidecar it cannot write.
LEMMA CutStays ==
    ASSUME FileInv, Cut, writer' = NoWrite, written' = written, Unsafe(done = writer.id)
    PROVE  Stays
<1>1. /\ CopyTyped /\ WriterTyped /\ LockInv /\ done \in Nat /\ tries \in Nat /\ written \in Nat
      /\ ~unsafe => Where
  BY DEF FileInv, Typed
<1>2. /\ done' = done /\ tries' = tries /\ writer'.at = 0
      /\ ~unsafe' => ~unsafe /\ done # writer.id
  BY DEF Unsafe, NoWrite
<1>3. {Primary, Prev, Prev2} \subseteq [data : Marks, sum : Marks]
  BY <1>1, CopiesAre
<1>4. LockInv'
  BY <1>1, <1>3 DEF LockInv, Cut, Unmoved
<1>5. CASE unsafe'
  BY <1>4, <1>5 DEF Stays
<1>6. CASE ~unsafe'
  <2>1. CASE Empty
    BY <1>2, <1>4, <2>1 DEF Empty, Cut, Unmoved, Stays, Where, Pair, Lost, Broken
  <2>2. CASE First
    BY <1>2, <1>6, <2>2 DEF First
  <2>3. CASE done # 0 /\ InPrimary
    <3>1. InPrimary'
      BY <1>2, <2>3 DEF InPrimary, Cut, Unmoved, Pair
    <3> QED BY <1>2, <1>4, <2>3, <3>1 DEF Stays, Where, Lost, Broken, InPrimary, Pair
  <2>4. CASE done # 0 /\ InPrev
    <3>1. CASE Prev' = Prev
      <4>1. InPrev'
        BY <1>1, <1>2, <1>3, <2>4, <3>1 DEF InPrev, Cut, Unmoved, Pair, Broken
      <4> QED BY <1>2, <1>4, <2>4, <4>1 DEF Stays, Where, Lost, Broken, InPrev, Pair
    <3>2. CASE Prev' # Prev
      <4>1. writer.at = 3 /\ Prev' = [data |-> Torn, sum |-> done]
        BY <2>4, <3>2 DEF InPrev, Cut, Unmoved, Pair
      <4>2. Prev2 = Pair(done)
        BY <1>3, <2>4, <4>1 DEF InPrev, Pair
      <4>3. InPrev2'
        BY <1>1, <1>2, <1>3, <2>4, <4>1, <4>2 DEF InPrev, InPrev2, Cut, Unmoved, Pair, Broken
      <4> QED BY <1>2, <1>4, <2>4, <4>3 DEF Stays, Where, Lost, Broken, InPrev, Pair
    <3> QED BY <3>1, <3>2
  <2>5. CASE done # 0 /\ InPrev2
    <3>1. CASE Prev2' = Prev2
      <4>1. InPrev2'
        BY <1>1, <1>2, <1>3, <2>5, <3>1 DEF InPrev2, Cut, Unmoved, Pair, Broken
      <4> QED BY <1>2, <1>4, <2>5, <4>1 DEF Stays, Where, Lost, Broken, InPrev2, Pair
    <3>2. CASE Prev2' # Prev2
      <4>1. Lost'
        BY <1>1, <1>2, <1>3, <2>5, <3>2 DEF InPrev2, Lost, Cut, Unmoved, Pair, Broken
      <4> QED BY <1>2, <1>4, <2>5, <4>1 DEF Stays, Where
    <3> QED BY <3>1, <3>2
  <2>6. CASE done # 0 /\ Lost
    <3>1. Lost'
      BY <1>1, <1>2, <1>3, <2>6 DEF Lost, Cut, Unmoved, Broken
    <3> QED BY <1>2, <1>4, <2>6, <3>1 DEF Stays, Where
  <2> QED BY <1>1, <1>2, <1>6, <2>1, <2>2, <2>3, <2>4, <2>5, <2>6 DEF Where
<1> QED BY <1>5, <1>6

\* The files are as they were and no write is under way.
LEMMA RestStays ==
    ASSUME FileInv, UNCHANGED <<copy, written, done, tries, unsafe>>,
           \/ UNCHANGED writer
           \/ writer.at = ReplaceStep /\ writer' = NoWrite
    PROVE  Stays
<1>1. Unmoved /\ LockInv /\ (~unsafe => Where)
  BY DEF Unmoved, Primary, Prev, Prev2, FileInv
<1>2. UNCHANGED writer \/ (writer' = NoWrite /\ writer'.at = 0)
  BY DEF NoWrite
<1>3. LockInv'
  BY <1>1, <1>2 DEF LockInv, Unmoved, First
<1>4. (Lost => Lost') /\ (Empty => Empty') /\ (InPrimary => InPrimary')
  BY <1>1, <1>2 DEF Lost, Broken, Unmoved, Empty, InPrimary
<1>5. (First => First') /\ (InPrev => InPrev') /\ (InPrev2 => InPrev2')
  BY <1>1, <1>2 DEF Broken, Unmoved, First, InPrev, InPrev2
<1> QED BY <1>1, <1>3, <1>4, <1>5 DEF Stays, Where

\* The new primary: readable at once, or refused until its sidecar is written.
LEMMA ReplaceStays ==
    ASSUME FileInv, Replace
    PROVE  /\ Primary.sum = Absent => LockInv' /\ Where' /\ Completed
           /\ Primary.sum # Absent => Stays /\ UNCHANGED ghosts
<1>1. /\ CopyTyped /\ WriterTyped /\ LockInv /\ done \in Nat /\ tries \in Nat /\ written \in Nat
      /\ ~unsafe => Where
  BY DEF FileInv, Typed
<1>2. /\ writer # NoWrite /\ writer.id \in 1 .. written /\ writer.at = ReplaceStep
      /\ writer.id \in Marks /\ written \in 0 .. MaxWrites
  <2>1. writer \in [by : Procs, id : 1 .. written, at : Steps] /\ writer # NoWrite
    BY <1>1, Holder DEF Replace
  <2>2. written \in 0 .. MaxWrites /\ writer.at = ReplaceStep
    BY DEF FileInv, Typed, Replace
  <2> QED BY <2>1, <2>2, SafeStateAssumption DEF Marks, Writes
<1>3. /\ Primary' = [data |-> writer.id, sum |-> Primary.sum]
      /\ Prev' = Prev /\ Prev2' = Prev2
  BY <1>1, <1>2, PrimaryPut DEF Replace
<1>4. writer'.at = SidecarStep /\ writer'.id = writer.id /\ written' = written /\ writer' # NoWrite
  BY <1>1, <1>2, Holder DEF Replace, NoWrite
<1>5. {Primary, Prev, Prev2} \subseteq [data : Marks, sum : Marks]
  BY <1>1, CopiesAre
<1>6. /\ writer.id = written /\ Primary.sum # written /\ done < written /\ tries > 0
      /\ Primary.sum <= written
  BY <1>1, <1>2 DEF LockInv
<1>7. CASE Primary.sum = Absent
  <2>1. Completed
    BY <1>7 DEF Replace, Primary
  <2>2. First' /\ LockInv'
    BY <1>2, <1>3, <1>4, <1>6, <1>7, <2>1 DEF Completed, First, LockInv
  <2> QED BY <1>7, <2>1, <2>2 DEF Where
<1>8. CASE Primary.sum # Absent
  <2>1. UNCHANGED ghosts
    BY <1>8 DEF Replace, Primary
  <2>2. done' = done /\ tries' = tries /\ unsafe' = unsafe
    BY <2>1 DEF ghosts
  <2>3. LockInv'
    BY <1>2, <1>3, <1>4, <1>6, <1>8, <2>2 DEF LockInv
  <2>4. CASE unsafe
    BY <1>8, <2>1, <2>2, <2>3, <2>4 DEF Stays
  <2>5. CASE ~unsafe
    <3>1. ~Empty /\ ~First /\ ~InPrev
      BY <1>2, <1>8 DEF Empty, First, InPrev, Pair
    <3>2. CASE done # 0 /\ InPrimary
      <4>1. Prev = Pair(done) /\ Primary.sum = done /\ ~Lost
        BY <1>2, <1>5, <3>2 DEF InPrimary, Pair, Lost, Broken
      <4>2. InPrev'
        BY <1>1, <1>2, <1>3, <1>4, <1>6, <2>2, <3>2, <4>1 DEF InPrev, Broken, Pair
      <4> QED BY <1>8, <2>1, <2>2, <2>3, <3>2, <4>1, <4>2 DEF Stays, Where
    <3>3. CASE done # 0 /\ InPrev2
      <4>1. InPrev2' /\ ~Lost
        BY <1>1, <1>2, <1>3, <1>4, <1>6, <2>2, <3>3 DEF InPrev2, Broken, Pair, Lost
      <4> QED BY <1>8, <2>1, <2>2, <2>3, <3>3, <4>1 DEF Stays, Where
    <3>4. CASE done # 0 /\ Lost
      <4>1. Lost'
        BY <1>1, <1>2, <1>3, <1>6, <2>2, <3>4 DEF Broken, Lost
      <4> QED BY <1>8, <2>1, <2>2, <2>3, <3>4, <4>1 DEF Stays, Where
    <3> QED BY <1>1, <2>5, <3>1, <3>2, <3>3, <3>4 DEF Where
  <2> QED BY <2>4, <2>5
<1> QED BY <1>7, <1>8

\* The write is complete: its sidecar agrees.
LEMMA SidecarEnds ==
    ASSUME FileInv, Sidecar
    PROVE  /\ LockInv' /\ Where'
           /\ Primary' = Pair(writer.id) /\ writer.id \in Writes
           /\ First \/ (done < writer.id /\ tries > 0)
<1>1. CopyTyped /\ WriterTyped /\ LockInv /\ written \in 0 .. MaxWrites
  BY DEF FileInv, Typed
<1>2. writer # NoWrite /\ writer.id \in 1 .. written /\ writer.at = SidecarStep
  BY <1>1, Holder DEF Sidecar
<1>3. writer.id \in Writes /\ writer.id \in Marks
  BY <1>1, <1>2, SafeStateAssumption DEF Writes, Marks
<1>4. /\ writer.id = written /\ Primary.data = written
      /\ First \/ (done < written /\ tries > 0)
  BY <1>1, <1>2 DEF LockInv
<1>5. Primary' = Pair(writer.id)
  BY <1>1, <1>3, <1>4, PrimaryPut DEF Sidecar, Pair
<1>6. /\ writer' = NoWrite /\ writer'.at = 0 /\ written' = written
      /\ done' = writer.id
  BY DEF Sidecar, Return, NoWrite, Completed
<1>7. InPrimary' /\ done' # 0
  BY <1>2, <1>5, <1>6 DEF InPrimary, Pair
<1>8. LockInv'
  BY <1>1, <1>2, <1>4, <1>5, <1>6 DEF LockInv, Pair
<1> QED BY <1>3, <1>4, <1>5, <1>7, <1>8 DEF Where

LEMMA BeginKeeps ==
    ASSUME FileInv, NEW p \in Procs, NEW t \in Texts, Begin(p, t)
    PROVE  LockInv' /\ (~unsafe' => Where')
<1>1. /\ LockInv /\ written \in Nat /\ done \in 0 .. written /\ tries \in Nat
      /\ ~unsafe => Where
  BY DEF FileInv, Typed
<1>2. /\ Unmoved /\ done' = done /\ unsafe' = unsafe /\ tries' = tries + 1
      /\ written' = written + 1
      /\ writer.at = 0 /\ writer'.at = 1 /\ writer'.id = written + 1 /\ writer' # NoWrite
  BY <1>1 DEF Begin, Unmoved, Unlocked, NoWrite, Primary, Prev, Prev2
<1>3. LockInv'
  <2>1. Primary \in [data : Marks, sum : Marks] /\ MaxWrites \in Nat
    BY CopiesAre, SafeStateAssumption DEF FileInv, Typed
  <2>2. Primary.data \in Int /\ Primary.sum \in Int
    BY <2>1 DEF Marks, Writes
  <2> QED BY <1>1, <1>2, <2>2 DEF LockInv, Unmoved
<1>4. ~First
  BY <1>2 DEF First
<1>5. (Empty => Empty') /\ (InPrimary => InPrimary')
  BY <1>2 DEF Empty, InPrimary, Unmoved
<1>6. (InPrev => InPrev') /\ (InPrev2 => InPrev2') /\ (Lost => Lost')
  BY <1>1, <1>2 DEF Broken, Unmoved, InPrev, InPrev2, Lost
<1> QED BY <1>1, <1>2, <1>3, <1>4, <1>5, <1>6 DEF Where
------------------------------------------------------------------------------
(* The file is a DurableCell                                                 *)

\* What a reader gets, while a promise holds.
LEMMA FoundIs == FileInv /\ ~unsafe => Found = IF Lost THEN 0 ELSE done
<1> SUFFICES ASSUME FileInv, ~unsafe PROVE Found = IF Lost THEN 0 ELSE done
  OBVIOUS
<1>1. CopyTyped /\ WriterTyped /\ done \in 0 .. written /\ written \in 0 .. MaxWrites /\ Where
  BY DEF FileInv, Typed
<1>2. done \in Nat /\ (done # 0 => done \in Writes)
  BY <1>1, SafeStateAssumption DEF Writes
<1>3. /\ Valid("primary") <=> Primary.data \in Writes /\ Primary.sum \in {0, Primary.data}
      /\ Valid("prev") <=> Prev.data \in Writes /\ Prev.sum \in {0, Prev.data}
      /\ Valid("prev2") <=> Prev2.data \in Writes /\ Prev2.sum \in {0, Prev2.data}
  BY DEF Valid, Primary, Prev, Prev2
<1>4. Found = IF Valid("primary") THEN Primary.data
              ELSE IF Valid("prev") THEN Prev.data
              ELSE IF Valid("prev2") THEN Prev2.data ELSE 0
  BY DEF Found, Primary, Prev, Prev2
<1>5. 0 \notin Writes /\ -1 \notin Writes
  BY DEF Writes
<1>6. ASSUME NEW f, Broken(f), done # 0
      PROVE  ~(f.data \in Writes /\ f.sum \in {0, f.data})
  BY <1>2, <1>5, <1>6 DEF Broken
<1>7. CASE Empty
  BY <1>3, <1>4, <1>5, <1>7 DEF Empty, Pair, Lost, Broken
<1>8. CASE First
  <2>1. done # 0
    BY <1>1, <1>8, Holder DEF First
  <2> QED BY <1>2, <1>3, <1>4, <1>8, <2>1 DEF First, Lost, Broken
<1>9. CASE done # 0 /\ InPrimary
  BY <1>2, <1>3, <1>4, <1>9 DEF InPrimary, Lost, Broken, Pair
<1>10. CASE done # 0 /\ InPrev
  <2>1. ~Valid("primary") /\ Valid("prev") /\ ~Lost
    BY <1>2, <1>3, <1>6, <1>10 DEF InPrev, Pair, Lost, Broken
  <2> QED BY <1>4, <1>10, <2>1 DEF InPrev, Pair
<1>11. CASE done # 0 /\ InPrev2
  <2>1. ~Valid("primary") /\ ~Valid("prev") /\ Valid("prev2") /\ ~Lost
    BY <1>2, <1>3, <1>6, <1>11 DEF InPrev2, Pair, Lost, Broken
  <2> QED BY <1>4, <1>11, <2>1 DEF InPrev2, Pair
<1>12. CASE done # 0 /\ Lost
  <2>1. ~Valid("primary") /\ ~Valid("prev") /\ ~Valid("prev2")
    BY <1>3, <1>6, <1>12 DEF Lost
  <2> QED BY <1>4, <1>12, <2>1
<1> QED BY <1>1, <1>7, <1>8, <1>9, <1>10, <1>11, <1>12 DEF Where

\* The same of the state a step leads to, and what a reader may get there at all.
LEMMA FoundIsNext == /\ FileInv' /\ ~unsafe' => Found' = IF Lost' THEN 0 ELSE done'
                     /\ FileInv' => Found' \in Nat
<1>1. FileInv => Found \in Nat
  BY FoundTyped DEF FileInv, Typed, Writes
<1>2. (FileInv => Found \in Nat)'
  BY <1>1, PTL
<1>3. (FileInv /\ ~unsafe => Found = IF Lost THEN 0 ELSE done)'
  BY FoundIs, PTL
<1> QED BY <1>2, <1>3

LEMMA SlipOrStutter ==
    ASSUME FileInv, FileInv', Stays, done' = done, tries' = tries,
           unsafe => unsafe'
    PROVE  [Cell!Next]_(Cell!vars)
<1>1. Found' \in Nat /\ (~unsafe' => Found' = IF Lost' THEN 0 ELSE done')
  BY FoundIsNext
<1>2. unsafe \in BOOLEAN /\ unsafe' \in BOOLEAN
  BY DEF FileInv, Typed
<1>3. CASE unsafe /\ unsafe'
  <2>1. unsafe' = unsafe
    BY <1>2, <1>3
  <2> QED BY <1>1, <1>3, <2>1 DEF Cell!Next, Cell!Slip
<1>4. CASE ~unsafe /\ unsafe'
  <2>1. unsafe' = TRUE
    BY <1>2, <1>4
  <2> QED BY <1>1, <1>4, <2>1 DEF Cell!Next, Cell!Break
<1>5. CASE ~unsafe /\ ~unsafe'
  <2>1. unsafe' = unsafe
    BY <1>2, <1>5
  <2>2. Found = IF Lost THEN 0 ELSE done
    BY <1>5, FoundIs
  <2>3. CASE Lost'
    <3>1. tries > 2 /\ Found' = 0
      BY <1>1, <1>5, <2>3 DEF Lost, FileInv, Typed
    <3> QED BY <2>1, <3>1 DEF Cell!Next, Cell!Slip
  <2>4. CASE ~Lost'
    <3>1. Found' = Found
      BY <1>1, <1>5, <2>2, <2>4 DEF Stays
    <3> QED BY <2>1, <3>1 DEF Cell!vars
  <2> QED BY <2>3, <2>4
<1> QED BY <1>3, <1>4, <1>5

LEMMA InitMaps == Init => FileInv /\ Cell!Init
<1> SUFFICES ASSUME Init PROVE FileInv /\ Cell!Init
  OBVIOUS
<1>1. Typed
  BY InitTyped
<1>2. /\ Primary = Pair(Absent) /\ Prev = Pair(Absent) /\ Prev2 = Pair(Absent)
      /\ done = 0 /\ writer.at = 0 /\ writer = NoWrite /\ written = 0
  BY DEF Init, Primary, Prev, Prev2, Copies, Pair, NoWrite
<1>3. Empty /\ LockInv /\ ~Lost
  BY <1>2 DEF Empty, LockInv, Pair, Lost, Broken
<1>4. FileInv /\ ~unsafe
  BY <1>1, <1>3 DEF FileInv, Where, Init
<1>5. Found = 0
  BY <1>2, <1>3, <1>4, FoundIs
<1> QED BY <1>4, <1>5 DEF Init, Cell!Init

LEMMA NextMaps == FileInv /\ [Next]_vars => FileInv' /\ [Cell!Next]_(Cell!vars)
<1> SUFFICES ASSUME FileInv, [Next]_vars PROVE FileInv' /\ [Cell!Next]_(Cell!vars)
  OBVIOUS
<1>1. Typed' /\ Typed /\ LockInv /\ (~unsafe => Where)
  BY NextTyped DEF FileInv
<1>2. ASSUME Stays, done' = done, tries' = tries, unsafe => unsafe'
      PROVE  FileInv' /\ [Cell!Next]_(Cell!vars)
  BY <1>1, <1>2, SlipOrStutter DEF FileInv, Stays
<1>3. ASSUME UNCHANGED <<copy, written, done, tries, unsafe>>,
             UNCHANGED writer \/ (writer.at = ReplaceStep /\ writer' = NoWrite)
      PROVE  FileInv' /\ [Cell!Next]_(Cell!vars)
  BY <1>2, <1>3, RestStays
<1>4. ASSUME LockInv', unsafe', done' = done, tries' = tries
      PROVE  FileInv' /\ [Cell!Next]_(Cell!vars)
  <2>1. FileInv'
    BY <1>1, <1>4 DEF FileInv
  <2>2. Found' \in Nat /\ unsafe' = TRUE
    BY <2>1, <1>1, <1>4, FoundIsNext DEF Typed
  <2> QED BY <1>4, <2>1, <2>2 DEF Cell!Next, Cell!Break
<1>5. ASSUME LockInv', Where', Completed, tries > 0, writer.id > done, Found' = writer.id
      PROVE  FileInv' /\ [Cell!Next]_(Cell!vars)
  BY <1>1, <1>5 DEF FileInv, Completed, Cell!Next, Cell!Complete
<1>6. CASE UNCHANGED vars
  BY <1>3, <1>6 DEF vars, disk, ghosts
<1>7. ASSUME NEW p \in Procs, Crash(p) PROVE FileInv' /\ [Cell!Next]_(Cell!vars)
  <2>1. CASE writer.by = p
    <3>1. Cut
      BY <1>1, <1>7, <2>1, CutCopies DEF Crash, Typed
    <3>2. Stays /\ done' = done /\ tries' = tries /\ (unsafe => unsafe')
      BY <1>7, <2>1, <3>1, CutStays DEF Crash, Unsafe
    <3> QED BY <1>2, <3>2
  <2>2. CASE writer.by # p
    BY <1>3, <1>7, <2>2 DEF Crash, ghosts
  <2> QED BY <2>1, <2>2
<1>8. ASSUME NEW p \in Procs, NEW t \in Texts, Begin(p, t)
      PROVE  FileInv' /\ [Cell!Next]_(Cell!vars)
  <2>1. FileInv'
    BY <1>1, <1>8, BeginKeeps DEF FileInv
  <2>2. Found' = Found /\ tries' = tries + 1 /\ UNCHANGED <<done, unsafe>>
    BY <1>8 DEF Begin, Found, Valid
  <2> QED BY <2>1, <2>2 DEF Cell!Next, Cell!Try
<1>9. CASE Rotate
  <2>1. Stays /\ done' = done /\ tries' = tries /\ unsafe' = unsafe
    BY <1>9, RotateStays DEF Rotate, ghosts
  <2> QED BY <1>2, <2>1
<1>10. CASE Replace
  <2>1. CASE Primary.sum = Absent
    <3>1. LockInv' /\ Where' /\ Completed
      BY <1>10, <2>1, ReplaceStays
    <3>2. /\ writer # NoWrite /\ writer.id = written /\ done < written /\ tries > 0
          /\ writer.at = ReplaceStep /\ writer.id \in 1 .. written
      BY <1>1, <1>10, Holder DEF LockInv, Replace, Typed
    <3>3. done' = written /\ unsafe' = FALSE /\ tries' = 0 /\ FileInv'
      BY <1>1, <3>1, <3>2 DEF Completed, FileInv
    <3>4. Found' = written
      BY <3>3, FoundIsNext DEF Lost
    <3> QED BY <1>5, <3>1, <3>2, <3>4 DEF Typed
  <2>2. CASE Primary.sum # Absent
    <3>1. Stays /\ done' = done /\ tries' = tries /\ unsafe' = unsafe
      BY <1>10, <2>2, ReplaceStays DEF ghosts
    <3> QED BY <1>2, <3>1
  <2> QED BY <2>1, <2>2
<1>11. CASE Sidecar
  <2>1. /\ LockInv' /\ Where' /\ Completed /\ Primary' = Pair(writer.id)
        /\ writer.id \in Writes /\ (First \/ (done < writer.id /\ tries > 0))
    BY <1>11, SidecarEnds DEF Sidecar
  <2>2. done' = writer.id /\ unsafe' = FALSE /\ tries' = 0 /\ FileInv'
    BY <1>1, <2>1 DEF Completed, FileInv
  <2>3. Found' = writer.id
    BY <2>2, FoundIsNext DEF Lost
  <2>4. CASE First
    <3>1. Found = done /\ done = writer.id /\ tries = 0 /\ unsafe = FALSE
      BY <1>1, <2>4, FoundIs DEF First, Lost, Typed
    <3> QED BY <2>2, <2>3, <3>1 DEF Cell!vars
  <2>5. CASE ~First
    BY <1>1, <1>5, <2>1, <2>3, <2>5 DEF Typed, Writes
  <2> QED BY <2>4, <2>5
<1>12. CASE RotateFails
  <2>1. /\ Cut /\ writer.at \in {1, 2, 3, 4} /\ done' = done /\ tries' = tries /\ unsafe'
        /\ written' = written
    BY <1>1, <1>12, CutCopies, TheRotation DEF RotateFails, Typed, Unsafe
  <2>2. /\ Primary' = Primary /\ writer # NoWrite /\ writer'.id = writer.id
        /\ writer'.at = ReplaceStep /\ writer' # NoWrite
    BY <1>1, <1>12, <2>1, Holder DEF Cut, Unmoved, RotateFails, NoWrite, Steps, Typed
  <2>3. LockInv'
    BY <1>1, <2>1, <2>2 DEF LockInv
  <2> QED BY <1>4, <2>1, <2>3
<1>13. CASE ReplaceFails
  BY <1>3, <1>13 DEF ReplaceFails, disk, ghosts
<1>14. CASE SidecarFails
  <2>1. Cut /\ writer' = NoWrite /\ written' = written /\ Unsafe(done = writer.id)
    BY <1>1, <1>14, CutCopies DEF SidecarFails, Typed, Return
  <2>2. Stays /\ done' = done /\ tries' = tries /\ (unsafe => unsafe')
    BY <2>1, CutStays DEF Unsafe
  <2> QED BY <1>2, <2>2
<1>15. CASE Damage
  <2>1. PICK d \in {Absent, Torn} : copy' = [copy EXCEPT !["primary"].data = d]
    BY <1>15 DEF Damage
  <2>2. Primary' = [data |-> d, sum |-> Primary.sum]
    BY <1>1, <2>1, PrimaryPut DEF Marks, Typed
  <2>3. writer = NoWrite /\ writer' = writer /\ written' = written /\ written \in Nat
    BY <1>1, <1>15 DEF Damage, Unlocked, Typed
  <2>4. LockInv'
    BY <1>1, <2>2, <2>3 DEF LockInv
  <2> QED BY <1>4, <1>15, <2>4 DEF Damage
<1>16. CASE Poll
  BY <1>3, <1>16 DEF Poll, disk, ghosts
<1> QED BY <1>6, <1>7, <1>8, <1>9, <1>10, <1>11, <1>12, <1>13, <1>14, <1>15, <1>16 DEF Next

\* The copies keep the last completed write through two interrupted ones in a row,
\* wherever the process dies or a file operation fails, and what a reader gets changes
\* only when a write completes: every step of the file is a step of DurableCell.
THEOREM FileIsDurable == Spec => Implements
<1> QED BY InitMaps, NextMaps, PTL DEF Spec, Implements, Cell!Spec
------------------------------------------------------------------------------
(* Versions tell writes apart                                                *)

\* The writes that are in a file, or were handed to the polling reader.
Held == {Primary.data, Prev.data, Prev2.data, poll.id} \cap Writes

\* As long as only this class touches the primary, it holds the newest of them, they
\* have versions in the order they were written, and the next has one more.
VersionInv == damage = 0 =>
    /\ Primary.data \notin Writes => Held = {}
    /\ poll.version = IF poll.id = 0 THEN 0 ELSE version[poll.id]
    /\ \A a \in Held : a <= Primary.data /\ a <= written /\ version[a] >= 1
    /\ \A a, b \in Held : a < b => version[a] < version[b]
    /\ writer.at \in 1 .. ReplaceStep => version[writer.id] = RawVersion + 1

LEMMA InitVersions == Init => VersionInv
<1> SUFFICES ASSUME Init PROVE VersionInv
  OBVIOUS
<1>1. /\ Primary.data = 0 /\ Prev.data = 0 /\ Prev2.data = 0 /\ poll.id = 0 /\ poll.version = 0
      /\ writer.at = 0
  BY DEF Init, Primary, Prev, Prev2, Copies, NoWrite
<1>2. Held = {}
  BY <1>1 DEF Held, Writes
<1> QED BY <1>1, <1>2 DEF VersionInv

\* Files are copied or cut, but no new write gets into one.
LEMMA VersionsKept ==
    ASSUME VersionInv, damage' = damage, UNCHANGED <<version, written>>,
           Primary'.data = Primary.data,
           {Prev.data, Prev2.data}' \subseteq {Primary.data, Prev.data, Prev2.data, Torn},
           \/ UNCHANGED poll
           \/ poll' = [id |-> Found, version |-> version[Found]] /\ Found \in Held,
           \/ writer'.at \notin 1 .. ReplaceStep
           \/ writer'.id = writer.id /\ writer.at \in 1 .. ReplaceStep
    PROVE  VersionInv'
<1> SUFFICES ASSUME damage = 0 PROVE VersionInv'
  BY DEF VersionInv
<1>1. Held' \subseteq Held
  BY DEF Held, Writes
<1>2. RawVersion' = RawVersion
  BY DEF RawVersion, Primary
<1>3. (poll.version = IF poll.id = 0 THEN 0 ELSE version[poll.id])'
  BY DEF VersionInv, Held, Writes
<1>4. /\ Primary'.data \notin Writes => Held' = {}
      /\ \A a \in Held' : a <= Primary'.data /\ a <= written' /\ version'[a] >= 1
      /\ \A a, b \in Held' : a < b => version'[a] < version'[b]
  BY <1>1 DEF VersionInv
<1>5. writer'.at \in 1 .. ReplaceStep => version'[writer'.id] = RawVersion' + 1
  BY <1>2 DEF VersionInv
<1> QED BY <1>3, <1>4, <1>5 DEF VersionInv

LEMMA BeginVersions ==
    ASSUME FileInv, VersionInv, NEW p \in Procs, NEW t \in Texts, Begin(p, t)
    PROVE  VersionInv'
<1> SUFFICES ASSUME damage = 0 PROVE VersionInv'
  BY DEF Begin, counts, VersionInv
<1> DEFINE w == written + 1
<1>1. /\ version \in [Writes -> Nat] /\ w \in Writes /\ written \in Nat
      /\ version' = [version EXCEPT ![w] = RawVersion + 1]
      /\ written' = w /\ writer'.id = w /\ poll' = poll /\ copy' = copy
      /\ poll \in [id : 0 .. MaxWrites, version : Nat]
  BY SafeStateAssumption DEF Begin, FileInv, Typed, Writes
<1>2. /\ Primary' = Primary /\ Prev' = Prev /\ Prev2' = Prev2 /\ Held' = Held
  BY <1>1 DEF Primary, Prev, Prev2, Held, Writes
<1>3. \A a \in Held : a # w /\ a \in Writes /\ version'[a] = version[a] /\ a <= w
  <2> SUFFICES ASSUME NEW a \in Held
               PROVE  a # w /\ a \in Writes /\ version'[a] = version[a] /\ a <= w
    OBVIOUS
  <2>1. a <= written /\ a \in Writes /\ a \in Int
    BY DEF VersionInv, Held, Writes
  <2> QED BY <1>1, <2>1
<1>4. RawVersion' = RawVersion
  <2>1. Primary.data \in Writes => Primary.data \in Held
    BY DEF Held
  <2> QED BY <1>2, <1>3, <2>1 DEF RawVersion, Primary
<1>5. version'[w] = RawVersion' + 1
  BY <1>1, <1>4
<1>6. (poll.version = IF poll.id = 0 THEN 0 ELSE version[poll.id])'
  <2>1. poll.id # 0 => poll.id \in Held
    BY <1>1 DEF Held, Writes
  <2> QED BY <1>1, <1>3, <2>1 DEF VersionInv
<1>7. /\ Primary'.data \notin Writes => Held' = {}
      /\ \A a \in Held' : a <= Primary'.data /\ a <= written' /\ version'[a] >= 1
      /\ \A a, b \in Held' : a < b => version'[a] < version'[b]
  BY <1>1, <1>2, <1>3 DEF VersionInv
<1> HIDE DEF w
<1> QED BY <1>1, <1>5, <1>6, <1>7 DEF VersionInv

LEMMA ReplaceVersions ==
    ASSUME FileInv, VersionInv, Replace
    PROVE  VersionInv'
<1> SUFFICES ASSUME damage = 0 PROVE VersionInv'
  BY DEF Replace, counts, VersionInv
<1> DEFINE w == writer.id
<1>1. /\ CopyTyped /\ writer # NoWrite /\ w \in 1 .. written /\ writer.at = ReplaceStep
      /\ written \in 0 .. MaxWrites /\ version \in [Writes -> Nat]
  BY Holder DEF Replace, FileInv, Typed
<1>2. w \in Writes /\ w \in Marks /\ w \in Int
  BY <1>1, SafeStateAssumption DEF Writes, Marks
<1>3. /\ Primary'.data = w /\ Prev' = Prev /\ Prev2' = Prev2
      /\ UNCHANGED <<version, written, poll>> /\ writer'.at = SidecarStep
  <2>1. writer'.at = SidecarStep
    BY <1>1, Holder DEF Replace, FileInv, Typed
  <2>2. Primary' = [data |-> w, sum |-> Primary.sum] /\ Prev' = Prev /\ Prev2' = Prev2
    BY <1>1, <1>2, PrimaryPut DEF Replace
  <2>3. UNCHANGED <<version, written, poll>>
    BY DEF Replace
  <2> QED BY <2>1, <2>2, <2>3
<1>4. Held' \subseteq Held \cup {w}
  BY <1>3 DEF Held, Writes
<1>5. w = written /\ Primary.data < w
  BY <1>1 DEF FileInv, LockInv
<1>6. ASSUME NEW a \in Held
      PROVE  a \in Int /\ a < w /\ version[a] \in Nat /\ version[a] >= 1 /\ version[a] < version[w]
  <2>1. Primary.data \in Held /\ a \in Writes /\ a \in Int /\ Primary.data \in Writes
    BY <1>6 DEF VersionInv, Held, Writes
  <2>2. a <= Primary.data /\ version[a] >= 1 /\ version[w] = version[Primary.data] + 1
    BY <1>1, <1>6, <2>1 DEF VersionInv, RawVersion, Primary
  <2>3. version[a] \in Nat /\ version[Primary.data] \in Nat /\ Primary.data \in Int
    BY <1>1, <2>1 DEF Writes
  <2>4. version[a] <= version[Primary.data]
    BY <1>6, <2>1, <2>2, <2>3 DEF VersionInv
  <2> QED BY <1>2, <1>5, <2>1, <2>2, <2>3, <2>4
<1>7. version[w] \in Nat /\ version[w] >= 1
  <2>1. RawVersion \in Nat
    BY <1>1, RawTyped
  <2>2. version[w] = RawVersion + 1
    BY <1>1 DEF VersionInv
  <2> QED BY <2>1, <2>2
<1> HIDE DEF w
<1>8. (poll.version = IF poll.id = 0 THEN 0 ELSE version[poll.id])'
  BY <1>3 DEF VersionInv
<1>9. \A a \in Held' : a <= Primary'.data /\ a <= written' /\ version'[a] >= 1
  BY <1>2, <1>3, <1>4, <1>5, <1>6, <1>7
<1>10. \A a, b \in Held' : a < b => version'[a] < version'[b]
  <2> SUFFICES ASSUME NEW a \in Held', NEW b \in Held', a < b PROVE version[a] < version[b]
    BY <1>3
  <2>1. CASE a \in Held /\ b \in Held
    BY <2>1 DEF VersionInv
  <2>2. CASE a = w
    BY <1>2, <1>4, <1>6, <2>2
  <2>3. CASE a \in Held /\ b = w
    BY <1>6, <2>3
  <2> QED BY <1>4, <2>1, <2>2, <2>3
<1> QED BY <1>2, <1>3, <1>8, <1>9, <1>10 DEF VersionInv

LEMMA NextVersions == FileInv /\ VersionInv /\ [Next]_vars => VersionInv'
<1> SUFFICES ASSUME FileInv, VersionInv, [Next]_vars PROVE VersionInv'
  OBVIOUS
<1>1. CopyTyped /\ WriterTyped /\ damage \in Nat
  BY DEF FileInv, Typed
<1>2. ASSUME UNCHANGED <<copy, version, written, poll, damage>>,
             writer' = writer \/ writer' = NoWrite
      PROVE  VersionInv'
  <2>1. Primary' = Primary /\ Prev' = Prev /\ Prev2' = Prev2
    BY <1>2 DEF Primary, Prev, Prev2
  <2>2. writer'.at \notin 1 .. ReplaceStep
        \/ (writer'.id = writer.id /\ writer.at \in 1 .. ReplaceStep)
    BY <1>2 DEF NoWrite
  <2> QED BY <1>2, <2>1, <2>2, VersionsKept
<1>3. ASSUME Cut, UNCHANGED <<version, written, poll, damage>>,
             \/ writer' = NoWrite
             \/ writer'.id = writer.id /\ writer.at \in 1 .. ReplaceStep
      PROVE  VersionInv'
  <2>1. Primary'.data = Primary.data
    BY <1>3 DEF Cut, Unmoved
  <2>2. {Prev.data, Prev2.data}' \subseteq {Primary.data, Prev.data, Prev2.data, Torn}
    BY <1>3 DEF Cut, Unmoved
  <2>3. writer'.at \notin 1 .. ReplaceStep
        \/ (writer'.id = writer.id /\ writer.at \in 1 .. ReplaceStep)
    BY <1>3 DEF NoWrite
  <2> QED BY <1>3, <2>1, <2>2, <2>3, VersionsKept
<1>4. CASE UNCHANGED vars
  BY <1>2, <1>4 DEF vars, disk, counts
<1>5. ASSUME NEW p \in Procs, Crash(p) PROVE VersionInv'
  <2>1. CASE writer.by = p
    BY <1>1, <1>3, <1>5, <2>1, CutCopies DEF Crash
  <2>2. CASE writer.by # p
    BY <1>2, <1>5, <2>2 DEF Crash
  <2> QED BY <2>1, <2>2
<1>6. ASSUME NEW p \in Procs, NEW t \in Texts, Begin(p, t) PROVE VersionInv'
  BY <1>6, BeginVersions
<1>7. CASE Rotate
  <2>1. /\ writer.at \in {1, 2, 3, 4} /\ writer'.id = writer.id
        /\ UNCHANGED <<version, written, poll, damage>>
    BY <1>1, <1>7, TheRotation, Holder DEF Rotate, counts
  <2>2. Rotated
    BY <1>1, <1>7, RotateCopies
  <2>3. Primary'.data = Primary.data
    BY <2>1, <2>2 DEF Rotated
  <2>4. {Prev.data, Prev2.data}' \subseteq {Primary.data, Prev.data, Prev2.data, Torn}
    BY <2>1, <2>2 DEF Rotated
  <2> QED BY <2>1, <2>3, <2>4, VersionsKept
<1>8. CASE Replace
  BY <1>8, ReplaceVersions
<1>9. CASE Sidecar
  <2>1. Primary' = Pair(writer.id) /\ Primary.data = writer.id
    BY <1>1, <1>9, SidecarEnds, Holder DEF FileInv, LockInv, Sidecar
  <2>2. Prev' = Prev /\ Prev2' = Prev2
    BY <1>9, SidecarEnds DEF Sidecar, Prev, Prev2, Copies, FileInv, Typed, CopyTyped
  <2>3. UNCHANGED <<version, written, poll, damage>> /\ writer'.at = 0
    BY <1>9 DEF Sidecar, Return, counts, NoWrite
  <2> QED BY <2>1, <2>2, <2>3, VersionsKept DEF Pair
<1>10. CASE RotateFails
  <2>1. writer.at \in {1, 2, 3, 4} /\ writer'.id = writer.id
    BY <1>1, <1>10, TheRotation, Holder DEF RotateFails
  <2> QED BY <1>1, <1>3, <1>10, <2>1, CutCopies DEF RotateFails
<1>11. CASE ReplaceFails
  BY <1>2, <1>11 DEF ReplaceFails, disk
<1>12. CASE SidecarFails
  BY <1>1, <1>3, <1>12, CutCopies DEF SidecarFails, Return
<1>13. CASE Damage
  BY <1>1, <1>13 DEF Damage, VersionInv
<1>14. CASE Poll
  <2>1. Found \in Held
    <3>1. Found \in Writes
      BY <1>1, <1>14, FoundTyped DEF Poll
    <3> QED BY <1>14, <3>1 DEF Poll, Found, Held, Primary, Prev, Prev2
  <2>2. /\ Primary' = Primary /\ Prev' = Prev /\ Prev2' = Prev2 /\ writer' = writer
        /\ writer.at = 0 /\ UNCHANGED <<version, written, damage>>
        /\ poll' = [id |-> Found, version |-> version[Found]]
    BY <1>14 DEF Poll, disk, counts, Primary, Prev, Prev2, Unlocked, NoWrite
  <2> QED BY <2>1, <2>2, VersionsKept
<1> QED BY <1>4, <1>5, <1>6, <1>7, <1>8, <1>9, <1>10, <1>11, <1>12, <1>13, <1>14 DEF Next

\* A polling reader that is told "unchanged" has what the file holds or something
\* newer, whatever was interrupted or cut, unless the primary was damaged from outside.
THEOREM VersionsTellApart == Spec => []UnchangedIsHeld
<1>1. FileInv /\ VersionInv => UnchangedIsHeld
  <2> SUFFICES ASSUME FileInv, VersionInv, damage = 0, Found # 0, version[Found] <= poll.version
               PROVE  Found <= poll.id
    BY DEF UnchangedIsHeld
  <2>1. /\ Found \in Writes /\ Found \in Held /\ Found \in Int /\ version[Found] \in Nat
    <3>1. Found \in Writes
      BY FoundTyped DEF FileInv, Typed
    <3>2. Found \in Held
      BY <3>1 DEF Found, Held, Primary, Prev, Prev2
    <3> QED BY <3>1, <3>2 DEF FileInv, Typed, Writes
  <2>2. poll.id \in Nat /\ poll.version \in Nat /\ version[Found] >= 1
    BY <2>1, SafeStateAssumption DEF FileInv, Typed, VersionInv
  <2>3. poll.id # 0 /\ poll.version = version[poll.id]
    BY <2>1, <2>2 DEF VersionInv
  <2>4. poll.id \in Held
    BY <2>3, SafeStateAssumption DEF Held, FileInv, Typed, Writes
  <2>5. ~(poll.id < Found)
    BY <2>1, <2>2, <2>3, <2>4 DEF VersionInv
  <2> QED BY <2>1, <2>2, <2>5
<1> QED BY <1>1, InitMaps, NextMaps, InitVersions, NextVersions, PTL DEF Spec
------------------------------------------------------------------------------
(* Folds over a sequence                                                     *)

\* A set of numbers has a least one.
LEMMA Least ==
    ASSUME NEW T, T \subseteq Nat, T # {}
    PROVE  \E p \in T : \A q \in T : p <= q
<1> DEFINE R == OpToRel(<, Nat)
<1>1. \A p, q \in Nat : p < q => <<p, q>> \in R
  BY DEF OpToRel
<1>2. IsWellFoundedOn(R, Nat)
  BY NatLessThanWellFounded
<1> HIDE DEF R
<1>3. PICK p \in T : \A q \in T : ~(<<q, p>> \in R)
  BY <1>2, WFMin
<1>4. \A q \in T : p \in Nat /\ q \in Nat /\ ~(q < p)
  BY <1>1, <1>3
<1> QED BY <1>4

\* What holds of 0 and is handed on by every number holds up to n.
LEMMA UpTo ==
    ASSUME NEW n \in Nat, NEW S, 0 \in S, \A p \in 1 .. n : p - 1 \in S => p \in S
    PROVE  \A p \in 0 .. n : p \in S
<1> DEFINE T == {p \in 0 .. n : p \notin S}
<1> SUFFICES ASSUME T # {} PROVE FALSE
  OBVIOUS
<1>1. PICK p \in T : \A q \in T : p <= q
  <2>1. T \subseteq Nat
    OBVIOUS
  <2> HIDE DEF T
  <2> QED BY <2>1, Least
<1>2. p \in 1 .. n /\ p - 1 \in 0 .. n
  OBVIOUS
<1>3. p - 1 \notin T
  BY <1>1, <1>2
<1> QED BY <1>2, <1>3

\* The maximum that folds take the elements by.
LEMMA MaxIs ==
    ASSUME NEW n \in Nat, NEW s \in SUBSET (1 .. n), s # {}
    PROVE  Max(s) \in s
<1> DEFINE T == {k \in 0 .. n : n - k \in s}
<1>1. ASSUME NEW y \in s PROVE n - y \in T
  <2>1. y \in 1 .. n /\ n - (n - y) = y
    OBVIOUS
  <2> QED BY <2>1
<1>2. PICK p \in T : \A q \in T : p <= q
  <2>1. T \subseteq Nat
    OBVIOUS
  <2>2. PICK y \in s : TRUE
    OBVIOUS
  <2>3. n - y \in T
    BY <1>1
  <2> HIDE DEF T
  <2> QED BY <2>1, <2>3, Least
<1>3. n - p \in s /\ p \in Nat
  OBVIOUS
<1> HIDE DEF T
<1>4. ASSUME NEW y \in s PROVE n - p >= y
  <2>1. p <= n - y /\ y \in 1 .. n
    BY <1>1, <1>2
  <2> QED BY <1>3, <2>1
<1>5. \E x \in s : \A y \in s : x >= y
  BY <1>3, <1>4
<1> QED BY <1>5 DEF Max

\* The elements of 1 .. p are taken from the last one down.
LEMMA MaxOfFirst ==
    ASSUME NEW p \in Nat, p > 0
    PROVE  Max(1 .. p) = p /\ (1 .. p) \ {p} = 1 .. (p - 1)
<1>1. Max(1 .. p) = p
  <2>1. \A x \in 1 .. p : (\A y \in 1 .. p : x >= y) => x = p
    OBVIOUS
  <2>2. p \in 1 .. p /\ \A y \in 1 .. p : p >= y
    OBVIOUS
  <2> QED BY <2>1, <2>2 DEF Max
<1> QED BY <1>1

\* The domains of the sequences are finite.
LEMMA IntervalIsFinite == \A n \in Nat : IsFiniteSet(1 .. n)
BY FS_Interval

\* A fold on the subsets of s that stays in X.
Unrolls(g, s, F, base, X) ==
    \A r \in SUBSET s : /\ g[r] \in X
                        /\ g[r] = IF r = {} THEN base ELSE F[<<g[r \ {Max(r)}], Max(r)>>]

\* Two of them agree: where they did not, a smaller subset would be one where they do not.
LEMMA UnrollsAlike ==
    ASSUME NEW n \in Nat, NEW s \in SUBSET (1 .. n), NEW F, NEW base, NEW X,
           NEW g, NEW h, Unrolls(g, s, F, base, X), Unrolls(h, s, F, base, X)
    PROVE  g[s] = h[s]
<1> DEFINE T == {r \in SUBSET s : g[r] # h[r]}
           D == 1 .. n
<1> SUFFICES ASSUME T # {} PROVE FALSE
  OBVIOUS
<1>1. IsWellFoundedOn(StrictSubsetOrdering(D), SUBSET D)
  <2>1. IsFiniteSet(D)
    BY IntervalIsFinite
  <2> HIDE DEF D
  <2> QED BY <2>1, FS_StrictSubsetOrderingWellFounded, FS_FiniteSubsetsOfFinite
<1>2. T \subseteq SUBSET D
  OBVIOUS
<1> HIDE DEF T
<1>3. PICK r \in T : \A q \in T : ~(<<q, r>> \in StrictSubsetOrdering(D))
  BY <1>1, <1>2, WFMin
<1> USE DEF T
<1>4. r \in SUBSET s /\ g[r] # h[r] /\ r # {}
  BY <1>3 DEF Unrolls
<1> DEFINE m == Max(r)
           q == r \ {m}
<1>5. m \in r
  BY <1>4, MaxIs
<1>6. q \in SUBSET s /\ <<q, r>> \in StrictSubsetOrdering(D)
  BY <1>4, <1>5 DEF StrictSubsetOrdering
<1>7. g[q] = h[q]
  BY <1>3, <1>6
<1>8. g[r] = F[<<g[q], m>>] /\ h[r] = F[<<h[q], m>>]
  BY <1>4 DEF Unrolls
<1> QED BY <1>4, <1>7, <1>8

\* Every step function has one.
LEMMA UnrollsExist ==
    ASSUME NEW n \in Nat, NEW X, NEW base \in X, NEW F \in [X \X (1 .. n) -> X]
    PROVE  \E g : Unrolls(g, 1 .. n, F, base, X)
<1> DEFINE D == 1 .. n
           Has(s) == \E g : Unrolls(g, s, F, base, X)
           T == {s \in SUBSET D : ~Has(s)}
<1> HIDE DEF Has
<1> SUFFICES ASSUME T # {} PROVE FALSE
  BY DEF Has
<1>1. IsWellFoundedOn(StrictSubsetOrdering(D), SUBSET D)
  <2>1. IsFiniteSet(D)
    BY IntervalIsFinite
  <2> HIDE DEF D
  <2> QED BY <2>1, FS_StrictSubsetOrderingWellFounded, FS_FiniteSubsetsOfFinite
<1>2. T \subseteq SUBSET D
  OBVIOUS
<1> HIDE DEF T
<1>3. PICK s \in T : \A q \in T : ~(<<q, s>> \in StrictSubsetOrdering(D))
  BY <1>1, <1>2, WFMin
<1> USE DEF T
<1>4. s \in SUBSET D /\ ~Has(s)
  BY <1>3
<1>5. ASSUME NEW r \in SUBSET s, r # s PROVE Has(r)
  BY <1>3, <1>4, <1>5 DEF StrictSubsetOrdering
<1> DEFINE c(r) == CHOOSE g : Unrolls(g, r, F, base, X)
           v(r) == c(r)[r]
           m == Max(s)
           g == [r \in SUBSET s |-> IF r # s THEN v(r)
                                    ELSE IF s = {} THEN base ELSE F[<<v(s \ {m}), m>>]]
<1>6. ASSUME NEW r \in SUBSET s, r # s PROVE Unrolls(c(r), r, F, base, X)
  BY <1>5, <1>6 DEF Has
<1> HIDE DEF c
<1>7. ASSUME NEW r \in SUBSET s, r # s
      PROVE  /\ v(r) \in X
             /\ v(r) = IF r = {} THEN base ELSE F[<<v(r \ {Max(r)}), Max(r)>>]
  <2>1. v(r) \in X /\ v(r) = IF r = {} THEN base ELSE F[<<c(r)[r \ {Max(r)}], Max(r)>>]
    BY <1>6, <1>7 DEF Unrolls
  <2>2. CASE r # {}
    <3> DEFINE q == r \ {Max(r)}
    <3>1. Max(r) \in r /\ q \in SUBSET s /\ q # s
      BY <1>4, <2>2, MaxIs
    <3>2. Unrolls(c(r), q, F, base, X)
      BY <1>6, <1>7 DEF Unrolls
    <3>3. Unrolls(c(q), q, F, base, X)
      BY <1>6, <3>1
    <3> HIDE DEF q
    <3>4. q \in SUBSET (1 .. n)
      BY <1>4, <3>1
    <3>5. c(r)[q] = c(q)[q]
      BY <3>2, <3>3, <3>4, UnrollsAlike
    <3> QED BY <2>1, <2>2, <3>5 DEF q
  <2> QED BY <2>1, <2>2
<1>8. ASSUME s # {} PROVE m \in s /\ s \ {m} \in SUBSET s /\ s \ {m} # s
  BY <1>4, <1>8, MaxIs
<1> HIDE DEF v, m
<1>9. ASSUME NEW r \in SUBSET s
      PROVE  g[r] \in X /\ g[r] = IF r = {} THEN base ELSE F[<<g[r \ {Max(r)}], Max(r)>>]
  <2>1. CASE r # s
    <3>1. r # {} => r \ {Max(r)} \in SUBSET s /\ r \ {Max(r)} # s
      BY <2>1
    <3> QED BY <1>7, <2>1, <3>1
  <2>2. CASE r = s /\ s # {}
    <3>1. g[s \ {m}] = v(s \ {m}) /\ v(s \ {m}) \in X /\ m \in 1 .. n
      BY <1>4, <1>7, <1>8, <2>2
    <3>2. g[s] = F[<<v(s \ {m}), m>>]
      BY <2>2
    <3> QED BY <2>2, <3>1, <3>2 DEF m
  <2>3. CASE r = s /\ s = {}
    BY <2>3
  <2> QED BY <2>1, <2>2, <2>3
<1> HIDE DEF g
<1>10. Unrolls(g, s, F, base, X)
  BY <1>9 DEF Unrolls
<1> QED BY <1>4, <1>10 DEF Has

\* What the numbers w add up to.
Runs(h, w, n) == h[0] = 0 /\ \A p \in 1 .. n : h[p - 1] \in Nat /\ h[p] \in Nat /\ h[p] = h[p - 1] + w[p]
SumTo(w, n) == (CHOOSE h : Runs(h, w, n))[n]

LEMMA RunsAlike ==
    ASSUME NEW n \in Nat, NEW w, NEW g, NEW h, Runs(g, w, n), Runs(h, w, n)
    PROVE  g[n] = h[n]
<1> DEFINE S == {p \in 0 .. n : g[p] = h[p]}
<1>1. 0 \in S
  BY DEF Runs
<1>2. ASSUME NEW p \in 1 .. n, p - 1 \in S PROVE p \in S
  BY <1>2 DEF Runs
<1> HIDE DEF S
<1>3. n \in S
  BY <1>1, <1>2, UpTo
<1> QED BY <1>3 DEF S

\* A fold that adds numbers, and passes over what counts zero, computes their sum.
Adds(it, w, n) ==
    \A s \in SUBSET (1 .. n) :
        it[s] = IF s = {} THEN 0
                ELSE IF w[Max(s)] = 0 THEN it[s \ {Max(s)}] ELSE it[s \ {Max(s)}] + w[Max(s)]

LEMMA AddsRuns ==
    ASSUME NEW n \in Nat, NEW w \in [1 .. n -> Nat], NEW it, Adds(it, w, n)
    PROVE  Runs([p \in 0 .. n |-> it[1 .. p]], w, n)
<1> DEFINE h == [p \in 0 .. n |-> it[1 .. p]]
           S == {p \in 0 .. n : h[p] \in Nat}
<1>1. h[0] = 0
  <2>1. 0 \in 0 .. n /\ 1 .. 0 = {} /\ {} \in SUBSET (1 .. n)
    OBVIOUS
  <2> QED BY <2>1 DEF Adds
<1>2. ASSUME NEW p \in 1 .. n, h[p - 1] \in Nat PROVE h[p] \in Nat /\ h[p] = h[p - 1] + w[p]
  <2>1. p \in Nat /\ p > 0 /\ p - 1 \in 0 .. n /\ p \in 0 .. n /\ 1 .. p \in SUBSET (1 .. n) /\ p \in 1 .. p
    OBVIOUS
  <2>2. Max(1 .. p) = p /\ (1 .. p) \ {p} = 1 .. (p - 1)
    BY <2>1, MaxOfFirst
  <2>3. it[1 .. p] = IF w[p] = 0 THEN it[1 .. (p - 1)] ELSE it[1 .. (p - 1)] + w[p]
    BY <2>1, <2>2 DEF Adds
  <2>4. h[p] = it[1 .. p] /\ h[p - 1] = it[1 .. (p - 1)] /\ w[p] \in Nat
    BY <2>1
  <2> HIDE DEF h
  <2> QED BY <1>2, <2>3, <2>4
<1> HIDE DEF h
<1>3. ASSUME NEW p \in 1 .. n, p - 1 \in S PROVE p \in S
  BY <1>2, <1>3
<1>4. 0 \in S
  BY <1>1
<1> HIDE DEF S
<1>5. \A p \in 0 .. n : p \in S
  BY <1>3, <1>4, UpTo
<1>6. \A p \in 1 .. n : p \in S /\ p - 1 \in S
  BY <1>5
<1> QED BY <1>1, <1>2, <1>6 DEF Runs, h, S

LEMMA AddsExists ==
    ASSUME NEW n \in Nat, NEW w \in [1 .. n -> Nat]
    PROVE  \E g : Adds(g, w, n) /\ g = [s \in SUBSET (1 .. n) |-> g[s]]
<1> DEFINE F == [q \in Nat \X (1 .. n) |-> q[1] + w[q[2]]]
<1>1. F \in [Nat \X (1 .. n) -> Nat]
  OBVIOUS
<1>2. PICK g : Unrolls(g, 1 .. n, F, 0, Nat)
  BY <1>1, UnrollsExist
<1> DEFINE k == [s \in SUBSET (1 .. n) |-> g[s]]
<1>3. ASSUME NEW s \in SUBSET (1 .. n)
      PROVE  k[s] = IF s = {} THEN 0
                    ELSE IF w[Max(s)] = 0 THEN k[s \ {Max(s)}] ELSE k[s \ {Max(s)}] + w[Max(s)]
  <2>1. CASE s = {}
    BY <1>2, <2>1 DEF Unrolls
  <2>2. CASE s # {}
    <3>1. Max(s) \in 1 .. n /\ g[s \ {Max(s)}] \in Nat /\ g[s] = F[<<g[s \ {Max(s)}], Max(s)>>]
      BY <1>2, <2>2, MaxIs DEF Unrolls
    <3>2. /\ g[s] = g[s \ {Max(s)}] + w[Max(s)] /\ w[Max(s)] \in Nat
          /\ k[s \ {Max(s)}] = g[s \ {Max(s)}] /\ k[s] = g[s]
      BY <3>1
    <3> HIDE DEF k
    <3>3. w[Max(s)] = 0 => g[s] = g[s \ {Max(s)}]
      BY <3>1, <3>2
    <3> QED BY <2>2, <3>2, <3>3
  <2> QED BY <2>1, <2>2
<1>4. k = [s \in SUBSET (1 .. n) |-> k[s]]
  OBVIOUS
<1> HIDE DEF k
<1> QED BY <1>3, <1>4 DEF Adds

LEMMA SumRuns ==
    ASSUME NEW n \in Nat, NEW w \in [1 .. n -> Nat]
    PROVE  \E h : Runs(h, w, n) /\ SumTo(w, n) = h[n]
<1>1. \E h : Runs(h, w, n)
  BY AddsExists, AddsRuns
<1> QED BY <1>1 DEF SumTo

\* A fold that adds is the running sum.
LEMMA AddsUp ==
    ASSUME NEW n \in Nat, NEW w \in [1 .. n -> Nat], NEW it, Adds(it, w, n)
    PROVE  it[1 .. n] = SumTo(w, n)
<1> DEFINE h == [p \in 0 .. n |-> it[1 .. p]]
<1>1. Runs(h, w, n)
  BY AddsRuns
<1>2. h[n] = it[1 .. n]
  OBVIOUS
<1> HIDE DEF h
<1> QED BY <1>1, <1>2, SumRuns, RunsAlike

\* Sums of numbers are numbers.
LEMMA SumIsNat ==
    ASSUME NEW n \in Nat, NEW w \in [1 .. n -> Nat]
    PROVE  SumTo(w, n) \in Nat /\ (n = 0 => SumTo(w, n) = 0)
<1>1. PICK h : Runs(h, w, n) /\ SumTo(w, n) = h[n]
  BY SumRuns
<1>2. n = 0 \/ n \in 1 .. n
  OBVIOUS
<1> QED BY <1>1, <1>2 DEF Runs

\* One number more.
LEMMA SumOneMore ==
    ASSUME NEW n \in Nat, NEW w \in [1 .. n -> Nat], NEW v \in [1 .. (n + 1) -> Nat],
           \A p \in 1 .. n : v[p] = w[p]
    PROVE  SumTo(v, n + 1) = SumTo(w, n) + v[n + 1]
<1>1. PICK h : Runs(h, v, n + 1) /\ SumTo(v, n + 1) = h[n + 1]
  BY SumRuns
<1>2. Runs(h, w, n)
  BY <1>1 DEF Runs
<1>3. SumTo(w, n) = h[n]
  BY <1>2, SumRuns, RunsAlike
<1>4. n + 1 \in 1 .. (n + 1) /\ (n + 1) - 1 = n
  OBVIOUS
<1>5. h[n + 1] = h[n] + v[n + 1]
  BY <1>1, <1>4 DEF Runs
<1> QED BY <1>1, <1>3, <1>5
------------------------------------------------------------------------------
(* The folds of the ledger, turn by turn                                     *)

Match   == [buy : LotIds, sell : LotIds, qty : 1 .. MaxQty, day : 1 .. MaxDay]
Remains == [LotIds -> 0 .. MaxQty]
Accs    == [left : Nat, rem : Remains, matches : Seq(Match)]

LEMMA Numbers == MaxLots \in Nat /\ MaxQty \in Nat /\ MaxDay \in Nat /\ MaxStarts \in Nat
BY FillLedgerAssumption

\* One turn of the matching keeps its types.
LEMMA ConsumeTyped ==
    ASSUME NEW sell \in Lots, NEW acc \in Accs, NEW l \in Lots
    PROVE  Consume(sell, acc, l) \in Accs
<1> DEFINE n == MinOf(acc.left, acc.rem[l.id])
           m == [buy |-> l.id, sell |-> sell.id, qty |-> n, day |-> sell.day]
<1>1. CASE acc.left = 0 \/ ~OpenBuy(acc.rem, l, sell.ticker)
  BY <1>1 DEF Consume
<1>2. CASE ~(acc.left = 0 \/ ~OpenBuy(acc.rem, l, sell.ticker))
  <2>1. acc.left \in Nat /\ acc.left > 0 /\ acc.rem[l.id] \in 1 .. MaxQty
    BY <1>2, Numbers DEF Accs, Remains, Lots, OpenBuy
  <2>2. n \in 1 .. MaxQty /\ acc.left - n \in Nat /\ acc.rem[l.id] - n \in 0 .. MaxQty
    BY <2>1, Numbers DEF MinOf
  <2> HIDE DEF n
  <2>3. m \in Match
    BY <2>2 DEF Match, Lots
  <2>4. [acc.rem EXCEPT ![l.id] = @ - n] \in Remains
    BY <2>2 DEF Accs, Remains
  <2>5. Append(acc.matches, m) \in Seq(Match)
    BY <2>3 DEF Accs
  <2> HIDE DEF m
  <2>6. Consume(sell, acc, l) = [left |-> acc.left - n, rem |-> [acc.rem EXCEPT ![l.id] = @ - n],
                                 matches |-> Append(acc.matches, m)]
    BY <1>2 DEF Consume, n, m
  <2> QED BY <2>2, <2>4, <2>5, <2>6 DEF Accs
<1> QED BY <1>1, <1>2

\* MatchSell, lot by lot.
LEMMA MatchSellTurns ==
    ASSUME NEW sell \in Lots, NEW ls \in Seq(Lots), NEW r, NEW ms,
           Clamped(sell, ls, r, ms) \in Accs
    PROVE  \E h : /\ h[0] = Clamped(sell, ls, r, ms)
                  /\ \A p \in 1 .. Len(ls) : h[p] = Consume(sell, h[p - 1], ls[p])
                  /\ MatchSell(sell, ls, r, ms) = h[Len(ls)]
<1> DEFINE n == Len(ls)
           base == Clamped(sell, ls, r, ms)
           F == [q \in Accs \X (1 .. n) |-> Consume(sell, q[1], ls[q[2]])]
           R(g) == g = [s \in SUBSET DOMAIN ls |->
                          IF s = {} THEN base ELSE Consume(sell, g[s \ {Max(s)}], ls[Max(s)])]
           it == CHOOSE g : R(g)
           h == [p \in 0 .. n |-> it[1 .. p]]
<1>1. n \in Nat /\ DOMAIN ls = 1 .. n /\ \A p \in 1 .. n : ls[p] \in Lots
  OBVIOUS
<1>2. MatchSell(sell, ls, r, ms) = it[DOMAIN ls]
  BY DEF MatchSell, FoldLeft, MapThenFoldSet
<1> HIDE DEF n, base
<1>3. F \in [Accs \X (1 .. n) -> Accs]
  BY <1>1, ConsumeTyped
<1>4. PICK g : Unrolls(g, 1 .. n, F, base, Accs)
  BY <1>1, <1>3, UnrollsExist DEF base
<1>5. R([s \in SUBSET (1 .. n) |-> g[s]])
  <2> SUFFICES ASSUME NEW s \in SUBSET (1 .. n)
               PROVE  g[s] = IF s = {} THEN base ELSE Consume(sell, g[s \ {Max(s)}], ls[Max(s)])
    BY <1>1
  <2>1. CASE s = {}
    BY <1>4, <2>1 DEF Unrolls
  <2>2. CASE s # {}
    <3>1. Max(s) \in 1 .. n /\ g[s \ {Max(s)}] \in Accs /\ g[s] = F[<<g[s \ {Max(s)}], Max(s)>>]
      BY <1>1, <1>4, <2>2, MaxIs DEF Unrolls
    <3> QED BY <2>2, <3>1
  <2> QED BY <2>1, <2>2
<1>6. R(it)
  BY <1>5
<1> HIDE DEF it
<1>7. \A s \in SUBSET (1 .. n) :
         it[s] = IF s = {} THEN base ELSE Consume(sell, it[s \ {Max(s)}], ls[Max(s)])
  BY <1>1, <1>6
<1>8. ASSUME NEW p \in 1 .. n PROVE h[p] = Consume(sell, h[p - 1], ls[p])
  <2>1. p \in Nat /\ p > 0 /\ p - 1 \in 0 .. n /\ p \in 0 .. n /\ 1 .. p \in SUBSET (1 .. n) /\ p \in 1 .. p
    BY <1>1
  <2>2. Max(1 .. p) = p /\ (1 .. p) \ {p} = 1 .. (p - 1)
    BY <2>1, MaxOfFirst
  <2>3. it[1 .. p] = Consume(sell, it[(1 .. p) \ {Max(1 .. p)}], ls[Max(1 .. p)])
    BY <1>7, <2>1
  <2>4. h[p] = it[1 .. p] /\ h[p - 1] = it[1 .. (p - 1)]
    BY <2>1
  <2> HIDE DEF h
  <2> QED BY <2>2, <2>3, <2>4
<1>9. h[0] = base /\ h[n] = it[DOMAIN ls]
  <2>1. 0 \in 0 .. n /\ n \in 0 .. n /\ 1 .. 0 = {} /\ {} \in SUBSET (1 .. n)
    BY <1>1
  <2>2. it[{}] = base
    BY <1>7, <2>1
  <2> QED BY <1>1, <2>1, <2>2
<1> HIDE DEF h
<1> QED BY <1>2, <1>8, <1>9 DEF base, n

\* What a BUY has given, what a SELL has taken, and what is open, lot by lot.
GivenBy(ms, i) == [k \in 1 .. Len(ms) |-> IF ms[k].buy = i THEN ms[k].qty ELSE 0]
TakenBy(ms, i) == [k \in 1 .. Len(ms) |-> IF ms[k].sell = i THEN ms[k].qty ELSE 0]
OpenOf(ls, r, t) == [k \in 1 .. Len(ls) |-> IF OpenBuy(r, ls[k], t) THEN r[ls[k].id] ELSE 0]

\* The three quantities are sums over the matches and over the lots.
LEMMA GivenIsSum ==
    ASSUME NEW ms \in Seq(Match), NEW i
    PROVE  GivenBy(ms, i) \in [1 .. Len(ms) -> Nat] /\ Given(ms, i) = SumTo(GivenBy(ms, i), Len(ms))
<1> DEFINE n == Len(ms)
           w == GivenBy(ms, i)
           R(g) == g = [s \in SUBSET DOMAIN ms |->
                          IF s = {} THEN 0
                          ELSE IF ms[Max(s)].buy = i THEN g[s \ {Max(s)}] + ms[Max(s)].qty
                               ELSE g[s \ {Max(s)}]]
           it == CHOOSE g : R(g)
<1>1. n \in Nat /\ DOMAIN ms = 1 .. n /\ \A p \in 1 .. n : ms[p].qty \in Nat \ {0}
  <2>1. n \in Nat /\ DOMAIN ms = 1 .. n /\ \A p \in 1 .. n : ms[p] \in Match
    OBVIOUS
  <2> QED BY <2>1, Numbers DEF Match
<1>2. Given(ms, i) = it[DOMAIN ms]
  BY DEF Given, MatchedOf, FoldLeft, MapThenFoldSet
<1> HIDE DEF n
<1>3. w \in [1 .. n -> Nat] /\ \A p \in 1 .. n : w[p] = IF ms[p].buy = i THEN ms[p].qty ELSE 0
  BY <1>1 DEF GivenBy, n
<1> HIDE DEF w
<1>4. ASSUME NEW g, g = [s \in SUBSET (1 .. n) |-> g[s]] PROVE R(g) <=> Adds(g, w, n)
  <2>1. ASSUME NEW s \in SUBSET (1 .. n), s # {} PROVE Max(s) \in 1 .. n
    BY <1>1, <2>1, MaxIs
  <2>2. ASSUME NEW s \in SUBSET (1 .. n), s # {}
        PROVE  IF ms[Max(s)].buy = i THEN w[Max(s)] = ms[Max(s)].qty /\ w[Max(s)] # 0
               ELSE w[Max(s)] = 0
    BY <1>1, <1>3, <2>1, <2>2
  <2> DEFINE A(s) == IF s = {} THEN 0
                     ELSE IF ms[Max(s)].buy = i THEN g[s \ {Max(s)}] + ms[Max(s)].qty
                          ELSE g[s \ {Max(s)}]
             B(s) == IF s = {} THEN 0
                     ELSE IF w[Max(s)] = 0 THEN g[s \ {Max(s)}] ELSE g[s \ {Max(s)}] + w[Max(s)]
  <2>3. \A s \in SUBSET (1 .. n) : A(s) = B(s)
    BY <2>2
  <2>4. Adds(g, w, n) <=> \A s \in SUBSET (1 .. n) : g[s] = B(s)
    BY DEF Adds
  <2>5. R(g) <=> g = [s \in SUBSET (1 .. n) |-> A(s)]
    BY <1>1
  <2> HIDE DEF A, B, R
  <2> QED BY <1>4, <2>3, <2>4, <2>5
<1>5. \E g : R(g)
  BY <1>1, <1>3, <1>4, AddsExists
<1>6. R(it)
  BY <1>5
<1> HIDE DEF it
<1>7. it = [s \in SUBSET (1 .. n) |-> it[s]]
  BY <1>1, <1>6
<1>8. Adds(it, w, n)
  BY <1>4, <1>6, <1>7
<1> QED BY <1>1, <1>2, <1>3, <1>8, AddsUp DEF w, n

LEMMA TakenIsSum ==
    ASSUME NEW ms \in Seq(Match), NEW i
    PROVE  TakenBy(ms, i) \in [1 .. Len(ms) -> Nat] /\ Taken(ms, i) = SumTo(TakenBy(ms, i), Len(ms))
<1> DEFINE n == Len(ms)
           w == TakenBy(ms, i)
           R(g) == g = [s \in SUBSET DOMAIN ms |->
                          IF s = {} THEN 0
                          ELSE IF ms[Max(s)].sell = i THEN g[s \ {Max(s)}] + ms[Max(s)].qty
                               ELSE g[s \ {Max(s)}]]
           it == CHOOSE g : R(g)
<1>1. n \in Nat /\ DOMAIN ms = 1 .. n /\ \A p \in 1 .. n : ms[p].qty \in Nat \ {0}
  <2>1. n \in Nat /\ DOMAIN ms = 1 .. n /\ \A p \in 1 .. n : ms[p] \in Match
    OBVIOUS
  <2> QED BY <2>1, Numbers DEF Match
<1>2. Taken(ms, i) = it[DOMAIN ms]
  BY DEF Taken, MatchedOf, FoldLeft, MapThenFoldSet
<1> HIDE DEF n
<1>3. w \in [1 .. n -> Nat] /\ \A p \in 1 .. n : w[p] = IF ms[p].sell = i THEN ms[p].qty ELSE 0
  BY <1>1 DEF TakenBy, n
<1> HIDE DEF w
<1>4. ASSUME NEW g, g = [s \in SUBSET (1 .. n) |-> g[s]] PROVE R(g) <=> Adds(g, w, n)
  <2>1. ASSUME NEW s \in SUBSET (1 .. n), s # {} PROVE Max(s) \in 1 .. n
    BY <1>1, <2>1, MaxIs
  <2>2. ASSUME NEW s \in SUBSET (1 .. n), s # {}
        PROVE  IF ms[Max(s)].sell = i THEN w[Max(s)] = ms[Max(s)].qty /\ w[Max(s)] # 0
               ELSE w[Max(s)] = 0
    BY <1>1, <1>3, <2>1, <2>2
  <2> DEFINE A(s) == IF s = {} THEN 0
                     ELSE IF ms[Max(s)].sell = i THEN g[s \ {Max(s)}] + ms[Max(s)].qty
                          ELSE g[s \ {Max(s)}]
             B(s) == IF s = {} THEN 0
                     ELSE IF w[Max(s)] = 0 THEN g[s \ {Max(s)}] ELSE g[s \ {Max(s)}] + w[Max(s)]
  <2>3. \A s \in SUBSET (1 .. n) : A(s) = B(s)
    BY <2>2
  <2>4. Adds(g, w, n) <=> \A s \in SUBSET (1 .. n) : g[s] = B(s)
    BY DEF Adds
  <2>5. R(g) <=> g = [s \in SUBSET (1 .. n) |-> A(s)]
    BY <1>1
  <2> HIDE DEF A, B, R
  <2> QED BY <1>4, <2>3, <2>4, <2>5
<1>5. \E g : R(g)
  BY <1>1, <1>3, <1>4, AddsExists
<1>6. R(it)
  BY <1>5
<1> HIDE DEF it
<1>7. it = [s \in SUBSET (1 .. n) |-> it[s]]
  BY <1>1, <1>6
<1>8. Adds(it, w, n)
  BY <1>4, <1>6, <1>7
<1> QED BY <1>1, <1>2, <1>3, <1>8, AddsUp DEF w, n

LEMMA OpenIsSum ==
    ASSUME NEW ls \in Seq(Lots), NEW r \in Remains, NEW t
    PROVE  OpenOf(ls, r, t) \in [1 .. Len(ls) -> Nat] /\ TotalOpen(ls, r, t) = SumTo(OpenOf(ls, r, t), Len(ls))
<1> DEFINE n == Len(ls)
           w == OpenOf(ls, r, t)
           R(g) == g = [s \in SUBSET DOMAIN ls |->
                          IF s = {} THEN 0
                          ELSE IF OpenBuy(r, ls[Max(s)], t) THEN g[s \ {Max(s)}] + r[ls[Max(s)].id]
                               ELSE g[s \ {Max(s)}]]
           it == CHOOSE g : R(g)
<1>1. /\ n \in Nat /\ DOMAIN ls = 1 .. n
      /\ \A p \in 1 .. n : r[ls[p].id] \in Nat /\ (OpenBuy(r, ls[p], t) => r[ls[p].id] # 0)
  <2>1. n \in Nat /\ DOMAIN ls = 1 .. n /\ \A p \in 1 .. n : ls[p] \in Lots
    OBVIOUS
  <2>2. \A p \in 1 .. n : r[ls[p].id] \in 0 .. MaxQty
    BY <2>1 DEF Lots, Remains
  <2> QED BY <2>1, <2>2, Numbers DEF OpenBuy
<1>2. TotalOpen(ls, r, t) = it[DOMAIN ls]
  BY DEF TotalOpen, FoldLeft, MapThenFoldSet
<1> HIDE DEF n
<1>3. w \in [1 .. n -> Nat] /\ \A p \in 1 .. n : w[p] = IF OpenBuy(r, ls[p], t) THEN r[ls[p].id] ELSE 0
  BY <1>1 DEF OpenOf, n
<1> HIDE DEF w
<1>4. ASSUME NEW g, g = [s \in SUBSET (1 .. n) |-> g[s]] PROVE R(g) <=> Adds(g, w, n)
  <2>1. ASSUME NEW s \in SUBSET (1 .. n), s # {} PROVE Max(s) \in 1 .. n
    BY <1>1, <2>1, MaxIs
  <2>2. ASSUME NEW s \in SUBSET (1 .. n), s # {}
        PROVE  IF OpenBuy(r, ls[Max(s)], t) THEN w[Max(s)] = r[ls[Max(s)].id] /\ w[Max(s)] # 0
               ELSE w[Max(s)] = 0
    BY <1>1, <1>3, <2>1, <2>2
  <2> DEFINE A(s) == IF s = {} THEN 0
                     ELSE IF OpenBuy(r, ls[Max(s)], t) THEN g[s \ {Max(s)}] + r[ls[Max(s)].id]
                          ELSE g[s \ {Max(s)}]
             B(s) == IF s = {} THEN 0
                     ELSE IF w[Max(s)] = 0 THEN g[s \ {Max(s)}] ELSE g[s \ {Max(s)}] + w[Max(s)]
  <2>3. \A s \in SUBSET (1 .. n) : A(s) = B(s)
    BY <2>2
  <2>4. Adds(g, w, n) <=> \A s \in SUBSET (1 .. n) : g[s] = B(s)
    BY DEF Adds
  <2>5. R(g) <=> g = [s \in SUBSET (1 .. n) |-> A(s)]
    BY <1>1
  <2> HIDE DEF A, B, R
  <2> QED BY <1>4, <2>3, <2>4, <2>5
<1>5. \E g : R(g)
  BY <1>1, <1>3, <1>4, AddsExists
<1>6. R(it)
  BY <1>5
<1> HIDE DEF it
<1>7. it = [s \in SUBSET (1 .. n) |-> it[s]]
  BY <1>1, <1>6
<1>8. Adds(it, w, n)
  BY <1>4, <1>6, <1>7
<1> QED BY <1>1, <1>2, <1>3, <1>8, AddsUp DEF w, n

\* Before the first match, nothing is given or taken.
LEMMA NothingMatched == \A i : Given(<<>>, i) = 0 /\ Taken(<<>>, i) = 0
<1> SUFFICES ASSUME NEW i PROVE Given(<<>>, i) = 0 /\ Taken(<<>>, i) = 0
  OBVIOUS
<1>1. <<>> \in Seq(Match) /\ Len(<<>>) = 0
  OBVIOUS
<1>2. /\ GivenBy(<<>>, i) \in [1 .. 0 -> Nat] /\ Given(<<>>, i) = SumTo(GivenBy(<<>>, i), 0)
      /\ TakenBy(<<>>, i) \in [1 .. 0 -> Nat] /\ Taken(<<>>, i) = SumTo(TakenBy(<<>>, i), 0)
  BY <1>1, GivenIsSum, TakenIsSum
<1> QED BY <1>2, SumIsNat

\* What is given and taken is a number.
LEMMA MatchedIsNat ==
    ASSUME NEW ms \in Seq(Match), NEW i
    PROVE  Given(ms, i) \in Nat /\ Taken(ms, i) \in Nat
<1>1. Len(ms) \in Nat
  OBVIOUS
<1> QED BY <1>1, GivenIsSum, TakenIsSum, SumIsNat

\* One match more adds its size to its BUY and to its SELL only.
LEMMA OneMatchMore ==
    ASSUME NEW ms \in Seq(Match), NEW m \in Match, NEW i
    PROVE  /\ Given(Append(ms, m), i) = Given(ms, i) + (IF m.buy = i THEN m.qty ELSE 0)
           /\ Taken(Append(ms, m), i) = Taken(ms, i) + (IF m.sell = i THEN m.qty ELSE 0)
<1> DEFINE n == Len(ms)
           new == Append(ms, m)
<1>1. /\ n \in Nat /\ new \in Seq(Match) /\ Len(new) = n + 1 /\ new[n + 1] = m
      /\ \A p \in 1 .. n : new[p] = ms[p] /\ p \in 1 .. (n + 1)
  OBVIOUS
<1> HIDE DEF new
<1>2. /\ GivenBy(ms, i) \in [1 .. n -> Nat] /\ Given(ms, i) = SumTo(GivenBy(ms, i), n)
      /\ TakenBy(ms, i) \in [1 .. n -> Nat] /\ Taken(ms, i) = SumTo(TakenBy(ms, i), n)
  BY GivenIsSum, TakenIsSum
<1>3. /\ GivenBy(new, i) \in [1 .. (n + 1) -> Nat] /\ Given(new, i) = SumTo(GivenBy(new, i), n + 1)
      /\ TakenBy(new, i) \in [1 .. (n + 1) -> Nat] /\ Taken(new, i) = SumTo(TakenBy(new, i), n + 1)
  BY <1>1, GivenIsSum, TakenIsSum
<1>4. /\ \A p \in 1 .. n : GivenBy(new, i)[p] = GivenBy(ms, i)[p] /\ TakenBy(new, i)[p] = TakenBy(ms, i)[p]
      /\ GivenBy(new, i)[n + 1] = IF m.buy = i THEN m.qty ELSE 0
      /\ TakenBy(new, i)[n + 1] = IF m.sell = i THEN m.qty ELSE 0
  BY <1>1 DEF GivenBy, TakenBy
<1> HIDE DEF n
<1>5. SumTo(GivenBy(new, i), n + 1) = SumTo(GivenBy(ms, i), n) + GivenBy(new, i)[n + 1]
  BY <1>1, <1>2, <1>3, <1>4, SumOneMore
<1>6. SumTo(TakenBy(new, i), n + 1) = SumTo(TakenBy(ms, i), n) + TakenBy(new, i)[n + 1]
  BY <1>1, <1>2, <1>3, <1>4, SumOneMore
<1> QED BY <1>2, <1>3, <1>4, <1>5, <1>6 DEF new

\* The clamped SELL is no larger than the SELL.
LEMMA ClampedTyped ==
    ASSUME NEW sell \in Lots, NEW ls \in Seq(Lots), NEW r \in Remains, NEW ms \in Seq(Match)
    PROVE  Clamped(sell, ls, r, ms) \in Accs /\ Clamped(sell, ls, r, ms).left <= sell.qty
<1>1. TotalOpen(ls, r, sell.ticker) \in Nat
  <2> DEFINE t == sell.ticker
  <2>1. Len(ls) \in Nat
    OBVIOUS
  <2> HIDE DEF t
  <2>2. /\ OpenOf(ls, r, t) \in [1 .. Len(ls) -> Nat]
        /\ TotalOpen(ls, r, t) = SumTo(OpenOf(ls, r, t), Len(ls))
    BY OpenIsSum
  <2>3. TotalOpen(ls, r, t) \in Nat
    BY <2>1, <2>2, SumIsNat
  <2> QED BY <2>3 DEF t
<1>2. sell.qty \in Nat
  BY Numbers DEF Lots
<1>3. MinOf(sell.qty, TotalOpen(ls, r, sell.ticker)) \in Nat
      /\ MinOf(sell.qty, TotalOpen(ls, r, sell.ticker)) <= sell.qty
  BY <1>1, <1>2 DEF MinOf
<1> QED BY <1>3 DEF Clamped, Accs

\* What one turn gives, the lot has less of and the SELL needs less of.
LEMMA ConsumeGives ==
    ASSUME NEW sell \in Lots, NEW acc \in Accs, NEW l \in Lots,
           NEW after, after = Consume(sell, acc, l)
    PROVE  /\ \A i \in LotIds :
                /\ after.rem[i] <= acc.rem[i] /\ (i # l.id => after.rem[i] = acc.rem[i])
                /\ after.rem[i] + Given(after.matches, i) = acc.rem[i] + Given(acc.matches, i)
           /\ \A i \in LotIds : i # sell.id => Taken(after.matches, i) = Taken(acc.matches, i)
           /\ after.left + Taken(after.matches, sell.id) = acc.left + Taken(acc.matches, sell.id)
           /\ acc.left = 0 \/ l.side # "BUY" \/ l.ticker # sell.ticker => after = acc
           /\ l.side = "BUY" /\ l.ticker = sell.ticker /\ after.left > 0 => after.rem[l.id] = 0
<1>1. CASE acc.left = 0 \/ ~OpenBuy(acc.rem, l, sell.ticker)
  <2>1. after = acc
    BY <1>1 DEF Consume
  <2>2. \A i \in LotIds : acc.rem[i] \in Nat
    BY Numbers DEF Accs, Remains
  <2>3. l.id \in LotIds
    BY DEF Lots
  <2> QED BY <1>1, <2>1, <2>2, <2>3 DEF OpenBuy, Accs
<1>2. CASE ~(acc.left = 0 \/ ~OpenBuy(acc.rem, l, sell.ticker))
  <2> DEFINE n == MinOf(acc.left, acc.rem[l.id])
             m == [buy |-> l.id, sell |-> sell.id, qty |-> n, day |-> sell.day]
  <2>1. /\ acc.left \in Nat /\ acc.left > 0 /\ acc.rem[l.id] \in 1 .. MaxQty
        /\ \A i \in LotIds : acc.rem[i] \in Nat
        /\ acc.matches \in Seq(Match) /\ l.id \in LotIds /\ sell.id \in LotIds
    BY <1>2, Numbers DEF Accs, Remains, Lots, OpenBuy
  <2>2. n \in 1 .. MaxQty /\ n <= acc.left /\ n <= acc.rem[l.id] /\ (n = acc.left \/ n = acc.rem[l.id])
    BY <2>1, Numbers DEF MinOf
  <2>3. m \in Match
    BY <2>2 DEF Match, Lots
  <2>4. /\ after.left = acc.left - n
        /\ after.rem = [acc.rem EXCEPT ![l.id] = @ - n]
        /\ after.matches = Append(acc.matches, m)
    BY <1>2 DEF Consume
  <2>5. m.buy = l.id /\ m.sell = sell.id /\ m.qty = n
    OBVIOUS
  <2> HIDE DEF m, n
  <2>6. \A i \in LotIds : after.rem[i] = IF i = l.id THEN acc.rem[i] - n ELSE acc.rem[i]
    BY <2>4 DEF Accs, Remains
  <2>7. \A i \in LotIds :
          /\ Given(after.matches, i) = Given(acc.matches, i) + (IF i = l.id THEN n ELSE 0)
          /\ Taken(after.matches, i) = Taken(acc.matches, i) + (IF i = sell.id THEN n ELSE 0)
          /\ Given(acc.matches, i) \in Nat /\ Taken(acc.matches, i) \in Nat
    BY <2>1, <2>3, <2>4, <2>5, OneMatchMore, MatchedIsNat
  <2>8. n \in Nat
    BY <2>2, Numbers
  <2>9. \A i \in LotIds :
          /\ after.rem[i] <= acc.rem[i] /\ (i # l.id => after.rem[i] = acc.rem[i])
          /\ after.rem[i] + Given(after.matches, i) = acc.rem[i] + Given(acc.matches, i)
    <3> TAKE i \in LotIds
    <3>1. CASE i = l.id
      BY <2>1, <2>6, <2>7, <2>8, <3>1
    <3>2. CASE i # l.id
      BY <2>1, <2>6, <2>7, <3>2
    <3> QED BY <3>1, <3>2
  <2>10. \A i \in LotIds : i # sell.id => Taken(after.matches, i) = Taken(acc.matches, i)
    BY <2>7
  <2>11. after.left + Taken(after.matches, sell.id) = acc.left + Taken(acc.matches, sell.id)
    BY <2>1, <2>4, <2>7, <2>8
  <2>12. after.left > 0 => after.rem[l.id] = 0
    BY <2>1, <2>2, <2>4, <2>6, <2>8
  <2> QED BY <1>2, <2>1, <2>9, <2>10, <2>11, <2>12 DEF OpenBuy
<1> QED BY <1>1, <1>2

\* Lots are kept in the order of their ids.
Ordered(ls) == \A j, k \in DOMAIN ls : j < k => ls[j].id < ls[k].id
Older(ls, j, k) == /\ j < k /\ ls[j].side = "BUY" /\ ls[k].side = "BUY"
                   /\ ls[j].ticker = ls[k].ticker

\* What a sequence of lots is made of.
LEMMA LotsOf ==
    ASSUME NEW ls \in Seq(Lots)
    PROVE  /\ Len(ls) \in Nat /\ DOMAIN ls = 1 .. Len(ls)
           /\ \A k \in 1 .. Len(ls) : /\ ls[k] \in Lots /\ ls[k].id \in LotIds /\ ls[k].id \in Nat
                                      /\ ls[k].side \in {"BUY", "SELL"} /\ ls[k].qty \in 1 .. MaxQty
           /\ Ordered(ls) => \A j, k \in 1 .. Len(ls) : j # k => ls[j].id # ls[k].id
<1>1. Len(ls) \in Nat /\ DOMAIN ls = 1 .. Len(ls) /\ \A k \in 1 .. Len(ls) : ls[k] \in Lots
  OBVIOUS
<1>2. LotIds \subseteq Nat
  BY Numbers DEF LotIds
<1>3. \A k \in 1 .. Len(ls) : /\ ls[k] \in Lots /\ ls[k].id \in LotIds /\ ls[k].id \in Nat
                              /\ ls[k].side \in {"BUY", "SELL"} /\ ls[k].qty \in 1 .. MaxQty
  BY <1>1, <1>2 DEF Lots
<1>4. ASSUME Ordered(ls), NEW j \in 1 .. Len(ls), NEW k \in 1 .. Len(ls), j # k
      PROVE  ls[j].id # ls[k].id
  <2>1. \/ j < k /\ ls[j].id < ls[k].id
        \/ k < j /\ ls[k].id < ls[j].id
    <3>1. j < k \/ k < j
      BY <1>1, <1>4
    <3> QED BY <1>1, <1>4, <3>1 DEF Ordered
  <2>2. ls[j].id \in Nat /\ ls[k].id \in Nat
    BY <1>3
  <2> QED BY <2>1, <2>2
<1> QED BY <1>1, <1>3, <1>4

\* MatchSell takes from the lots of its ticker what it needs, and takes all of a lot
\* before it takes from the next.
LEMMA MatchSellTakes ==
    ASSUME NEW sell \in Lots, NEW ls \in Seq(Lots), Ordered(ls), NEW r \in Remains,
           NEW ms \in Seq(Match), NEW after, after = MatchSell(sell, ls, r, ms)
    PROVE  /\ after \in Accs
           /\ \A i \in LotIds :
                /\ after.rem[i] <= r[i]
                /\ after.rem[i] + Given(after.matches, i) = r[i] + Given(ms, i)
           /\ \A i \in LotIds : i # sell.id => Taken(after.matches, i) = Taken(ms, i)
           /\ Taken(after.matches, sell.id) <= Taken(ms, sell.id) + sell.qty
           /\ \A j, k \in DOMAIN ls :
                Older(ls, j, k) /\ after.rem[ls[k].id] < r[ls[k].id] => after.rem[ls[j].id] = 0
<1> DEFINE base == Clamped(sell, ls, r, ms)
           n == Len(ls)
<1>1. /\ n \in Nat /\ DOMAIN ls = 1 .. n
      /\ \A k \in 1 .. n : ls[k] \in Lots /\ ls[k].id \in LotIds
  BY LotsOf
<1>p. \A j, k \in 1 .. n : j # k => ls[j].id # ls[k].id
  BY LotsOf
<1>2. base \in Accs /\ base.left <= sell.qty /\ base.rem = r /\ base.matches = ms
  BY ClampedTyped DEF Clamped
<1>3. PICK h : /\ h[0] = base
               /\ \A p \in 1 .. n : h[p] = Consume(sell, h[p - 1], ls[p])
               /\ after = h[n]
  BY <1>2, MatchSellTurns
<1> HIDE DEF base, n
<1> DEFINE Sums(a) ==
              /\ \A i \in LotIds : /\ a.rem[i] <= r[i]
                                   /\ a.rem[i] + Given(a.matches, i) = r[i] + Given(ms, i)
              /\ \A i \in LotIds : i # sell.id => Taken(a.matches, i) = Taken(ms, i)
              /\ a.left + Taken(a.matches, sell.id) = base.left + Taken(ms, sell.id)
           Turn(p, a) ==
              /\ \A j \in 1 .. n : j <= p /\ ls[j].side = "BUY" /\ ls[j].ticker = sell.ticker
                                   /\ a.left > 0 => a.rem[ls[j].id] = 0
              /\ \A k \in 1 .. n : p < k => a.rem[ls[k].id] = r[ls[k].id]
              /\ \A j, k \in 1 .. n : Older(ls, j, k) /\ k <= p /\ a.rem[ls[k].id] < r[ls[k].id]
                                      => a.rem[ls[j].id] = 0
           S == {p \in 0 .. n : h[p] \in Accs /\ Sums(h[p]) /\ Turn(p, h[p])}
<1>4. \A i \in LotIds : r[i] \in Nat /\ Given(ms, i) \in Nat /\ Taken(ms, i) \in Nat
  BY MatchedIsNat, Numbers DEF Remains
<1>5. \A a \in Accs : /\ a.left \in Nat /\ a.matches \in Seq(Match)
                      /\ \A i \in LotIds : /\ a.rem[i] \in Nat
                                           /\ Given(a.matches, i) \in Nat /\ Taken(a.matches, i) \in Nat
  BY MatchedIsNat, Numbers DEF Accs, Remains
<1>6. sell.id \in LotIds /\ sell.qty \in Nat
  BY Numbers DEF Lots
<1>7. 0 \in S
  <2>1. Sums(base)
    BY <1>2, <1>4
  <2>2. Turn(0, base)
    BY <1>1, <1>2, <1>4
  <2> QED BY <1>1, <1>2, <1>3, <2>1, <2>2
<1>8. ASSUME NEW p \in 1 .. n, p - 1 \in S PROVE p \in S
  <2> DEFINE a == h[p - 1]
             b == h[p]
             l == ls[p]
  <2>1. a \in Accs /\ Sums(a) /\ Turn(p - 1, a)
    BY <1>8
  <2>2. l \in Lots /\ l.id \in LotIds /\ b = Consume(sell, a, l)
    BY <1>1, <1>3
  <2> HIDE DEF a, b, l
  <2>3. b \in Accs
    BY <2>1, <2>2, ConsumeTyped
  <2>4. /\ \A i \in LotIds :
             /\ b.rem[i] <= a.rem[i] /\ (i # l.id => b.rem[i] = a.rem[i])
             /\ b.rem[i] + Given(b.matches, i) = a.rem[i] + Given(a.matches, i)
        /\ \A i \in LotIds : i # sell.id => Taken(b.matches, i) = Taken(a.matches, i)
        /\ b.left + Taken(b.matches, sell.id) = a.left + Taken(a.matches, sell.id)
        /\ a.left = 0 \/ l.side # "BUY" \/ l.ticker # sell.ticker => b = a
        /\ l.side = "BUY" /\ l.ticker = sell.ticker /\ b.left > 0 => b.rem[l.id] = 0
    BY <2>1, <2>2, ConsumeGives
  <2>5. Sums(b)
    <3>1. \A i \in LotIds : /\ b.rem[i] <= r[i]
                            /\ b.rem[i] + Given(b.matches, i) = r[i] + Given(ms, i)
      <4> TAKE i \in LotIds
      <4>1. {a.rem[i], b.rem[i], r[i], Given(a.matches, i), Given(b.matches, i), Given(ms, i)} \subseteq Nat
        BY <1>4, <1>5, <2>1, <2>3
      <4>2. a.rem[i] <= r[i] /\ a.rem[i] + Given(a.matches, i) = r[i] + Given(ms, i)
        BY <2>1
      <4>3. b.rem[i] <= a.rem[i] /\ b.rem[i] + Given(b.matches, i) = a.rem[i] + Given(a.matches, i)
        BY <2>4
      <4> QED BY <4>1, <4>2, <4>3
    <3>2. \A i \in LotIds : i # sell.id => Taken(b.matches, i) = Taken(ms, i)
      BY <2>1, <2>4
    <3>3. b.left + Taken(b.matches, sell.id) = base.left + Taken(ms, sell.id)
      BY <2>1, <2>4
    <3> QED BY <3>1, <3>2, <3>3
  <2>6. \A j \in 1 .. n : ls[j].id \in LotIds /\ (j # p => ls[j].id # l.id)
    BY <1>1, <1>p DEF l
  <2>7. \A i \in LotIds : a.rem[i] \in Nat /\ b.rem[i] \in Nat
    BY <1>5, <2>1, <2>3
  <2>8. a.left \in Nat /\ b.left \in Nat
    BY <1>5, <2>1, <2>3
  <2>9. ASSUME NEW j \in 1 .. n, j <= p, ls[j].side = "BUY", ls[j].ticker = sell.ticker, b.left > 0
        PROVE  b.rem[ls[j].id] = 0
    <3>1. CASE j = p
      BY <2>4, <2>9, <3>1 DEF l
    <3>2. CASE j # p
      <4>1. j <= p - 1
        BY <2>9, <3>2
      <4>2. a.left > 0
        BY <2>4, <2>8, <2>9
      <4>3. a.rem[ls[j].id] = 0
        BY <2>1, <2>9, <4>1, <4>2
      <4> QED BY <2>4, <2>6, <3>2, <4>3
    <3> QED BY <3>1, <3>2
  <2>10. ASSUME NEW k \in 1 .. n, p < k PROVE b.rem[ls[k].id] = r[ls[k].id]
    <3>1. p - 1 < k /\ k # p
      BY <2>10
    <3> QED BY <2>1, <2>4, <2>6, <3>1
  <2>11. ASSUME NEW j \in 1 .. n, NEW k \in 1 .. n, Older(ls, j, k), k <= p,
                b.rem[ls[k].id] < r[ls[k].id]
         PROVE  b.rem[ls[j].id] = 0
    <3>1. j < k /\ j # p
      BY <2>11 DEF Older
    <3>2. CASE k # p
      <4>1. k <= p - 1 /\ b.rem[ls[k].id] = a.rem[ls[k].id]
        BY <2>4, <2>6, <2>11, <3>2
      <4>2. a.rem[ls[j].id] = 0
        BY <2>1, <2>11, <4>1
      <4> QED BY <2>4, <2>6, <3>1, <4>2
    <3>3. CASE k = p
      <4>1. a.rem[ls[k].id] = r[ls[k].id] /\ r[ls[k].id] \in Nat
        BY <1>4, <2>1, <2>6, <3>3
      <4>2. b # a
        BY <2>11, <4>1
      <4>3. a.left # 0 /\ l.side = "BUY" /\ l.ticker = sell.ticker
        BY <2>4, <4>2
      <4>4. j <= p - 1 /\ ls[j].side = "BUY" /\ ls[j].ticker = sell.ticker /\ a.left > 0
        BY <2>8, <2>11, <3>1, <3>3, <4>3 DEF Older, l
      <4>5. a.rem[ls[j].id] = 0
        BY <2>1, <4>4
      <4> QED BY <2>4, <2>6, <3>1, <4>5
    <3> QED BY <3>2, <3>3
  <2>12. Turn(p, b)
    BY <2>9, <2>10, <2>11
  <2> QED BY <2>3, <2>5, <2>12 DEF b
<1> HIDE DEF S
<1>9. n \in S
  <2>1. n \in Nat
    BY <1>1
  <2>2. \A p \in 0 .. n : p \in S
    BY <1>7, <1>8, <2>1, UpTo
  <2> QED BY <2>1, <2>2
<1>10. after \in Accs /\ Sums(after) /\ Turn(n, after)
  BY <1>3, <1>9 DEF S
<1>11. Taken(after.matches, sell.id) <= Taken(ms, sell.id) + sell.qty
  <2>1. /\ after.left \in Nat /\ Taken(after.matches, sell.id) \in Nat
        /\ base.left \in Nat /\ Taken(ms, sell.id) \in Nat
    BY <1>2, <1>4, <1>5, <1>6, <1>10
  <2>2. after.left + Taken(after.matches, sell.id) = base.left + Taken(ms, sell.id)
    BY <1>10
  <2> QED BY <1>2, <1>6, <2>1, <2>2
<1>12. \A j, k \in DOMAIN ls :
          Older(ls, j, k) /\ after.rem[ls[k].id] < r[ls[k].id] => after.rem[ls[j].id] = 0
  <2>1. \A k \in 1 .. n : k <= n
    BY <1>1
  <2> QED BY <1>1, <1>10, <2>1
<1> QED BY <1>10, <1>11, <1>12

\* Replay, lot by lot.
Unmatched(ls) == [left |-> 0, rem |-> Original(ls), matches |-> <<>>]
Replayed(ls, acc, l) ==
    IF l.side = "BUY" THEN acc ELSE MatchSell(l, ls, acc.rem, acc.matches)

\* The turns of a replay keep their types.
LEMMA ReplayedTyped ==
    ASSUME NEW ls \in Seq(Lots), Ordered(ls), NEW acc \in Accs, NEW l \in Lots
    PROVE  Replayed(ls, acc, l) \in Accs
BY MatchSellTakes DEF Replayed, Accs

\* A replay is its turns, one for each lot.
LEMMA ReplayTurns ==
    ASSUME NEW ls \in Seq(Lots), Ordered(ls), Original(ls) \in Remains
    PROVE  \E h : /\ h[0] = Unmatched(ls)
                  /\ \A p \in 1 .. Len(ls) : h[p] = Replayed(ls, h[p - 1], ls[p])
                  /\ Replay(ls) = h[Len(ls)]
<1> DEFINE n == Len(ls)
           base == Unmatched(ls)
           F == [q \in Accs \X (1 .. n) |-> Replayed(ls, q[1], ls[q[2]])]
           R(g) == g = [s \in SUBSET DOMAIN ls |->
                          IF s = {} THEN base ELSE Replayed(ls, g[s \ {Max(s)}], ls[Max(s)])]
           it == CHOOSE g : R(g)
           h == [p \in 0 .. n |-> it[1 .. p]]
<1>1. n \in Nat /\ DOMAIN ls = 1 .. n /\ \A p \in 1 .. n : ls[p] \in Lots
  OBVIOUS
<1>2. Replay(ls) = it[DOMAIN ls]
  BY DEF Replay, Replayed, Unmatched, FoldLeft, MapThenFoldSet
<1> HIDE DEF n, base
<1>3. F \in [Accs \X (1 .. n) -> Accs]
  BY <1>1, ReplayedTyped
<1>b. base \in Accs
  BY DEF base, Unmatched, Accs
<1>4. PICK g : Unrolls(g, 1 .. n, F, base, Accs)
  BY <1>1, <1>3, <1>b, UnrollsExist
<1>5. R([s \in SUBSET (1 .. n) |-> g[s]])
  <2> SUFFICES ASSUME NEW s \in SUBSET (1 .. n)
               PROVE  g[s] = IF s = {} THEN base ELSE Replayed(ls, g[s \ {Max(s)}], ls[Max(s)])
    BY <1>1
  <2>1. CASE s = {}
    BY <1>4, <2>1 DEF Unrolls
  <2>2. CASE s # {}
    <3>1. Max(s) \in 1 .. n /\ g[s \ {Max(s)}] \in Accs /\ g[s] = F[<<g[s \ {Max(s)}], Max(s)>>]
      BY <1>1, <1>4, <2>2, MaxIs DEF Unrolls
    <3> QED BY <2>2, <3>1
  <2> QED BY <2>1, <2>2
<1>6. R(it)
  BY <1>5
<1> HIDE DEF it
<1>7. \A s \in SUBSET (1 .. n) :
         it[s] = IF s = {} THEN base ELSE Replayed(ls, it[s \ {Max(s)}], ls[Max(s)])
  BY <1>1, <1>6
<1>8. ASSUME NEW p \in 1 .. n PROVE h[p] = Replayed(ls, h[p - 1], ls[p])
  <2>1. p \in Nat /\ p > 0 /\ p - 1 \in 0 .. n /\ p \in 0 .. n /\ 1 .. p \in SUBSET (1 .. n) /\ p \in 1 .. p
    BY <1>1
  <2>2. Max(1 .. p) = p /\ (1 .. p) \ {p} = 1 .. (p - 1)
    BY <2>1, MaxOfFirst
  <2>3. it[1 .. p] = Replayed(ls, it[(1 .. p) \ {Max(1 .. p)}], ls[Max(1 .. p)])
    BY <1>7, <2>1
  <2>4. h[p] = it[1 .. p] /\ h[p - 1] = it[1 .. (p - 1)]
    BY <2>1
  <2> HIDE DEF h
  <2> QED BY <2>2, <2>3, <2>4
<1>9. h[0] = base /\ h[n] = it[DOMAIN ls]
  <2>1. 0 \in 0 .. n /\ n \in 0 .. n /\ 1 .. 0 = {} /\ {} \in SUBSET (1 .. n)
    BY <1>1
  <2>2. it[{}] = base
    BY <1>7, <2>1
  <2> QED BY <1>1, <2>1, <2>2
<1> HIDE DEF h
<1> QED BY <1>2, <1>8, <1>9 DEF base, n

\* What is written to the file, lot by lot.
LEMMA KeptTurns ==
    ASSUME NEW ls \in Seq(Lots), NEW r, Persist(ls, r)
    PROVE  \E h : /\ h[0] = <<>>
                  /\ \A p \in 1 .. Len(ls) :
                        h[p] = IF Keeps(ls[p], r) THEN Append(h[p - 1], ls[p]) ELSE h[p - 1]
                  /\ file' = h[Len(ls)]
<1> DEFINE n == Len(ls)
           base == <<>>
           Step(kept, l) == IF Keeps(l, r) THEN Append(kept, l) ELSE kept
           F == [q \in Seq(Lots) \X (1 .. n) |-> Step(q[1], ls[q[2]])]
           R(g) == g = [s \in SUBSET DOMAIN ls |->
                          IF s = {} THEN base ELSE Step(g[s \ {Max(s)}], ls[Max(s)])]
           it == CHOOSE g : R(g)
           h == [p \in 0 .. n |-> it[1 .. p]]
<1>1. n \in Nat /\ DOMAIN ls = 1 .. n /\ \A p \in 1 .. n : ls[p] \in Lots
  OBVIOUS
<1>2. file' = it[DOMAIN ls]
  BY DEF Persist, FoldLeft, MapThenFoldSet
<1>b. base \in Seq(Lots)
  OBVIOUS
<1> HIDE DEF n, base
<1>3. F \in [Seq(Lots) \X (1 .. n) -> Seq(Lots)]
  BY <1>1
<1>4. PICK g : Unrolls(g, 1 .. n, F, base, Seq(Lots))
  BY <1>1, <1>3, <1>b, UnrollsExist
<1>5. R([s \in SUBSET (1 .. n) |-> g[s]])
  <2> SUFFICES ASSUME NEW s \in SUBSET (1 .. n)
               PROVE  g[s] = IF s = {} THEN base ELSE Step(g[s \ {Max(s)}], ls[Max(s)])
    BY <1>1
  <2>1. CASE s = {}
    BY <1>4, <2>1 DEF Unrolls
  <2>2. CASE s # {}
    <3>1. Max(s) \in 1 .. n /\ g[s \ {Max(s)}] \in Seq(Lots) /\ g[s] = F[<<g[s \ {Max(s)}], Max(s)>>]
      BY <1>1, <1>4, <2>2, MaxIs DEF Unrolls
    <3> QED BY <2>2, <3>1
  <2> QED BY <2>1, <2>2
<1>6. R(it)
  BY <1>5
<1> HIDE DEF it
<1>7. \A s \in SUBSET (1 .. n) :
         it[s] = IF s = {} THEN base ELSE Step(it[s \ {Max(s)}], ls[Max(s)])
  BY <1>1, <1>6
<1>8. ASSUME NEW p \in 1 .. n PROVE h[p] = Step(h[p - 1], ls[p])
  <2>1. p \in Nat /\ p > 0 /\ p - 1 \in 0 .. n /\ p \in 0 .. n /\ 1 .. p \in SUBSET (1 .. n) /\ p \in 1 .. p
    BY <1>1
  <2>2. Max(1 .. p) = p /\ (1 .. p) \ {p} = 1 .. (p - 1)
    BY <2>1, MaxOfFirst
  <2>3. it[1 .. p] = Step(it[(1 .. p) \ {Max(1 .. p)}], ls[Max(1 .. p)])
    BY <1>7, <2>1
  <2>4. h[p] = it[1 .. p] /\ h[p - 1] = it[1 .. (p - 1)]
    BY <2>1
  <2> HIDE DEF h
  <2> QED BY <2>2, <2>3, <2>4
<1>9. h[0] = base /\ h[n] = it[DOMAIN ls]
  <2>1. 0 \in 0 .. n /\ n \in 0 .. n /\ 1 .. 0 = {} /\ {} \in SUBSET (1 .. n)
    BY <1>1
  <2>2. it[{}] = base
    BY <1>7, <2>1
  <2> QED BY <1>1, <2>1, <2>2
<1> HIDE DEF h
<1> QED BY <1>2, <1>8, <1>9 DEF base, n
------------------------------------------------------------------------------
(* The invariant: the lots are in order, and balanced with what is matched   *)

\* A lot that is not there has nothing: no shares are left of it, and none matched.
Balanced(ls, r, ms) ==
    /\ r \in Remains /\ ms \in Seq(Match)
    /\ \A i \in LotIds : r[i] + Given(ms, i) = Original(ls)[i]
    /\ \A j, k \in DOMAIN ls : Older(ls, j, k) /\ r[ls[k].id] < ls[k].qty => r[ls[j].id] = 0

\* What took any shares is a SELL among the first n lots, and took no more than its size.
Sold(ls, n, ms) ==
    \A i \in LotIds :
        \/ Taken(ms, i) = 0
        \/ \E k \in 1 .. n : ls[k].id = i /\ ls[k].side = "SELL" /\ Taken(ms, i) <= ls[k].qty

\* What a lot was bought with.
LEMMA OriginalIs ==
    ASSUME NEW ls \in Seq(Lots), Ordered(ls)
    PROVE  /\ Original(ls) \in Remains
           /\ \A k \in 1 .. Len(ls) : ls[k].side = "BUY" => Original(ls)[ls[k].id] = ls[k].qty
           /\ \A i \in LotIds : (\A k \in 1 .. Len(ls) : ls[k].id = i => ls[k].side # "BUY")
                                => Original(ls)[i] = 0
<1> DEFINE n == Len(ls)
           Own(i) == {k \in DOMAIN ls : ls[k].id = i /\ ls[k].side = "BUY"}
<1>1. /\ n \in Nat /\ DOMAIN ls = 1 .. n
      /\ \A k \in 1 .. n : ls[k].id \in LotIds /\ ls[k].qty \in 1 .. MaxQty
      /\ \A j, k \in 1 .. n : j # k => ls[j].id # ls[k].id
  BY LotsOf
<1>2. \A i \in LotIds : Original(ls)[i] = IF Own(i) = {} THEN 0 ELSE ls[CHOOSE k \in Own(i) : TRUE].qty
  BY DEF Original
<1>3. Original(ls) = [i \in LotIds |-> Original(ls)[i]]
  BY DEF Original
<1>4. ASSUME NEW i \in LotIds, NEW k \in Own(i) PROVE Original(ls)[i] = ls[k].qty
  <2>1. \A q \in Own(i) : q = k
    BY <1>1, <1>4
  <2>2. (CHOOSE q \in Own(i) : TRUE) = k
    BY <1>4, <2>1
  <2> QED BY <1>2, <1>4, <2>2
<1>5. \A i \in LotIds : Own(i) = {} => Original(ls)[i] = 0
  BY <1>2
<1>6. \A k \in 1 .. n : ls[k].side = "BUY" => k \in Own(ls[k].id)
  BY <1>1
<1>7. \A i \in LotIds : \A k \in Own(i) : k \in 1 .. n /\ ls[k].id = i /\ ls[k].side = "BUY"
  BY <1>1
<1> HIDE DEF Own, n
<1>8. \A i \in LotIds : Original(ls)[i] \in 0 .. MaxQty
  <2> SUFFICES ASSUME NEW i \in LotIds PROVE Original(ls)[i] \in 0 .. MaxQty
    OBVIOUS
  <2>1. CASE Own(i) = {}
    BY <1>5, <2>1, Numbers
  <2>2. CASE Own(i) # {}
    BY <1>1, <1>4, <1>7, <2>2, Numbers
  <2> QED BY <2>1, <2>2
<1>9. \A i \in LotIds : (\A k \in 1 .. n : ls[k].id = i => ls[k].side # "BUY") => Own(i) = {}
  BY <1>7
<1> QED BY <1>1, <1>3, <1>4, <1>5, <1>6, <1>8, <1>9 DEF Remains, n

\* A SELL leaves the balance.
LEMMA MatchSellBalanced ==
    ASSUME NEW sell \in Lots, NEW ls \in Seq(Lots), Ordered(ls), NEW r, NEW ms, Balanced(ls, r, ms),
           NEW after, after = MatchSell(sell, ls, r, ms)
    PROVE  Balanced(ls, after.rem, after.matches)
<1>1. r \in Remains /\ ms \in Seq(Match)
  BY DEF Balanced
<1>2. /\ after \in Accs
      /\ \A i \in LotIds : /\ after.rem[i] <= r[i]
                           /\ after.rem[i] + Given(after.matches, i) = r[i] + Given(ms, i)
      /\ \A j, k \in DOMAIN ls :
            Older(ls, j, k) /\ after.rem[ls[k].id] < r[ls[k].id] => after.rem[ls[j].id] = 0
  BY <1>1, MatchSellTakes
<1>3. after.rem \in Remains /\ after.matches \in Seq(Match)
  BY <1>2 DEF Accs
<1>4. \A i \in LotIds : after.rem[i] \in Nat /\ r[i] \in Nat
  BY <1>1, <1>3, Numbers DEF Remains
<1>5. ASSUME NEW j \in DOMAIN ls, NEW k \in DOMAIN ls, Older(ls, j, k), after.rem[ls[k].id] < ls[k].qty
      PROVE  after.rem[ls[j].id] = 0
  <2>1. ls[j].id \in LotIds /\ ls[k].id \in LotIds /\ ls[k].qty \in Nat
    BY LotsOf, Numbers
  <2>2. CASE after.rem[ls[k].id] < r[ls[k].id]
    BY <1>2, <1>5, <2>2
  <2>3. CASE r[ls[k].id] < ls[k].qty
    <3>1. r[ls[j].id] = 0
      BY <1>5, <2>3 DEF Balanced
    <3> QED BY <1>2, <1>4, <2>1, <3>1
  <2> QED BY <1>4, <1>5, <2>1, <2>2, <2>3
<1>6. \A i \in LotIds : after.rem[i] + Given(after.matches, i) = Original(ls)[i]
  BY <1>2 DEF Balanced
<1> QED BY <1>3, <1>5, <1>6 DEF Balanced

\* What a replay derives is balanced, and no SELL takes more than its size.
LEMMA ReplayBalanced ==
    ASSUME NEW ls \in Seq(Lots), Ordered(ls)
    PROVE  Balanced(ls, Replay(ls).rem, Replay(ls).matches) /\ Sold(ls, Len(ls), Replay(ls).matches)
<1> DEFINE n == Len(ls)
<1>1. /\ n \in Nat /\ DOMAIN ls = 1 .. n
      /\ \A k \in 1 .. n : /\ ls[k] \in Lots /\ ls[k].id \in LotIds
                           /\ ls[k].side \in {"BUY", "SELL"} /\ ls[k].qty \in 1 .. MaxQty
      /\ \A j, k \in 1 .. n : j # k => ls[j].id # ls[k].id
  BY LotsOf
<1>2. /\ Original(ls) \in Remains
      /\ \A k \in 1 .. n : ls[k].side = "BUY" => Original(ls)[ls[k].id] = ls[k].qty
  BY OriginalIs
<1>3. PICK h : /\ h[0] = Unmatched(ls)
               /\ \A p \in 1 .. n : h[p] = Replayed(ls, h[p - 1], ls[p])
               /\ Replay(ls) = h[n]
  BY <1>2, ReplayTurns
<1> HIDE DEF n
<1> DEFINE S == {p \in 0 .. n : Balanced(ls, h[p].rem, h[p].matches) /\ Sold(ls, p, h[p].matches)}
<1>4. 0 \in S
  <2>1. h[0].rem = Original(ls) /\ h[0].matches = <<>>
    BY <1>3 DEF Unmatched
  <2>2. \A i \in LotIds : Original(ls)[i] \in Nat /\ Given(<<>>, i) = 0 /\ Taken(<<>>, i) = 0
    BY <1>2, NothingMatched, Numbers DEF Remains
  <2>3. \A j, k \in DOMAIN ls : Older(ls, j, k) => ~(Original(ls)[ls[k].id] < ls[k].qty)
    BY <1>1, <1>2, Numbers DEF Older
  <2>4. Balanced(ls, Original(ls), <<>>)
    BY <1>2, <2>2, <2>3 DEF Balanced
  <2>5. Sold(ls, 0, <<>>)
    BY <2>2 DEF Sold
  <2> QED BY <1>1, <2>1, <2>4, <2>5
<1>5. ASSUME NEW p \in 1 .. n, p - 1 \in S PROVE p \in S
  <2> DEFINE a == h[p - 1]
             b == h[p]
             l == ls[p]
  <2>1. Balanced(ls, a.rem, a.matches) /\ Sold(ls, p - 1, a.matches)
    BY <1>5
  <2>2. b = Replayed(ls, a, l) /\ l \in Lots
    BY <1>1, <1>3
  <2> HIDE DEF a, b
  <2>3. CASE l.side = "BUY"
    <3>1. b = a
      BY <2>2, <2>3 DEF Replayed
    <3>2. Sold(ls, p, a.matches)
      BY <1>1, <2>1 DEF Sold
    <3> QED BY <2>1, <3>1, <3>2 DEF b
  <2>4. CASE l.side = "SELL"
    <3>1. b = MatchSell(l, ls, a.rem, a.matches)
      BY <2>2, <2>4 DEF Replayed
    <3>2. Balanced(ls, b.rem, b.matches)
      BY <2>1, <2>2, <3>1, MatchSellBalanced
    <3>3. /\ \A i \in LotIds : i # l.id => Taken(b.matches, i) = Taken(a.matches, i)
          /\ Taken(b.matches, l.id) <= Taken(a.matches, l.id) + l.qty
      BY <2>1, <2>2, <3>1, MatchSellTakes DEF Balanced
    <3>4. Taken(a.matches, l.id) = 0
      BY <1>1, <2>1 DEF Sold
    <3>5. Taken(b.matches, l.id) <= l.qty
      BY <1>1, <3>3, <3>4, Numbers
    <3>6. Sold(ls, p, b.matches)
      <4> SUFFICES ASSUME NEW i \in LotIds
                   PROVE  \/ Taken(b.matches, i) = 0
                          \/ \E k \in 1 .. p : ls[k].id = i /\ ls[k].side = "SELL" /\ Taken(b.matches, i) <= ls[k].qty
        BY DEF Sold
      <4>1. CASE i = l.id
        BY <1>1, <2>4, <3>5, <4>1
      <4>2. CASE i # l.id
        <5>1. Taken(b.matches, i) = Taken(a.matches, i)
          BY <3>3, <4>2
        <5>2. \A k \in 1 .. (p - 1) : k \in 1 .. p
          BY <1>1
        <5> QED BY <2>1, <5>1, <5>2 DEF Sold
      <4> QED BY <4>1, <4>2
    <3> QED BY <3>2, <3>6 DEF b
  <2> QED BY <1>1, <2>3, <2>4
<1> HIDE DEF S
<1>6. n \in S
  <2>1. \A p \in 0 .. n : p \in S
    BY <1>1, <1>4, <1>5, UpTo
  <2> QED BY <1>1, <2>1
<1> QED BY <1>3, <1>6 DEF S, n

\* The file holds some of the lots, in their order.
LEMMA KeptIs ==
    ASSUME NEW ls \in Seq(Lots), Ordered(ls), NEW r, Persist(ls, r)
    PROVE  /\ file' \in Seq(Lots) /\ Ordered(file')
           /\ \A q \in DOMAIN file' : \E k \in DOMAIN ls : file'[q] = ls[k]
<1> DEFINE n == Len(ls)
<1>1. /\ n \in Nat /\ DOMAIN ls = 1 .. n
      /\ \A k \in 1 .. n : ls[k] \in Lots /\ ls[k].id \in Nat
  BY LotsOf
<1>2. PICK h : /\ h[0] = <<>>
               /\ \A p \in 1 .. n :
                     h[p] = IF Keeps(ls[p], r) THEN Append(h[p - 1], ls[p]) ELSE h[p - 1]
               /\ file' = h[n]
  BY KeptTurns
<1> HIDE DEF n
<1> DEFINE From(p, kept) == \A q \in DOMAIN kept : \E k \in 1 .. n : k <= p /\ kept[q] = ls[k]
           S == {p \in 0 .. n : h[p] \in Seq(Lots) /\ Ordered(h[p]) /\ From(p, h[p])}
<1>3. 0 \in S
  <2>1. <<>> \in Seq(Lots) /\ Ordered(<<>>) /\ From(0, <<>>)
    BY DEF Ordered
  <2>2. 0 \in 0 .. n
    BY <1>1
  <2> HIDE DEF From
  <2> QED BY <1>2, <2>1, <2>2
<1>4. ASSUME NEW p \in 1 .. n, p - 1 \in S PROVE p \in S
  <2> DEFINE a == h[p - 1]
             b == h[p]
             l == ls[p]
  <2>1. a \in Seq(Lots) /\ Ordered(a) /\ From(p - 1, a)
    BY <1>4
  <2>2. l \in Lots /\ (b = a \/ b = Append(a, l))
    BY <1>1, <1>2
  <2> HIDE DEF a, b
  <2>3. From(p, a)
    BY <1>1, <2>1
  <2>4. CASE b = a
    BY <2>1, <2>3, <2>4 DEF b
  <2>5. CASE b = Append(a, l)
    <3> DEFINE m == Len(a)
    <3>1. /\ m \in Nat /\ DOMAIN a = 1 .. m /\ b \in Seq(Lots) /\ DOMAIN b = 1 .. (m + 1)
          /\ b[m + 1] = l /\ \A q \in 1 .. m : b[q] = a[q]
      BY <2>1, <2>2, <2>5
    <3> HIDE DEF m
    <3>2. \A q \in 1 .. m : b[q].id < b[m + 1].id
      <4> SUFFICES ASSUME NEW q \in 1 .. m PROVE a[q].id < l.id
        BY <3>1
      <4>1. PICK k \in 1 .. n : k <= p - 1 /\ a[q] = ls[k]
        BY <2>1, <3>1
      <4> QED BY <1>1, <4>1 DEF Ordered
    <3>3. Ordered(b)
      <4> SUFFICES ASSUME NEW q \in 1 .. (m + 1), NEW k \in 1 .. (m + 1), q < k PROVE b[q].id < b[k].id
        BY <3>1 DEF Ordered
      <4>1. q \in 1 .. m
        BY <3>1
      <4>2. CASE k = m + 1
        BY <3>2, <4>1, <4>2
      <4>3. CASE k \in 1 .. m
        BY <2>1, <3>1, <4>1, <4>3 DEF Ordered
      <4> QED BY <3>1, <4>2, <4>3
    <3>4. From(p, b)
      <4> SUFFICES ASSUME NEW q \in 1 .. (m + 1) PROVE \E k \in 1 .. n : k <= p /\ b[q] = ls[k]
        BY <3>1
      <4>1. CASE q = m + 1
        BY <1>1, <3>1, <4>1
      <4>2. CASE q \in 1 .. m
        BY <2>3, <3>1, <4>2
      <4> QED BY <3>1, <4>1, <4>2
    <3>5. p \in 0 .. n /\ b \in Seq(Lots)
      BY <1>1, <3>1
    <3> HIDE DEF From
    <3> QED BY <3>3, <3>4, <3>5 DEF b
  <2> QED BY <2>2, <2>4, <2>5
<1> HIDE DEF S
<1>5. n \in S
  <2>1. \A p \in 0 .. n : p \in S
    BY <1>1, <1>3, <1>4, UpTo
  <2> QED BY <1>1, <2>1
<1> QED BY <1>1, <1>2, <1>5 DEF S

\* A new lot comes last, and has its own quantity.
LEMMA OneLotMore ==
    ASSUME NEW ls \in Seq(Lots), Ordered(ls), NEW l \in Lots,
           \A k \in DOMAIN ls : ls[k].id < l.id, NEW new, new = Append(ls, l)
    PROVE  /\ new \in Seq(Lots) /\ Ordered(new)
           /\ \A i \in LotIds : Original(new)[i] = IF i = l.id /\ l.side = "BUY" THEN l.qty
                                                   ELSE Original(ls)[i]
           /\ Original(ls)[l.id] = 0
<1> DEFINE n == Len(ls)
<1>1. /\ n \in Nat /\ DOMAIN ls = 1 .. n /\ l.id \in LotIds
      /\ new \in Seq(Lots) /\ Len(new) = n + 1 /\ DOMAIN new = 1 .. (n + 1)
      /\ new[n + 1] = l /\ \A q \in 1 .. n : new[q] = ls[q]
  BY DEF Lots
<1>2. \A k \in 1 .. n : ls[k].id \in Nat /\ ls[k].id \in LotIds /\ ls[k].id < l.id
  BY LotsOf
<1> HIDE DEF n
<1>3. Ordered(new)
  <2> SUFFICES ASSUME NEW q \in 1 .. (n + 1), NEW k \in 1 .. (n + 1), q < k PROVE new[q].id < new[k].id
    BY <1>1 DEF Ordered
  <2>1. q \in 1 .. n
    BY <1>1
  <2>2. CASE k = n + 1
    BY <1>1, <1>2, <2>1, <2>2
  <2>3. CASE k \in 1 .. n
    BY <1>1, <2>1, <2>3 DEF Ordered
  <2> QED BY <1>1, <2>2, <2>3
<1>4. Original(ls)[l.id] = 0
  <2>1. \A k \in 1 .. n : ls[k].id # l.id
    BY <1>2
  <2> QED BY <1>1, <2>1, OriginalIs DEF n
<1>n. /\ \A k \in 1 .. (n + 1) : new[k].side = "BUY" => Original(new)[new[k].id] = new[k].qty
      /\ \A i \in LotIds : (\A k \in 1 .. (n + 1) : new[k].id = i => new[k].side # "BUY")
                           => Original(new)[i] = 0
  BY <1>1, <1>3, OriginalIs
<1>5. ASSUME NEW i \in LotIds
      PROVE  Original(new)[i] = IF i = l.id /\ l.side = "BUY" THEN l.qty ELSE Original(ls)[i]
  <2>1. CASE \E k \in 1 .. n : ls[k].id = i /\ ls[k].side = "BUY"
    <3>1. PICK k \in 1 .. n : ls[k].id = i /\ ls[k].side = "BUY"
      BY <2>1
    <3>2. Original(ls)[i] = ls[k].qty /\ i # l.id
      BY <1>2, <3>1, OriginalIs DEF n
    <3>3. k \in 1 .. (n + 1) /\ new[k] = ls[k]
      BY <1>1
    <3>4. Original(new)[i] = ls[k].qty
      BY <1>n, <3>1, <3>3
    <3> QED BY <3>2, <3>4
  <2>2. CASE i = l.id /\ l.side = "BUY"
    <3>1. n + 1 \in 1 .. (n + 1)
      BY <1>1
    <3> QED BY <1>1, <1>n, <2>2, <3>1
  <2>3. CASE /\ ~\E k \in 1 .. n : ls[k].id = i /\ ls[k].side = "BUY"
             /\ ~(i = l.id /\ l.side = "BUY")
    <3>1. Original(ls)[i] = 0
      BY <2>3, OriginalIs DEF n
    <3>2. \A k \in 1 .. (n + 1) : new[k].id = i => new[k].side # "BUY"
      BY <1>1, <2>3
    <3>3. Original(new)[i] = 0
      BY <1>n, <3>2
    <3> QED BY <2>3, <3>1, <3>3
  <2> QED BY <2>1, <2>2, <2>3
<1> QED BY <1>1, <1>3, <1>4, <1>5

\* No lot has an id that is still to be given.
Below(ls) == \A k \in DOMAIN ls : ls[k].id < nextId

LedgerInv ==
    /\ lots \in Seq(Lots) /\ Ordered(lots) /\ Below(lots)
    /\ file \in Seq(Lots) /\ Ordered(file) /\ Below(file)
    /\ Balanced(lots, rem, matches) /\ Sold(lots, Len(lots), matches)
    /\ nextId \in 1 .. MaxLots + 1 /\ day \in 1 .. MaxDay /\ starts \in 1 .. MaxStarts
    /\ {swept, oversold, carried, halved} \subseteq BOOLEAN

\* The invariant holds at the start and is kept by each operation.
LEMMA InitInv == LedgerInit => LedgerInv
<1> SUFFICES ASSUME LedgerInit PROVE LedgerInv
  OBVIOUS
<1>1. lots = <<>> /\ file = <<>> /\ matches = <<>> /\ rem = [i \in LotIds |-> 0] /\ nextId = 1
  BY DEF LedgerInit
<1>2. <<>> \in Seq(Lots) /\ Ordered(<<>>) /\ Below(<<>>) /\ <<>> \in Seq(Match)
  BY DEF Ordered, Below
<1>3. \A i \in LotIds : Original(<<>>)[i] = 0
  BY DEF Original
<1>4. Balanced(<<>>, rem, <<>>)
  <2>1. rem \in Remains /\ \A i \in LotIds : rem[i] = 0
    BY <1>1, Numbers DEF Remains
  <2> QED BY <1>2, <1>3, <2>1, NothingMatched DEF Balanced
<1>5. Sold(<<>>, 0, <<>>)
  BY NothingMatched DEF Sold
<1>6. nextId \in 1 .. MaxLots + 1 /\ day \in 1 .. MaxDay /\ starts \in 1 .. MaxStarts
      /\ {swept, oversold, carried, halved} \subseteq BOOLEAN
  <2>1. 1 \in 1 .. MaxLots + 1 /\ 1 \in 1 .. MaxDay /\ 1 \in 1 .. MaxStarts
    BY FillLedgerAssumption
  <2> QED BY <2>1 DEF LedgerInit
<1> QED BY <1>1, <1>2, <1>4, <1>5, <1>6 DEF LedgerInv

\* The lot appended last.
LEMMA AppendLotKeeps ==
    ASSUME LedgerInv, NEW l \in Lots, AppendLot(l)
    PROVE  /\ lots' \in Seq(Lots) /\ Ordered(lots') /\ Below(lots)' /\ Below(file)
           /\ \A i \in LotIds : Original(lots')[i] = IF i = l.id /\ l.side = "BUY" THEN l.qty
                                                     ELSE Original(lots)[i]
           /\ Original(lots)[l.id] = 0
           /\ nextId' \in 1 .. MaxLots + 1 /\ nextId' = nextId + 1 /\ l.id = nextId
           /\ \A i \in LotIds : i \in Nat
<1>1. /\ nextId \in Nat /\ nextId' = nextId + 1 /\ nextId' \in 1 .. MaxLots + 1
      /\ l.id = nextId /\ lots' = Append(lots, l)
  BY Numbers DEF LedgerInv, AppendLot
<1>2. \A k \in DOMAIN lots : lots[k].id < l.id
  BY <1>1 DEF LedgerInv, Below
<1>3. /\ lots' \in Seq(Lots) /\ Ordered(lots')
      /\ \A i \in LotIds : Original(lots')[i] = IF i = l.id /\ l.side = "BUY" THEN l.qty
                                                ELSE Original(lots)[i]
      /\ Original(lots)[l.id] = 0
  <2>1. lots \in Seq(Lots) /\ Ordered(lots)
    BY DEF LedgerInv
  <2> QED BY <1>1, <1>2, <2>1, OneLotMore
<1>4. Below(lots)'
  <2>1. /\ lots \in Seq(Lots) /\ Len(lots) \in Nat /\ DOMAIN lots = 1 .. Len(lots)
        /\ \A k \in DOMAIN lots : lots[k].id \in Nat
    BY LotsOf DEF LedgerInv
  <2>2. DOMAIN lots' = 1 .. (Len(lots) + 1) /\ lots'[Len(lots) + 1] = l
        /\ \A k \in 1 .. Len(lots) : lots'[k] = lots[k]
    BY <1>1, <2>1
  <2>3. \A k \in 1 .. Len(lots) : lots'[k].id < nextId'
    BY <1>1, <1>2, <2>1, <2>2
  <2>4. \A k \in 1 .. (Len(lots) + 1) : k \in 1 .. Len(lots) \/ k = Len(lots) + 1
    BY <2>1
  <2>5. l.id < nextId'
    BY <1>1
  <2> QED BY <2>2, <2>3, <2>4, <2>5 DEF Below
<1>5. \A i \in LotIds : i \in Nat
  BY Numbers DEF LotIds
<1> QED BY <1>1, <1>3, <1>4, <1>5 DEF LedgerInv

\* What is written lies below the next id as well.
LEMMA PersistKeeps ==
    ASSUME NEW ls \in Seq(Lots), Ordered(ls), \A k \in DOMAIN ls : ls[k].id < nextId',
           NEW r, Persist(ls, r)
    PROVE  file' \in Seq(Lots) /\ Ordered(file') /\ Below(file)'
<1>1. /\ file' \in Seq(Lots) /\ Ordered(file')
      /\ \A q \in DOMAIN file' : \E k \in DOMAIN ls : file'[q] = ls[k]
  BY KeptIs
<1>2. \A q \in DOMAIN file' : file'[q].id < nextId'
  BY <1>1
<1> QED BY <1>1, <1>2 DEF Below

LEMMA AppendBuyKeeps ==
    ASSUME LedgerInv, NEW l \in Lots, AppendBuy(l)
    PROVE  LedgerInv'
<1>1. /\ l.side = "BUY" /\ AppendLot(l) /\ rem' = [rem EXCEPT ![l.id] = l.qty]
      /\ Persist(lots', rem') /\ matches' = matches
      /\ UNCHANGED <<day, starts, swept, oversold, carried, halved>>
  BY DEF AppendBuy, AppendLot, past
<1>2. /\ lots' \in Seq(Lots) /\ Ordered(lots') /\ Below(lots)'
      /\ \A i \in LotIds : Original(lots')[i] = IF i = l.id THEN l.qty ELSE Original(lots)[i]
      /\ Original(lots)[l.id] = 0 /\ nextId' \in 1 .. MaxLots + 1 /\ l.id = nextId
  BY <1>1, AppendLotKeeps
<1>3. file' \in Seq(Lots) /\ Ordered(file') /\ Below(file)'
  <2>1. \A k \in DOMAIN lots' : lots'[k].id < nextId'
    BY <1>2 DEF Below
  <2> QED BY <1>1, <1>2, <2>1, PersistKeeps
<1>4. /\ rem \in Remains /\ matches \in Seq(Match) /\ l.id \in LotIds /\ l.qty \in 1 .. MaxQty
      /\ \A i \in LotIds : rem[i] \in Nat /\ rem[i] + Given(matches, i) = Original(lots)[i]
      /\ \A j, k \in DOMAIN lots :
            Older(lots, j, k) /\ rem[lots[k].id] < lots[k].qty => rem[lots[j].id] = 0
  BY Numbers DEF LedgerInv, Balanced, Remains, Lots
<1>5. /\ rem' \in Remains
      /\ \A i \in LotIds : rem'[i] = IF i = l.id THEN l.qty ELSE rem[i]
  BY <1>1, <1>4, Numbers DEF Remains
<1>6. \A i \in LotIds : Given(matches, i) \in Nat
  BY <1>4, MatchedIsNat
<1>7. rem[l.id] = 0 /\ Given(matches, l.id) = 0
  BY <1>2, <1>4, <1>6
<1>8. \A i \in LotIds : rem'[i] + Given(matches', i) = Original(lots')[i]
  <2> SUFFICES ASSUME NEW i \in LotIds PROVE rem'[i] + Given(matches, i) = Original(lots')[i]
    BY <1>1
  <2>1. CASE i = l.id
    <3>1. rem'[i] = l.qty /\ Original(lots')[i] = l.qty /\ Given(matches, i) = 0
      BY <1>2, <1>4, <1>5, <1>7, <2>1
    <3>2. l.qty \in Nat
      BY <1>4, Numbers
    <3> QED BY <3>1, <3>2
  <2>2. CASE i # l.id
    BY <1>2, <1>4, <1>5, <2>2
  <2> QED BY <2>1, <2>2
<1>9. /\ Len(lots) \in Nat /\ DOMAIN lots = 1 .. Len(lots) /\ DOMAIN lots' = 1 .. (Len(lots) + 1)
      /\ Len(lots') = Len(lots) + 1
      /\ lots'[Len(lots) + 1] = l /\ \A k \in 1 .. Len(lots) : lots'[k] = lots[k]
      /\ \A k \in 1 .. Len(lots) : lots[k].id \in LotIds /\ lots[k].id # l.id
  <2>1. /\ lots \in Seq(Lots) /\ Len(lots) \in Nat /\ DOMAIN lots = 1 .. Len(lots)
        /\ \A k \in 1 .. Len(lots) : lots[k].id \in LotIds /\ lots[k].id \in Nat
    BY LotsOf DEF LedgerInv
  <2>2. lots' = Append(lots, l)
    BY <1>1 DEF AppendLot
  <2>3. \A k \in 1 .. Len(lots) : lots[k].id < nextId /\ nextId \in Nat
    BY <2>1 DEF LedgerInv, Below
  <2>4. \A k \in 1 .. Len(lots) : lots[k].id # l.id
    BY <1>2, <2>1, <2>3
  <2> QED BY <2>1, <2>2, <2>4
<1>10. ASSUME NEW j \in DOMAIN lots', NEW k \in DOMAIN lots', Older(lots', j, k),
              rem'[lots'[k].id] < lots'[k].qty
       PROVE  rem'[lots'[j].id] = 0
  <2>1. k # Len(lots) + 1
    BY <1>4, <1>5, <1>9, <1>10, Numbers
  <2>2. k \in 1 .. Len(lots) /\ j \in 1 .. Len(lots)
    BY <1>9, <1>10, <2>1 DEF Older
  <2>3. Older(lots, j, k) /\ rem[lots[k].id] < lots[k].qty
    BY <1>5, <1>9, <1>10, <2>2 DEF Older
  <2>4. rem[lots[j].id] = 0
    BY <1>4, <1>9, <2>2, <2>3
  <2> QED BY <1>5, <1>9, <2>2, <2>4
<1>11. Balanced(lots', rem', matches')
  BY <1>1, <1>4, <1>5, <1>8, <1>10 DEF Balanced
<1>12. Sold(lots', Len(lots'), matches')
  <2>1. Sold(lots, Len(lots), matches)
    BY DEF LedgerInv
  <2>2. \A k \in 1 .. Len(lots) : k \in 1 .. Len(lots')
    BY <1>9
  <2> QED BY <1>1, <1>9, <2>1, <2>2 DEF Sold
<1>13. day' \in 1 .. MaxDay /\ starts' \in 1 .. MaxStarts /\ {swept', oversold', carried', halved'} \subseteq BOOLEAN
  BY <1>1 DEF LedgerInv
<1> QED BY <1>2, <1>3, <1>11, <1>12, <1>13 DEF LedgerInv

LEMMA AppendSellKeeps ==
    ASSUME LedgerInv, NEW l \in Lots, AppendSell(l)
    PROVE  LedgerInv'
<1> DEFINE after == MatchSell(l, lots, rem, matches)
<1>1. /\ l.side = "SELL" /\ AppendLot(l) /\ Persist(lots', rem')
      /\ rem' = after.rem /\ matches' = after.matches
      /\ UNCHANGED <<day, starts, swept, halved>> /\ oversold' \in BOOLEAN /\ carried' \in BOOLEAN
  BY DEF AppendSell, AppendLot, LedgerInv
<1>2. /\ lots' \in Seq(Lots) /\ Ordered(lots') /\ Below(lots)'
      /\ \A i \in LotIds : Original(lots')[i] = Original(lots)[i]
      /\ Original(lots)[l.id] = 0 /\ nextId' \in 1 .. MaxLots + 1 /\ l.id = nextId
  BY <1>1, AppendLotKeeps
<1>3. file' \in Seq(Lots) /\ Ordered(file') /\ Below(file)'
  <2>1. \A k \in DOMAIN lots' : lots'[k].id < nextId'
    BY <1>2 DEF Below
  <2> QED BY <1>1, <1>2, <2>1, PersistKeeps
<1>4. lots \in Seq(Lots) /\ Ordered(lots) /\ Balanced(lots, rem, matches) /\ l.id \in LotIds
      /\ rem \in Remains /\ matches \in Seq(Match)
  BY DEF LedgerInv, Balanced, Lots
<1>5. Balanced(lots, rem', matches')
  BY <1>1, <1>4, MatchSellBalanced
<1>6. /\ \A i \in LotIds : i # l.id => Taken(matches', i) = Taken(matches, i)
      /\ Taken(matches', l.id) <= Taken(matches, l.id) + l.qty
  BY <1>1, <1>4, MatchSellTakes
<1> HIDE DEF after
<1>7. /\ Len(lots) \in Nat /\ DOMAIN lots = 1 .. Len(lots) /\ DOMAIN lots' = 1 .. (Len(lots) + 1)
      /\ Len(lots') = Len(lots) + 1
      /\ lots'[Len(lots) + 1] = l /\ \A k \in 1 .. Len(lots) : lots'[k] = lots[k]
      /\ \A k \in 1 .. Len(lots) : lots[k].id # l.id
  <2>1. /\ Len(lots) \in Nat /\ DOMAIN lots = 1 .. Len(lots)
        /\ \A k \in 1 .. Len(lots) : lots[k].id \in Nat
    BY <1>4, LotsOf
  <2>2. lots' = Append(lots, l)
    BY <1>1 DEF AppendLot
  <2>3. \A k \in 1 .. Len(lots) : lots[k].id < nextId /\ nextId \in Nat
    BY <2>1 DEF LedgerInv, Below
  <2>4. \A k \in 1 .. Len(lots) : lots[k].id # l.id
    BY <1>2, <2>1, <2>3
  <2> QED BY <1>4, <2>1, <2>2, <2>4
<1>8. Balanced(lots', rem', matches')
  <2>1. ASSUME NEW j \in DOMAIN lots', NEW k \in DOMAIN lots', Older(lots', j, k),
               rem'[lots'[k].id] < lots'[k].qty
        PROVE  rem'[lots'[j].id] = 0
    <3>1. k # Len(lots) + 1
      BY <1>1, <1>7, <2>1 DEF Older
    <3>2. k \in 1 .. Len(lots) /\ j \in 1 .. Len(lots)
      BY <1>7, <2>1, <3>1 DEF Older
    <3>3. Older(lots, j, k) /\ rem'[lots[k].id] < lots[k].qty
      BY <1>7, <2>1, <3>2 DEF Older
    <3> QED BY <1>5, <1>7, <3>2, <3>3 DEF Balanced
  <2> QED BY <1>2, <1>5, <2>1 DEF Balanced
<1>9. Sold(lots', Len(lots'), matches')
  <2>1. Sold(lots, Len(lots), matches)
    BY DEF LedgerInv
  <2> SUFFICES ASSUME NEW i \in LotIds
               PROVE  \/ Taken(matches', i) = 0
                      \/ \E k \in 1 .. Len(lots') : /\ lots'[k].id = i /\ lots'[k].side = "SELL"
                                                    /\ Taken(matches', i) <= lots'[k].qty
    BY DEF Sold
  <2>2. CASE i = l.id
    <3>1. Taken(matches, l.id) = 0
      BY <1>4, <1>7, <2>1 DEF Sold
    <3>2. l.qty \in Nat
      BY Numbers DEF Lots
    <3>3. Taken(matches', l.id) <= l.qty
      BY <1>6, <3>1, <3>2
    <3>4. Len(lots) + 1 \in 1 .. Len(lots')
      BY <1>7
    <3> QED BY <1>1, <1>7, <2>2, <3>3, <3>4
  <2>3. CASE i # l.id
    <3>1. \A k \in 1 .. Len(lots) : k \in 1 .. Len(lots')
      BY <1>7
    <3> QED BY <1>6, <1>7, <2>1, <2>3, <3>1 DEF Sold
  <2> QED BY <2>2, <2>3
<1>10. day' \in 1 .. MaxDay /\ starts' \in 1 .. MaxStarts /\ {swept', oversold', carried', halved'} \subseteq BOOLEAN
  BY <1>1 DEF LedgerInv
<1> QED BY <1>2, <1>3, <1>8, <1>9, <1>10 DEF LedgerInv

LEMMA NewDayKeeps == LedgerInv /\ NewDay => LedgerInv'
<1> SUFFICES ASSUME LedgerInv, NewDay PROVE LedgerInv'
  OBVIOUS
<1>1. /\ UNCHANGED <<lots, rem, matches, file, nextId, starts, swept, oversold, carried>>
      /\ day' \in 1 .. MaxDay /\ halved' \in BOOLEAN
  BY Numbers DEF NewDay, LedgerInv
<1> QED BY <1>1 DEF LedgerInv, Below

LEMMA LoadKeeps == LedgerInv /\ Load => LedgerInv'
<1> SUFFICES ASSUME LedgerInv, Load PROVE LedgerInv'
  OBVIOUS
<1>1. /\ lots' = file /\ rem' = Replay(file).rem /\ matches' = Replay(file).matches
      /\ UNCHANGED <<file, nextId, day, oversold, carried, halved>> /\ swept' \in BOOLEAN
  BY DEF Load, past
<1>2. starts \in 1 .. MaxStarts /\ starts < MaxStarts /\ starts' = starts + 1
  BY DEF Load, LedgerInv
<1>3. starts' \in 1 .. MaxStarts
  BY <1>2, Numbers
<1>4. Balanced(lots', rem', matches') /\ Sold(lots', Len(lots'), matches')
  BY <1>1, ReplayBalanced DEF LedgerInv
<1> QED BY <1>1, <1>3, <1>4 DEF LedgerInv, Below

LEMMA CloseStaleLotsKeeps ==
    ASSUME LedgerInv, NEW active, CloseStaleLots(active)
    PROVE  LedgerInv'
<1>1. /\ UNCHANGED <<lots, nextId, day, starts, oversold, carried, halved>> /\ swept' \in BOOLEAN
      /\ \/ UNCHANGED <<rem, matches, file>>
         \/ /\ rem' = Replay(lots).rem /\ matches' = Replay(lots).matches
            /\ Persist(lots, rem')
  BY DEF CloseStaleLots, past
<1>2. CASE UNCHANGED <<rem, matches, file>>
  BY <1>1, <1>2 DEF LedgerInv, Below
<1>3. CASE /\ rem' = Replay(lots).rem /\ matches' = Replay(lots).matches
           /\ Persist(lots, rem')
  <2>1. Balanced(lots, rem', matches') /\ Sold(lots, Len(lots), matches')
    BY <1>3, ReplayBalanced DEF LedgerInv
  <2>2. file' \in Seq(Lots) /\ Ordered(file') /\ Below(file)'
    BY <1>1, <1>3, PersistKeeps DEF LedgerInv, Below
  <2> QED BY <1>1, <2>1, <2>2 DEF LedgerInv, Below
<1> QED BY <1>1, <1>2, <1>3

\* Together: it always holds.
LEMMA LedgerInvAlways == LedgerSpec => []LedgerInv
<1>1. LedgerInv /\ [LedgerNext]_ledgerVars => LedgerInv'
  <2> SUFFICES ASSUME LedgerInv, [LedgerNext]_ledgerVars PROVE LedgerInv'
    OBVIOUS
  <2>1. CASE UNCHANGED ledgerVars
    BY <2>1 DEF ledgerVars, past, LedgerInv, Below
  <2>2. ASSUME NEW l \in Lots, AppendBuy(l) PROVE LedgerInv'
    BY <2>2, AppendBuyKeeps
  <2>3. ASSUME NEW l \in Lots, AppendSell(l) PROVE LedgerInv'
    BY <2>3, AppendSellKeeps
  <2>4. CASE NewDay
    BY <2>4, NewDayKeeps
  <2>5. CASE Load
    BY <2>5, LoadKeeps
  <2>6. ASSUME NEW active \in SUBSET Tickers, CloseStaleLots(active) PROVE LedgerInv'
    BY <2>6, CloseStaleLotsKeeps
  <2> QED BY <2>1, <2>2, <2>3, <2>4, <2>5, <2>6 DEF LedgerNext
<1> QED BY <1>1, InitInv, PTL DEF LedgerSpec

\* The ledger keeps its types; in particular no lot ever holds less than nothing or
\* more than any lot can have.
THEOREM LedgerTypes == LedgerSpec => []LedgerTyped
<1>1. LedgerInv => LedgerTyped
  <2> SUFFICES ASSUME LedgerInv PROVE LedgerTyped
    OBVIOUS
  <2>1. matches \in Seq(Match) /\ rem \in Remains
    BY DEF LedgerInv, Balanced
  <2>2. \A i \in DOMAIN matches : matches[i] \in Match
    BY <2>1
  <2> QED BY <2>1, <2>2 DEF LedgerInv, LedgerTyped, Match, Remains
<1> QED BY <1>1, LedgerInvAlways, PTL

\* Through every sequence of fills, sweeps and restarts, what a BUY has given and what is
\* left of it are what it was filled with, and no SELL is matched beyond its size.
THEOREM NoShareLost == LedgerSpec => []SharesConserved
<1>1. LedgerInv => SharesConserved
  <2> SUFFICES ASSUME LedgerInv, NEW k \in DOMAIN lots
               PROVE  IF Lot(lots[k].id).side = "BUY"
                      THEN rem[lots[k].id] + Given(matches, lots[k].id) = Lot(lots[k].id).qty
                      ELSE Taken(matches, lots[k].id) <= Lot(lots[k].id).qty
    BY DEF SharesConserved, Present
  <2> DEFINE i == lots[k].id
  <2>1. /\ lots \in Seq(Lots) /\ DOMAIN lots = 1 .. Len(lots) /\ i \in LotIds
        /\ lots[k].side \in {"BUY", "SELL"} /\ lots[k].qty \in 1 .. MaxQty
        /\ \A j \in 1 .. Len(lots) : j # k => lots[j].id # i
        /\ lots[k].side = "BUY" => Original(lots)[i] = lots[k].qty
    BY LotsOf, OriginalIs DEF LedgerInv
  <2>2. Lot(i) = lots[k]
    <3>1. \A j \in DOMAIN lots : lots[j].id = i <=> j = k
      BY <2>1
    <3>2. (CHOOSE j \in DOMAIN lots : lots[j].id = i) = k
      BY <3>1
    <3> QED BY <3>2 DEF Lot
  <2>3. CASE lots[k].side = "BUY"
    BY <2>1, <2>2, <2>3 DEF LedgerInv, Balanced
  <2>4. CASE lots[k].side = "SELL"
    <3>1. \/ Taken(matches, i) = 0
          \/ \E j \in 1 .. Len(lots) : lots[j].id = i /\ Taken(matches, i) <= lots[j].qty
      BY <2>1 DEF LedgerInv, Sold
    <3>2. Taken(matches, i) <= lots[k].qty
      BY <2>1, <3>1, Numbers
    <3> QED BY <2>2, <2>4, <3>2
  <2> QED BY <2>1, <2>3, <2>4
<1> QED BY <1>1, LedgerInvAlways, PTL

\* Shares leave the ledger in the order they came, live and replayed alike.
THEOREM FirstInFirstOut == LedgerSpec => []OldestFirst
<1>1. LedgerInv => OldestFirst
  BY DEF LedgerInv, Balanced, Older, OldestFirst
<1> QED BY <1>1, LedgerInvAlways, PTL
==============================================================================
