----------------------------- MODULE SafeState -----------------------------
(***************************************************************************)
(* SafeStateFile (lifecycle/safe_state.py): the file behind bot_state.json,  *)
(* the position registry, the broker map, the fill ledger and the caches.    *)
(* A write goes to a temporary file and then, under an exclusive flock,      *)
(* copies primary to .prev to .prev2, replaces the primary and writes its    *)
(* checksum sidecar; a read takes the first copy whose checksum agrees.      *)
(*                                                                           *)
(* A write is a number, with the version and the text it carries; a copy's   *)
(* file holds the number, nothing (Absent) or garbage (Torn), and its        *)
(* sidecar is valid when it holds the same number.  The flock is held by     *)
(* `writer` and freed by its process's death.  Freshness, which compares     *)
(* clocks, is left out.                                                      *)
(***************************************************************************)
EXTENDS Integers, FiniteSets

CONSTANTS
    Procs,              \* processes with an instance of the class on this path
    Texts,              \* contents, metadata apart
    Unset,              \* _last_hash of a new instance
    MaxWrites,          \* bound on the writes that reach the files
    MaxCrashes,         \* bound on process deaths
    MaxFaults,          \* bound on file operations that fail
    MaxDamage           \* bound on damage to the primary from outside

ASSUME SafeStateAssumption ==
    /\ Unset \notin Texts
    /\ {MaxWrites, MaxCrashes, MaxFaults, MaxDamage} \subseteq Nat

Copies == {"primary", "prev", "prev2"}
Absent == 0
Torn == -1
Writes == 1 .. MaxWrites
NoWrite == [by |-> Unset, id |-> 0, at |-> 0]

VARIABLES
    copy,               \* the three files, each with its .sha256 sidecar
    version, text,      \* of every write: its _version and its content
    written,            \* how many writes have been serialised
    writer,             \* the write that holds the exclusive lock, and its next step
    last,               \* _last_hash of every instance
    poll,               \* the write a polling reader last got, and its version
    crashes, faults, damage,
    \* History, for the properties only:
    done, tries, unsafe

disk == <<copy, version, text, written>>
ghosts == <<done, tries, unsafe>>
counts == <<crashes, faults, damage>>
vars == <<disk, writer, last, poll, counts, ghosts>>
------------------------------------------------------------------------------
(* Reading                                                                   *)

\* _read_and_validate: no file, an unreadable one and a wrong checksum are
\* all "no data"; a missing sidecar is not checked.
Valid(c) == /\ copy[c].data \in Writes
            /\ copy[c].sum \in {Absent, copy[c].data}

\* read(): the first valid copy, 0 for none.
Found == IF Valid("primary") THEN copy["primary"].data
         ELSE IF Valid("prev") THEN copy["prev"].data
         ELSE IF Valid("prev2") THEN copy["prev2"].data
         ELSE 0

(* Mutant: the version is read from the backup. *)
RawVersionPrev == IF copy["prev"].data \in Writes
                  THEN version[copy["prev"].data] ELSE 0

\* _read_raw_unlocked: the version in the primary, its checksum unseen.
RawVersion == IF copy["primary"].data \in Writes
              THEN version[copy["primary"].data] ELSE 0

Init ==
    /\ copy = [c \in Copies |-> [data |-> Absent, sum |-> Absent]]
    /\ version = [w \in Writes |-> 0] /\ text = [w \in Writes |-> Unset]
    /\ written = 0
    /\ writer = NoWrite
    /\ last = [p \in Procs |-> Unset]
    /\ poll = [id |-> 0, version |-> 0]
    /\ crashes = 0 /\ faults = 0 /\ damage = 0
    /\ done = 0 /\ tries = 0 /\ unsafe = FALSE
------------------------------------------------------------------------------
(* Writing                                                                   *)

Unlocked == writer = NoWrite

(* Mutant: the newer backup is taken before the older one. *)
RotationNewestFirst ==
    <<[from |-> "primary", to |-> "prev",  part |-> "data"],
      [from |-> "primary", to |-> "prev",  part |-> "sum"],
      [from |-> "prev",    to |-> "prev2", part |-> "data"],
      [from |-> "prev",    to |-> "prev2", part |-> "sum"]>>

\* The four copies of _rotate_backups, in their order.
Rotation == <<[from |-> "prev",    to |-> "prev2", part |-> "data"],
              [from |-> "prev",    to |-> "prev2", part |-> "sum"],
              [from |-> "primary", to |-> "prev",  part |-> "data"],
              [from |-> "primary", to |-> "prev",  part |-> "sum"]>>
ReplaceStep == 5
SidecarStep == 6

\* write() up to the finished temporary file.  The text this instance wrote
\* last is not written again; a write skipped so, or given up before the
\* rotation (disk full), changes nothing and is no step.
Begin(p, t) ==
    /\ Unlocked /\ written < MaxWrites
    /\ t # last[p]
    /\ LET w == written + 1 IN
       /\ written' = w
       /\ version' = [version EXCEPT ![w] = RawVersion + 1]
       /\ text' = [text EXCEPT ![w] = t]
       /\ writer' = [by |-> p, id |-> w, at |-> 1]
    /\ tries' = tries + 1
    /\ UNCHANGED <<copy, last, poll, counts, done, unsafe>>

\* A source that does not exist is passed over, with its sidecar.
Copied(r) == Absent \notin {copy[r.from].data, copy[r.from][r.part]}

\* One shutil.copy2 of the rotation.
Rotate ==
    /\ writer.at \in DOMAIN Rotation
    /\ LET r == Rotation[writer.at] IN
       copy' = IF Copied(r) THEN [copy EXCEPT ![r.to][r.part] = copy[r.from][r.part]]
               ELSE copy
    /\ writer' = [writer EXCEPT !.at = @ + 1]
    /\ UNCHANGED <<version, text, written, last, poll, counts, ghosts>>

Completed == done' = writer.id /\ tries' = 0 /\ unsafe' = FALSE

\* os.replace of the temporary file.  Readers take it at once when no sidecar
\* contradicts it (the first write of all), otherwise with the sidecar.
Replace ==
    /\ writer.at = ReplaceStep
    /\ copy' = [copy EXCEPT !["primary"].data = writer.id]
    /\ writer' = [writer EXCEPT !.at = SidecarStep]
    /\ IF copy["primary"].sum = Absent THEN Completed ELSE UNCHANGED ghosts
    /\ UNCHANGED <<version, text, written, last, poll, counts>>

\* The write is over and was not skipped: unlock and remember its text.
Return ==
    /\ last' = [last EXCEPT ![writer.by] = text[writer.id]]
    /\ writer' = NoWrite

Sidecar ==
    /\ writer.at = SidecarStep
    /\ copy' = [copy EXCEPT !["primary"].sum = writer.id]
    /\ Return
    /\ Completed
    /\ UNCHANGED <<version, text, written, poll, counts>>
------------------------------------------------------------------------------
(* Failures                                                                  *)

Fault == faults < MaxFaults /\ faults' = faults + 1

\* The files the current step may have opened for writing: one, or none.
Opened == IF writer.at \in DOMAIN Rotation
          THEN {r \in {Rotation[writer.at]} : Copied(r)}
          ELSE IF writer.at = SidecarStep THEN {[to |-> "primary", part |-> "sum"]}
          ELSE {}

\* The step breaks off: that file is as it was, or cut.
CutShort == copy' \in {copy} \cup {[copy EXCEPT ![o.to][o.part] = Torn] : o \in Opened}

Unsafe(now) == unsafe' = (unsafe \/ now) /\ UNCHANGED <<done, tries>>

\* An OSError ends the rotation, and the write goes on without it.
RotateFails ==
    /\ writer.at \in DOMAIN Rotation
    /\ Fault
    /\ CutShort /\ Unsafe(TRUE)
    /\ writer' = [writer EXCEPT !.at = ReplaceStep]
    /\ UNCHANGED <<version, text, written, last, poll, crashes, damage>>

\* os.replace fails: the write answers False, the backups stay rotated.
ReplaceFails ==
    /\ writer.at = ReplaceStep
    /\ Fault
    /\ writer' = NoWrite
    /\ UNCHANGED <<disk, last, poll, crashes, damage, ghosts>>

\* The sidecar cannot be written: only logged, the write answers True.  The
\* first write of all is readable without it, and lost when it is cut.
SidecarFails ==
    /\ writer.at = SidecarStep
    /\ Fault
    /\ CutShort /\ Unsafe(done = writer.id)
    /\ Return
    /\ UNCHANGED <<version, text, written, poll, crashes, damage>>

\* A process dies, in the middle of its write if it holds the lock.
Crash(p) ==
    /\ crashes < MaxCrashes /\ crashes' = crashes + 1
    /\ IF writer.by = p THEN /\ CutShort /\ Unsafe(done = writer.id)
                               /\ writer' = NoWrite
       ELSE UNCHANGED <<copy, writer, ghosts>>
    /\ last' = [last EXCEPT ![p] = Unset]
    /\ UNCHANGED <<version, text, written, poll, faults, damage>>

\* The primary is deleted or cut by something else than this class.
Damage ==
    /\ Unlocked /\ damage < MaxDamage /\ damage' = damage + 1
    /\ \E d \in {Absent, Torn} : copy' = [copy EXCEPT !["primary"].data = d]
    /\ unsafe' = TRUE
    /\ UNCHANGED <<version, text, written, writer, last, poll, crashes, faults,
                   done, tries>>

\* read_if_changed: only a version above the last one seen is handed over.
Poll ==
    /\ Unlocked
    /\ Found # 0 /\ version[Found] > poll.version
    /\ poll' = [id |-> Found, version |-> version[Found]]
    /\ UNCHANGED <<disk, writer, last, counts, ghosts>>

Next ==
    \/ \E p \in Procs : Crash(p) \/ \E t \in Texts : Begin(p, t)
    \/ Rotate \/ Replace \/ Sidecar
    \/ RotateFails \/ ReplaceFails \/ SidecarFails
    \/ Damage \/ Poll

Spec == Init /\ [][Next]_vars
------------------------------------------------------------------------------
(* Properties                                                                *)

TypeOK ==
    /\ copy \in [Copies -> [data : Writes \cup {Absent, Torn},
                            sum : Writes \cup {Absent, Torn}]]
    /\ version \in [Writes -> Nat]
    /\ text \in [Writes -> Texts \cup {Unset}]
    /\ written \in 0 .. MaxWrites
    /\ writer \in {NoWrite} \cup [by : Procs, id : 1 .. written, at : 1 .. SidecarStep]
    /\ last \in [Procs -> Texts \cup {Unset}]
    /\ poll \in [id : 0 .. MaxWrites, version : Nat]
    /\ crashes \in 0 .. MaxCrashes /\ faults \in 0 .. MaxFaults
    /\ damage \in 0 .. MaxDamage
    /\ done \in 0 .. written /\ tries \in Nat /\ unsafe \in BOOLEAN

\* A polling reader (AltDataReader) that is told "unchanged" has what the
\* file holds, or something newer: version numbers tell writes apart whatever
\* was interrupted in between, as long as nobody else touches the primary.
UnchangedIsHeld ==
    Unlocked /\ damage = 0 /\ Found # 0 /\ version[Found] <= poll.version
        => Found <= poll.id

\* The three copies keep the last completed write through two interrupted
\* ones, and what a reader gets changes only when a write completes: the file
\* is a DurableCell.
Cell == INSTANCE DurableCell WITH value <- Found, Survives <- 2
Implements == Cell!Spec

\* "Returns True if written, False if unchanged" (write): the text an
\* instance would not write again is the text readers find.
SkippedIsThere ==
    Unlocked => \A p \in Procs :
        last[p] # Unset => Found # 0 /\ text[Found] = last[p]
==============================================================================
