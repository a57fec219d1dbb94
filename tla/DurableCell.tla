---------------------------- MODULE DurableCell ----------------------------
(***************************************************************************)
(* What lifecycle/safe_state.py promises with its copies: a file holds the  *)
(* last completed write, 1, 2, ... counting writes and 0 meaning nothing     *)
(* readable.  A write takes effect at one instant or not at all, and two     *)
(* interrupted writes in a row cannot lose the one before them; the third    *)
(* may, and so may a write whose backup failed or a file damaged on disk     *)
(* (unsafe), until a write completes again.                                  *)
(***************************************************************************)
EXTENDS Integers

CONSTANT Survives       \* how many interrupted writes in a row must be survived

VARIABLES
    value,              \* what a reader gets
    done,               \* the last write that completed
    tries,              \* writes begun since then
    unsafe              \* no promise until a write completes

vars == <<value, done, tries, unsafe>>

Init == value = 0 /\ done = 0 /\ tries = 0 /\ unsafe = FALSE

Try == /\ tries' = tries + 1
       /\ UNCHANGED <<value, done, unsafe>>

Complete == /\ tries > 0
            /\ done' > done /\ value' = done'
            /\ tries' = 0 /\ unsafe' = FALSE

Break == /\ unsafe' = TRUE
         /\ value' \in Nat
         /\ UNCHANGED <<done, tries>>

Slip == /\ \/ unsafe /\ value' \in Nat
           \/ tries > Survives /\ value' = 0
        /\ UNCHANGED <<done, tries, unsafe>>

Next == Try \/ Complete \/ Break \/ Slip

Spec == Init /\ [][Next]_vars
==============================================================================
