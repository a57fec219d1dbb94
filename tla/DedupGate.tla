------------------------------ MODULE DedupGate ------------------------------
(***************************************************************************)
(* What the write-ahead log promises its callers about BUY orders: the      *)
(* dedup gate of OrderWAL.check_and_intent admits an order for a ticker     *)
(* only while no order admitted earlier for that ticker is open.  Nothing   *)
(* is said about files, indexes or processes; OrderWAL implements this.     *)
(***************************************************************************)
CONSTANTS Tickers, Cids

VARIABLES open,    \* per ticker, the admitted orders nobody has closed
          admitted \* every order ever admitted

vars == <<open, admitted>>

Init == /\ open = [t \in Tickers |-> {}]
        /\ admitted = {}

(* check_and_intent returns True. *)
Admit(t, c) ==
    /\ open[t] = {}
    /\ c \notin admitted
    /\ open' = [open EXCEPT ![t] = {c}]
    /\ admitted' = admitted \cup {c}

(* A terminal state is recorded for c, or its recovery is given up. *)
Close(t, c) ==
    /\ c \in open[t]
    /\ open' = [open EXCEPT ![t] = @ \ {c}]
    /\ UNCHANGED admitted

Next == \E t \in Tickers, c \in Cids : Admit(t, c) \/ Close(t, c)

Spec == Init /\ [][Next]_vars
==============================================================================
