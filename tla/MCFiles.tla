------------------------------ MODULE MCFiles ------------------------------
(***************************************************************************)
(* The fill ledger and the state file that keeps its lots, on small         *)
(* instances, one at a time: while one of them moves, the other stands at    *)
(* its start.  Two tickers, four lots, two trading days and two starts of    *)
(* the ledger; of the file one process with two contents, enough writes for   *)
(* three interrupted ones after a completed one, one failing file operation   *)
(* and one damage to the primary.                                            *)
(***************************************************************************)
EXTENDS SafeState, FillLedger

CONSTANTS aapl, msft, flat, long

MCTickers == {aapl, msft}
MCTexts == {flat, long}

VARIABLE moving     \* the one of the two that moves

FilesInit == Init /\ LedgerInit /\ moving \in {"ledger", "file"}
LedgerMoves == moving = "ledger" /\ LedgerNext /\ UNCHANGED vars
FileMoves == moving = "file" /\ Next /\ UNCHANGED ledgerVars
FilesSpec ==
    FilesInit /\ [][(LedgerMoves \/ FileMoves) /\ UNCHANGED moving]_<<vars, ledgerVars, moving>>
==============================================================================
