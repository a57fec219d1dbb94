----------------------------- MODULE MCOrderWAL -----------------------------
(***************************************************************************)
(* OrderWAL on a small instance: one underlying that both processes trade,  *)
(* two or three orders, one or two crashes, at most one failed write.       *)
(***************************************************************************)
EXTENDS OrderWAL

CONSTANT aapl

MCTickers == {aapl}
==============================================================================
