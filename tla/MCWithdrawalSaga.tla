-------------------------- MODULE MCWithdrawalSaga --------------------------
(***************************************************************************)
(* Instances of WithdrawalSaga for TLC.  One account asks for withdrawals  *)
(* of one unit each (twins, which predict the same id in the same block)   *)
(* or of one and two units (distinct requests, the second one timelocked). *)
(***************************************************************************)
EXTENDS WithdrawalSaga, TLC

CONSTANTS u1, j1, j2

MCTwinAmounts == [j \in Jobs |-> 1]
MCDistinctAmounts == [j \in Jobs |-> IF j = j1 THEN 1 ELSE 2]
MCUserOf == [j \in Jobs |-> u1]
MCCredit == [u \in Users |-> 2]

Symmetry == Permutations(Workers)
=============================================================================
