-------------------------- MODULE MCSettlementSaga --------------------------
(***************************************************************************)
(* Instances of SettlementSaga for TLC.                                    *)
(***************************************************************************)
EXTENDS SettlementSaga

CONSTANTS c1, c2, t1, w1, e1, a1, a2
=============================================================================
