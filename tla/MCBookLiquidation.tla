-------------------------- MODULE MCBookLiquidation -------------------------
(***************************************************************************)
(* Instances of BookLiquidation for TLC.                                   *)
(***************************************************************************)
EXTENDS BookLiquidation

CONSTANTS seller, buyer

\* One trader sells and one buys: nobody meets an order of their own.
MCOneSided == [t \in Traders |-> IF t = seller THEN {"sell"} ELSE {"buy"}]
=============================================================================
