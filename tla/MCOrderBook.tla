---------------------------- MODULE MCOrderBook ----------------------------
(***************************************************************************)
(* Instances of OrderBook for TLC.                                         *)
(***************************************************************************)
EXTENDS OrderBook

CONSTANTS seller, buyer

\* One trader sells and one buys: nobody meets an order of their own.
MCOneSided == [t \in Traders |-> IF t = seller THEN {"sell"} ELSE {"buy"}]
=============================================================================
