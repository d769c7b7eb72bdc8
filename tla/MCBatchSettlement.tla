------------------------- MODULE MCBatchSettlement -------------------------
(***************************************************************************)
(* Instances of BatchSettlement for TLC.                                   *)
(***************************************************************************)
EXTENDS BatchSettlement, TLC

CONSTANTS u1, u2, u3, m1, m2, protocol, o1

Fill(size, price) == [size |-> size, price |-> price]

SingleFills(sizes, prices) == {<<Fill(s, p)>> : s \in sizes, p \in prices}

\* In the market that is settled a whole contract, or two halves from two orders
\* of the book; in the other one a half.  Trades open, increase, reduce, close and
\* flip positions, and the average price is rounded.
MCFills ==
  [m \in Markets |-> IF m \in Expiring THEN {<<Fill(2, 3)>>, <<Fill(1, 1), Fill(1, 3)>>}
                     ELSE {<<Fill(1, 1)>>}]

\* Whole contracts, one maker at a time, without rounding.
MCWholeFills == [m \in Markets |-> SingleFills({1}, {1, 2})]

Symmetry == Permutations(Users)
=============================================================================
