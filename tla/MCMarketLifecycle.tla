------------------------- MODULE MCMarketLifecycle -------------------------
(***************************************************************************)
(* Instances of MarketLifecycle for TLC.  A year has three days and the    *)
(* default challenge window lasts two units, so that the proportional      *)
(* window, the minimum and the fixed one of dev mode all differ.           *)
(***************************************************************************)
EXTENDS MarketLifecycle, TLC

MCBalance == [a \in Accounts |-> 2]

Symmetry == Permutations(Accounts)
=============================================================================
