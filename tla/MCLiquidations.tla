--------------------------- MODULE MCLiquidations ---------------------------
(***************************************************************************)
(* An instance of Liquidations for TLC.                                    *)
(***************************************************************************)
EXTENDS Liquidations, TLC

CONSTANTS u1, u2, u3, m1, m2, protocol, o1

Fill(size, price) == [size |-> size, price |-> price]

MCKnown == <<u1, u2, u3>>

MCFills == [m \in Markets |-> {<<Fill(3, 10)>>, <<Fill(2, 20)>>}]

\* Two orders close a position of 2 and leave some of one of 3.
MCForced == {<<Fill(2, 3)>>, <<Fill(1, 30), Fill(1, 30)>>}
=============================================================================
