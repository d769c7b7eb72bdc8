------------------------------ MODULE Positions ------------------------------
(***************************************************************************)
(* The netting of positions of Dexetrav5/src/PositionManager.sol and the   *)
(* margin formulas of the trade execution facet, as pure operators.        *)
(*                                                                         *)
(* Sizes are integers in units of 1/Unit contracts (1e-18 in the code),    *)
(* positive for longs; prices and money are integers in the smallest unit  *)
(* of USDC.  A profit "in units" is money times Unit, as the code's 18     *)
(* decimal values are: DECIMAL_SCALE takes it back to money.               *)
(*                                                                         *)
(* A haircut is a loss of others that liquidations have put on a position  *)
(* (Liquidations), for so many units of it.  The stored liquidation price  *)
(* is left out: it is a function of the other fields, see Liquidations.    *)
(***************************************************************************)
EXTENDS Integers, Sequences

CONSTANTS
  Unit,                  \* one contract
  MarginRequirementBps,  \* margin of a long; a short always has 15000
  Markets

ASSUME UnitAssumption == Unit \in Nat \ {0}
ASSUME BpsAssumption == MarginRequirementBps \in Nat

Bps == 10000
ShortMarginBps == 15000

Abs(n) == IF n < 0 THEN -n ELSE n
Lesser(m, n) == IF m <= n THEN m ELSE n

\* The division of signed integers in Solidity rounds towards zero.
TruncDiv(a, b) == IF a >= 0 THEN a \div b ELSE -((-a) \div b)

\* The money of a value in units.
ToMoney(units) == TruncDiv(units, Unit)

Closes(size, delta) == (size > 0 /\ delta < 0) \/ (size < 0 /\ delta > 0)

\* The part of a position a trade closes, with the sign of the position.
ClosedPart(size, delta) ==
  LET n == Lesser(Abs(delta), Abs(size)) IN IF size > 0 THEN n ELSE -n

\* Realised by the trade, in units.
RealizedPnL(pos, delta, price) ==
  IF Closes(pos.size, delta)
  THEN (price - pos.entry) * ClosedPart(pos.size, delta)
  ELSE 0

\* Whole contracts, at least one: the weights of the average entry price.
WholeContracts(size) ==
  LET n == Abs(size) \div Unit IN IF n = 0 THEN 1 ELSE n

NewEntry(pos, delta, price) ==
  IF ~Closes(pos.size, delta)
  THEN LET old == WholeContracts(pos.size)
           new == WholeContracts(delta)
       IN (old * pos.entry + new * price) \div (old + new)
  ELSE IF Abs(delta) < Abs(pos.size) THEN pos.entry ELSE price

\* Notional and margins, as the trade execution facet computes them.
Notional(size, price) == (Abs(size) * price) \div Unit

MarginFor(size, price) ==
  (Notional(size, price)
     * (IF size >= 0 THEN MarginRequirementBps ELSE ShortMarginBps)) \div Bps

\* Margin of a reduced position stays at its entry price.
BasisPrice(size, entry, delta, price) ==
  IF Closes(size, delta) /\ Abs(delta) <= Abs(size) /\ entry > 0 THEN entry ELSE price

\* A partial close gives up a share of the haircut, for the units closed; any
\* other close gives up all of it.
PartlyCloses(size, delta) == Closes(size, delta) /\ Abs(delta) < Abs(size)

HaircutShare(pos, delta) ==
  IF pos.units = 0 THEN 0 ELSE (pos.haircut * Lesser(Abs(delta), pos.units)) \div pos.units

Confiscated(pos, delta) ==
  IF PartlyCloses(pos.size, delta) THEN HaircutShare(pos, delta)
  ELSE IF Closes(pos.size, delta) THEN pos.haircut
  ELSE 0

\* A flip keeps the fields, so what it gave up is given up again later.
WithoutShare(pos, delta) ==
  IF PartlyCloses(pos.size, delta) /\ HaircutShare(pos, delta) > 0
  THEN [pos EXCEPT !.haircut = @ - HaircutShare(pos, delta),
                   !.units = @ - Lesser(Abs(delta), @)]
  ELSE pos

RequiredMargin(size, entry, delta, price) ==
  IF size + delta = 0 THEN 0
  ELSE MarginFor(size + delta, BasisPrice(size, entry, delta, price))

\* A trade may not realise a loss over the margin of the part it closes.
PreTradeSolvent(size, entry, delta, price) ==
  Closes(size, delta) =>
    LET closed == ClosedPart(size, delta)
        loss == IF closed > 0 THEN entry - price ELSE price - entry
    IN loss > 0 => (Abs(closed) * loss) \div Unit <= MarginFor(closed, entry)

----------------------------------------------------------------------------
(* The positions of one user: an array and an index into it, by market,    *)
(* that holds slot numbers, 0 for none.                                    *)

PositionRecords == [market : Markets, size : Int, entry : Nat, margin : Nat,
                    haircut : Nat, units : Nat]

Slots(positions, m) == {i \in DOMAIN positions : positions[i].market = m}

\* An index that does not point at the market is dropped, and the array is
\* searched.
Indexed(positions, index, m) == index[m] \in Slots(positions, m)

Slot(positions, index, m) ==
  IF Indexed(positions, index, m) THEN index[m]
  ELSE IF Slots(positions, m) = {} THEN 0
  ELSE CHOOSE i \in Slots(positions, m) : \A j \in Slots(positions, m) : i <= j

\* Swap-and-pop.
RemoveSlot(positions, i) ==
  LET last == Len(positions)
  IN SubSeq([positions EXCEPT ![i] = positions[last]], 1, last - 1)

\* Mutant: the position that was moved keeps its old slot number.
ReindexForgettingMoved(positions, index, i, moved, m) == [index EXCEPT ![m] = 0]

\* moved is what the code writes for the position it moved into slot i.
ReindexAfterRemoval(positions, index, i, moved, m) ==
  LET last == Len(positions)
  IN IF i = last THEN [index EXCEPT ![m] = 0]
     ELSE [index EXCEPT ![positions[last].market] = moved, ![m] = 0]

\* executePositionNettingWithIndex.  In the closing branch the code writes the
\* index it looked up, which is 0 if the slot was found by the search.
Netting(positions, index, m, delta, price, margin) ==
  LET i == Slot(positions, index, m)
      pos == positions[i]
  IN IF i = 0
     THEN [positions |-> Append(positions, [market |-> m, size |-> delta,
                                            entry |-> price, margin |-> margin,
                                            haircut |-> 0, units |-> 0]),
           index |-> [index EXCEPT ![m] = Len(positions) + 1],
           realized |-> 0, confiscated |-> 0, oldMargin |-> 0, newMargin |-> margin,
           opened |-> TRUE, closed |-> FALSE]
     ELSE IF pos.size + delta = 0
     THEN [positions |-> RemoveSlot(positions, i),
           index |-> ReindexAfterRemoval(positions, index, i,
                       IF Indexed(positions, index, m) THEN i ELSE 0, m),
           realized |-> RealizedPnL(pos, delta, price),
           confiscated |-> Confiscated(pos, delta),
           oldMargin |-> pos.margin, newMargin |-> 0,
           opened |-> FALSE, closed |-> TRUE]
     ELSE [positions |-> [positions EXCEPT ![i] =
             [WithoutShare(pos, delta) EXCEPT
                !.size = @ + delta, !.entry = NewEntry(pos, delta, price),
                !.margin = margin]],
           index |-> [index EXCEPT ![m] = i],
           realized |-> RealizedPnL(pos, delta, price),
           confiscated |-> Confiscated(pos, delta),
           oldMargin |-> pos.margin, newMargin |-> margin,
           opened |-> FALSE, closed |-> FALSE]
=============================================================================
