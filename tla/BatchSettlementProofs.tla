------------------------ MODULE BatchSettlementProofs ------------------------
(***************************************************************************)
(* Theorems about BatchSettlement, for any finite sets of users and        *)
(* orders, any markets, prices and fills.                                  *)
(*                                                                         *)
(* The first half is about the vault: that the operations of users keep    *)
(* exact indices of positions, exact lists of traders and exact cached     *)
(* totals.  The second half is about settlements.                          *)
(***************************************************************************)
EXTENDS BatchSettlement, DataInduction

----------------------------------------------------------------------------
(* What the operations of users keep of the vault. *)

\* Quotients of natural numbers are natural numbers.
LEMMA DivIsNat ==
  ASSUME NEW a \in Nat, NEW b \in Nat \ {0}
  PROVE  a \div b \in Nat
OBVIOUS

\* A share of h in proportion to a part k of u is at most h.
LEMMA DivAtMost ==
  ASSUME NEW h \in Nat, NEW k \in Nat, NEW u \in Nat \ {0}, k <= u
  PROVE  /\ (h * k) \div u \in Nat
         /\ (h * k) \div u <= h
<1>. DEFINE q == (h * k) \div u
<1>1. h * k \in Nat /\ h * k <= h * u
  OBVIOUS
<1>2. q \in Nat /\ q * u <= h * k
  BY <1>1
<1>3. ASSUME q > h PROVE FALSE
  <2>1. q * u >= (h + 1) * u
    BY <1>2, <1>3
  <2>2. (h + 1) * u = h * u + u
    OBVIOUS
  <2>. QED  BY <1>1, <1>2, <2>1, <2>2
<1>. QED  BY <1>2, <1>3

\* Solidity's division keeps the sign of its dividend.
LEMMA TruncDivIsInt ==
  ASSUME NEW a \in Int, NEW b \in Nat \ {0}
  PROVE  TruncDiv(a, b) \in Int /\ (a >= 0 => TruncDiv(a, b) >= 0)
         /\ (a <= 0 => TruncDiv(a, b) <= 0)
BY DEF TruncDiv

\* So does the conversion of units to money.
LEMMA MoneyIsInt ==
  ASSUME NEW units \in Int
  PROVE  ToMoney(units) \in Int /\ (units >= 0 => ToMoney(units) >= 0)
         /\ (units <= 0 => ToMoney(units) <= 0)
BY TruncDivIsInt, UnitAssumption DEF ToMoney

\* A notional value is a natural number, whatever the sign of the size.
LEMMA NotionalIsNat ==
  ASSUME NEW size \in Int, NEW price \in Nat
  PROVE  Notional(size, price) \in Nat
<1>1. Abs(size) * price \in Nat
  BY DEF Abs
<1>. QED  BY <1>1, DivIsNat, UnitAssumption DEF Notional

\* So is the margin that it requires,
LEMMA MarginForIsNat ==
  ASSUME NEW size \in Int, NEW price \in Nat
  PROVE  MarginFor(size, price) \in Nat
<1>. DEFINE n == Notional(size, price)
            bps == IF size >= 0 THEN MarginRequirementBps ELSE ShortMarginBps
<1>1. n \in Nat /\ bps \in Nat
  BY NotionalIsNat, BpsAssumption DEF ShortMarginBps
<1>2. n * bps \in Nat
  <2>. HIDE DEF n, bps
  <2>. QED  BY <1>1
<1>3. (n * bps) \div Bps \in Nat
  <2>. HIDE DEF n, bps
  <2>. QED  BY <1>2, DivIsNat DEF Bps
<1>. QED  BY <1>3 DEF MarginFor

\* and the margin that a change of a position requires,
LEMMA RequiredMarginIsNat ==
  ASSUME NEW size \in Int, NEW entry \in Nat, NEW delta \in Int, NEW price \in Nat
  PROVE  RequiredMargin(size, entry, delta, price) \in Nat
<1>1. BasisPrice(size, entry, delta, price) \in Nat
  BY DEF BasisPrice
<1>2. \A n \in Int : MarginFor(n, BasisPrice(size, entry, delta, price)) \in Nat
  BY <1>1, MarginForIsNat
<1>3. size + delta \in Int
  OBVIOUS
<1>. QED  BY <1>2, <1>3 DEF RequiredMargin

\* and the average price of a position that grows.
LEMMA NewEntryIsNat ==
  ASSUME NEW pos \in PositionRecords, NEW delta \in Int, NEW price \in Nat
  PROVE  NewEntry(pos, delta, price) \in Nat
<1>1. ASSUME NEW n \in Int PROVE WholeContracts(n) \in Nat \ {0}
  <2>1. Abs(n) \in Nat
    BY DEF Abs
  <2>. QED  BY <2>1, DivIsNat, UnitAssumption DEF WholeContracts
<1>2. pos.size \in Int /\ pos.entry \in Nat
  BY DEF PositionRecords
<1>. DEFINE old == WholeContracts(pos.size)
            new == WholeContracts(delta)
<1>3. old \in Nat \ {0} /\ new \in Nat \ {0}
  BY <1>1, <1>2
<1>4. old * pos.entry + new * price \in Nat /\ old + new \in Nat \ {0}
  <2>. HIDE DEF old, new
  <2>. QED  BY <1>2, <1>3
<1>5. (old * pos.entry + new * price) \div (old + new) \in Nat
  <2>. HIDE DEF old, new
  <2>. QED  BY <1>4, DivIsNat
<1>. QED  BY <1>2, <1>5 DEF NewEntry

\* The share of the haircut that a reduction takes is at most the haircut.
LEMMA ShareIsCovered ==
  ASSUME NEW pos \in PositionRecords, NEW delta \in Int
  PROVE  HaircutShare(pos, delta) \in 0 .. pos.haircut
<1>1. pos.haircut \in Nat /\ pos.units \in Nat
  BY DEF PositionRecords
<1>2. CASE pos.units = 0
  BY <1>1, <1>2 DEF HaircutShare
<1>3. CASE pos.units # 0
  <2>1. /\ Lesser(Abs(delta), pos.units) \in Nat
        /\ Lesser(Abs(delta), pos.units) <= pos.units
    BY <1>1 DEF Abs, Lesser
  <2>. QED  BY <1>1, <1>3, <2>1, DivAtMost DEF HaircutShare
<1>. QED  BY <1>2, <1>3

\* Taking the share changes the haircut and its units only.
LEMMA WithoutShareKeeps ==
  ASSUME NEW pos \in PositionRecords, NEW delta \in Int
  PROVE  /\ WithoutShare(pos, delta) \in PositionRecords
         /\ \A field \in {"market", "size", "entry", "margin"} :
              WithoutShare(pos, delta)[field] = pos[field]
<1>1. pos.haircut \in Nat /\ pos.units \in Nat
  BY DEF PositionRecords
<1>2. pos.haircut - HaircutShare(pos, delta) \in Nat
  BY <1>1, ShareIsCovered
<1>3. pos.units - Lesser(Abs(delta), pos.units) \in Nat
  BY <1>1 DEF Lesser, Abs
<1>. QED  BY <1>2, <1>3 DEF WithoutShare, PositionRecords

\* What a reduction realises is an integer.
LEMMA RealizedIsInt ==
  ASSUME NEW pos \in PositionRecords, NEW delta \in Int, NEW price \in Nat
  PROVE  RealizedPnL(pos, delta, price) \in Int
<1>1. pos.size \in Int /\ pos.entry \in Nat
  BY DEF PositionRecords
<1>2. ClosedPart(pos.size, delta) \in Int
  BY <1>1 DEF ClosedPart, Lesser, Abs
<1>. QED  BY <1>1, <1>2 DEF RealizedPnL

\* What a reduction confiscates is a natural number.
LEMMA ConfiscatedIsNat ==
  ASSUME NEW pos \in PositionRecords, NEW delta \in Int
  PROVE  Confiscated(pos, delta) \in Nat
BY ShareIsCovered DEF Confiscated, PositionRecords

----------------------------------------------------------------------------
(* Swap-and-pop, of positions and of traders. *)

\* The swap-and-pop: the last slot takes the place of the removed one.
LEMMA RemovedSlot ==
  ASSUME NEW S, NEW s \in Seq(S), NEW i \in 1 .. Len(s)
  PROVE  /\ RemoveSlot(s, i) \in Seq(S)
         /\ Len(RemoveSlot(s, i)) = Len(s) - 1
         /\ \A j \in 1 .. Len(s) - 1 :
              RemoveSlot(s, i)[j] = IF j = i THEN s[Len(s)] ELSE s[j]
<1>. DEFINE t == [s EXCEPT ![i] = s[Len(s)]]
<1>1. t \in Seq(S) /\ Len(t) = Len(s)
  OBVIOUS
<1>2. \A j \in 1 .. Len(s) : t[j] = IF j = i THEN s[Len(s)] ELSE s[j]
  OBVIOUS
<1>3. Len(s) - 1 \in Nat /\ Len(s) - 1 <= Len(t)
  BY <1>1
<1>. HIDE DEF t
<1>4. /\ SubSeq(t, 1, Len(s) - 1) \in Seq(S)
      /\ Len(SubSeq(t, 1, Len(s) - 1)) = Len(s) - 1
      /\ \A j \in 1 .. Len(s) - 1 : SubSeq(t, 1, Len(s) - 1)[j] = t[j]
  BY <1>1, <1>3
<1>. QED  BY <1>2, <1>4 DEF RemoveSlot, t

\* index names every slot.
Exact(positions, index) ==
  \A m \in Markets : Slots(positions, m) = IF index[m] = 0 THEN {} ELSE {index[m]}

\* Positions with a size: what a slot holds.
Held == {pos \in PositionRecords : pos.size # 0}

\* With an exact index, the slot of a market is the one that the index gives,
\* and the contract's check of it succeeds.
LEMMA SlotIsIndexed ==
  ASSUME NEW positions \in Seq(Held), NEW index \in [Markets -> Nat],
         Exact(positions, index), NEW m \in Markets
  PROVE  Slot(positions, index, m) = index[m]
         /\ (index[m] # 0 => index[m] \in 1 .. Len(positions)
                              /\ positions[index[m]].market = m
                              /\ Indexed(positions, index, m))
BY DEF Exact, Slot, Indexed, Slots

\* The swap-and-pop keeps the index exact, also when the removed slot is the
\* last.
LEMMA RemovalKeepsExact ==
  ASSUME NEW positions \in Seq(Held), NEW index \in [Markets -> Nat],
         Exact(positions, index), NEW m \in Markets, index[m] # 0
  PROVE  LET i == index[m]
             removed == RemoveSlot(positions, i)
             after == ReindexAfterRemoval(positions, index, i, i, m)
         IN /\ removed \in Seq(Held)
            /\ after \in [Markets -> Nat]
            /\ Exact(removed, after)
            /\ after[m] = 0
            /\ \A k \in Markets \ {m} : after[k] = 0 <=> index[k] = 0
<1>. DEFINE i == index[m]
            last == Len(positions)
            removed == RemoveSlot(positions, i)
            after == ReindexAfterRemoval(positions, index, i, i, m)
<1>1. i \in 1 .. last /\ positions[i].market = m
  BY SlotIsIndexed
<1>2. /\ removed \in Seq(Held) /\ Len(removed) = last - 1
      /\ \A j \in 1 .. last - 1 : removed[j] = IF j = i THEN positions[last] ELSE positions[j]
  BY <1>1, RemovedSlot
<1>3. \A j \in 1 .. last : positions[j].market \in Markets
  <2>1. \A j \in 1 .. last : positions[j] \in Held
    OBVIOUS
  <2>. QED  BY <2>1 DEF Held, PositionRecords
<1>4. \A k \in Markets, j \in 1 .. last : positions[j].market = k => j = index[k]
  BY <1>3 DEF Exact, Slots
<1>5. \A k \in Markets : index[k] # 0 => index[k] \in 1 .. last /\ positions[index[k]].market = k
  BY SlotIsIndexed
<1>6. after \in [Markets -> Nat]
  BY <1>1, <1>3 DEF ReindexAfterRemoval
<1>7. after[m] = 0
  BY <1>1, <1>3 DEF ReindexAfterRemoval
<1>8. \A k \in Markets \ {m} :
        after[k] = IF i # last /\ positions[last].market = k THEN i ELSE index[k]
  BY <1>1, <1>3 DEF ReindexAfterRemoval
<1>. HIDE DEF i, removed, after
<1>9. Exact(removed, after)
  <2>1. SUFFICES ASSUME NEW k \in Markets
                 PROVE  Slots(removed, k) = IF after[k] = 0 THEN {} ELSE {after[k]}
    BY DEF Exact
  <2>2. Slots(removed, k) = {j \in 1 .. last - 1 : removed[j].market = k}
    BY <1>2 DEF Slots
  <2>3. CASE k = m
    BY <2>2, <2>3, <1>1, <1>2, <1>3, <1>4, <1>7, SMTT(30)
  <2>4. CASE k # m
    <3>1. \A j \in 1 .. last - 1 : removed[j].market = k <=> j = after[k]
      <4>1. CASE i # last /\ positions[last].market = k
        <5>1. index[k] = last /\ after[k] = i
          BY <4>1, <1>1, <1>4, <1>8, <2>4
        <5>2. \A j \in 1 .. last - 1 : j # i => positions[j].market # k
          BY <5>1, <1>4
        <5>. QED  BY <4>1, <5>1, <5>2, <1>2
      <4>2. CASE ~(i # last /\ positions[last].market = k)
        <5>1. after[k] = index[k]
          BY <4>2, <1>8, <2>4
        <5>2. \A j \in 1 .. last - 1 : positions[j].market = k <=> j = index[k]
          BY <1>4, <1>5
        <5>3. positions[last].market # k /\ positions[i].market # k /\ index[k] # i
          BY <4>2, <1>1, <1>5, <2>4
        <5>. QED  BY <5>1, <5>2, <5>3, <1>2
      <4>. QED  BY <4>1, <4>2
    <3>2. after[k] # 0 => after[k] \in 1 .. last - 1
      <4>1. CASE i # last /\ positions[last].market = k
        BY <4>1, <1>1, <1>8, <2>4
      <4>2. CASE ~(i # last /\ positions[last].market = k)
        <5>1. index[k] # last
          BY <4>2, <1>1, <1>5, <2>4
        <5>. QED  BY <4>2, <5>1, <1>5, <1>8, <2>4
      <4>. QED  BY <4>1, <4>2
    <3>3. 0 \notin 1 .. last - 1
      OBVIOUS
    <3>. QED  BY <2>2, <3>1, <3>2, <3>3
  <2>. QED  BY <2>3, <2>4
<1>10. \A k \in Markets \ {m} : after[k] = 0 <=> index[k] = 0
  BY <1>1, <1>4, <1>8
<1>. QED  BY <1>2, <1>6, <1>7, <1>9, <1>10 DEF i, removed, after

\* Netting a trade keeps the index exact, and opens or closes the position of
\* its market only.
LEMMA NettingKeeps ==
  ASSUME NEW positions \in Seq(Held), NEW index \in [Markets -> Nat],
         Exact(positions, index), NEW m \in Markets,
         NEW delta \in Int \ {0}, NEW price \in Nat, NEW margin \in Nat
  PROVE  LET n == Netting(positions, index, m, delta, price, margin)
         IN /\ n.positions \in Seq(Held) /\ n.index \in [Markets -> Nat]
            /\ Exact(n.positions, n.index)
            /\ \A k \in Markets \ {m} : n.index[k] = 0 <=> index[k] = 0
            /\ n.realized \in Int /\ n.confiscated \in Nat
            /\ n.oldMargin \in Nat /\ n.newMargin \in Nat
            /\ n.opened \in BOOLEAN /\ n.closed \in BOOLEAN
            /\ n.opened <=> (index[m] = 0)
            /\ n.closed <=> (n.index[m] = 0)
<1>. DEFINE n == Netting(positions, index, m, delta, price, margin)
            i == index[m]
            pos == positions[i]
<1>1. Slot(positions, index, m) = i /\ (i # 0 => Indexed(positions, index, m))
  BY SlotIsIndexed
<1>2. CASE i = 0
  <2>. DEFINE new == [market |-> m, size |-> delta, entry |-> price, margin |-> margin,
                      haircut |-> 0, units |-> 0]
  <2>1. new \in Held /\ new.market = m
    BY DEF Held, PositionRecords
  <2>2. n = [positions |-> Append(positions, new),
             index |-> [index EXCEPT ![m] = Len(positions) + 1],
             realized |-> 0, confiscated |-> 0, oldMargin |-> 0, newMargin |-> margin,
             opened |-> TRUE, closed |-> FALSE]
    BY <1>1, <1>2 DEF Netting
  <2>3. /\ n.positions = Append(positions, new)
        /\ n.index = [index EXCEPT ![m] = Len(positions) + 1]
        /\ n.realized = 0 /\ n.confiscated = 0 /\ n.oldMargin = 0 /\ n.newMargin = margin
        /\ n.opened = TRUE /\ n.closed = FALSE
    <3>. HIDE DEF n, new
    <3>. QED  BY <2>2
  <2>4. /\ n.index \in [Markets -> Nat] /\ n.index[m] = Len(positions) + 1
        /\ \A k \in Markets \ {m} : n.index[k] = index[k]
    <3>. HIDE DEF n, new
    <3>. QED  BY <2>3
  <2>5. /\ n.positions \in Seq(Held) /\ Len(n.positions) = Len(positions) + 1
        /\ \A j \in 1 .. Len(positions) : n.positions[j] = positions[j]
        /\ n.positions[Len(positions) + 1].market = m
    <3>. HIDE DEF n, new
    <3>. QED  BY <2>1, <2>3
  <2>6. ASSUME NEW k \in Markets
        PROVE  Slots(n.positions, k) = IF n.index[k] = 0 THEN {} ELSE {n.index[k]}
    <3>1. Slots(positions, k) = IF index[k] = 0 THEN {} ELSE {index[k]}
      BY DEF Exact
    <3>. HIDE DEF n
    <3>2. Slots(n.positions, k) = Slots(positions, k)
                                   \cup (IF k = m THEN {Len(positions) + 1} ELSE {})
      BY <2>5, SMTT(30) DEF Slots
    <3>. QED  BY <1>2, <2>4, <3>1, <3>2
  <2>7. Exact(n.positions, n.index)
    BY <2>6 DEF Exact
  <2>8. n.opened <=> (index[m] = 0)
    BY <1>2, <2>3
  <2>9. n.closed <=> (n.index[m] = 0)
    BY <2>3, <2>4
  <2>10. /\ n.realized \in Int /\ n.confiscated \in Nat
         /\ n.oldMargin \in Nat /\ n.newMargin \in Nat
    BY <2>3
  <2>12. n.opened \in BOOLEAN /\ n.closed \in BOOLEAN
    BY <2>3, Zenon
  <2>11. \A k \in Markets \ {m} : n.index[k] = 0 <=> index[k] = 0
    BY <2>4
  <2>. QED  BY <2>4, <2>5, <2>7, <2>8, <2>9, <2>10, <2>11, <2>12
<1>3. CASE i # 0
  <2>1. pos \in Held /\ pos.market = m /\ i \in 1 .. Len(positions)
    BY <1>3, SlotIsIndexed
  <2>2. pos \in PositionRecords /\ pos.size \in Int /\ pos.margin \in Nat
    BY <2>1 DEF Held, PositionRecords
  <2>3. /\ RealizedPnL(pos, delta, price) \in Int
        /\ Confiscated(pos, delta) \in Nat
        /\ NewEntry(pos, delta, price) \in Nat
    BY <2>2, RealizedIsInt, ConfiscatedIsNat, NewEntryIsNat
  <2>4. CASE pos.size + delta = 0
    <3>1. n = [positions |-> RemoveSlot(positions, i),
               index |-> ReindexAfterRemoval(positions, index, i, i, m),
               realized |-> RealizedPnL(pos, delta, price),
               confiscated |-> Confiscated(pos, delta),
               oldMargin |-> pos.margin, newMargin |-> 0,
               opened |-> FALSE, closed |-> TRUE]
      BY <1>1, <1>3, <2>4 DEF Netting
    <3>. HIDE DEF pos
    <3>. QED  BY <1>3, <2>2, <2>3, <3>1, RemovalKeepsExact
  <2>5. CASE pos.size + delta # 0
    <3>. DEFINE kept == WithoutShare(pos, delta)
                changed == [kept EXCEPT !.size = @ + delta,
                              !.entry = NewEntry(pos, delta, price), !.margin = margin]
    <3>1. n = [positions |-> [positions EXCEPT ![i] = changed],
               index |-> [index EXCEPT ![m] = i],
               realized |-> RealizedPnL(pos, delta, price),
               confiscated |-> Confiscated(pos, delta),
               oldMargin |-> pos.margin, newMargin |-> margin,
               opened |-> FALSE, closed |-> FALSE]
      BY <1>1, <1>3, <2>5 DEF Netting
    <3>2. [index EXCEPT ![m] = i] = index
      OBVIOUS
    <3>3. kept \in PositionRecords /\ kept.market = m /\ kept.size = pos.size
      BY <2>1, <2>2, WithoutShareKeeps
    <3>4. changed \in Held /\ changed.market = m
      <4>1. pos.size + delta \in Int
        BY <2>2
      <4>. HIDE DEF kept, pos
      <4>. QED  BY <2>3, <2>5, <3>3, <4>1 DEF Held, PositionRecords
    <3>5. /\ n.positions = [positions EXCEPT ![i] = changed]
          /\ n.index = index /\ n.oldMargin = pos.margin /\ n.newMargin = margin
          /\ n.realized = RealizedPnL(pos, delta, price)
          /\ n.confiscated = Confiscated(pos, delta)
          /\ n.opened = FALSE /\ n.closed = FALSE
      <4>. HIDE DEF n, pos, changed
      <4>. QED  BY <3>1, <3>2
    <3>6. /\ n.positions \in Seq(Held) /\ Len(n.positions) = Len(positions)
          /\ \A j \in 1 .. Len(positions) : n.positions[j].market = positions[j].market
      <4>. HIDE DEF n, changed
      <4>. QED  BY <2>1, <3>4, <3>5
    <3>7. \A k \in Markets : Slots(n.positions, k) = Slots(positions, k)
      <4>. HIDE DEF n
      <4>. QED  BY <3>6 DEF Slots
    <3>8. Exact(n.positions, n.index)
      BY <3>5, <3>7 DEF Exact
    <3>9. n.opened <=> (index[m] = 0)
      BY <1>3, <3>5
    <3>10. n.closed <=> (n.index[m] = 0)
      BY <1>3, <3>5
    <3>. HIDE DEF pos
    <3>. QED  BY <2>2, <2>3, <3>5, <3>6, <3>8, <3>9, <3>10
  <2>. QED  BY <2>4, <2>5
<1>. QED  BY <1>2, <1>3

\* Netting a trade changes the positions: it adds one, removes one or changes
\* the size of one.
LEMMA NettingChanges ==
  ASSUME NEW positions \in Seq(Held), NEW index \in [Markets -> Nat],
         Exact(positions, index), NEW m \in Markets,
         NEW delta \in Int \ {0}, NEW price \in Nat, NEW margin \in Nat
  PROVE  Netting(positions, index, m, delta, price, margin).positions # positions
<1>. DEFINE n == Netting(positions, index, m, delta, price, margin)
            i == index[m]
            pos == positions[i]
<1>1. Slot(positions, index, m) = i
  BY SlotIsIndexed
<1>2. CASE i = 0
  <2>. DEFINE new == [market |-> m, size |-> delta, entry |-> price, margin |-> margin,
                      haircut |-> 0, units |-> 0]
  <2>1. n.positions = Append(positions, new)
    BY <1>1, <1>2 DEF Netting
  <2>2. Len(Append(positions, new)) = Len(positions) + 1 /\ Len(positions) \in Nat
    <3>. HIDE DEF new
    <3>. QED  OBVIOUS
  <2>. HIDE DEF new, n
  <2>3. n.positions # positions
    BY <2>1, <2>2
  <2>. QED  BY <2>3 DEF n
<1>3. CASE i # 0 /\ pos.size + delta = 0
  <2>1. n.positions = RemoveSlot(positions, i) /\ i \in 1 .. Len(positions)
    BY <1>1, <1>3, SlotIsIndexed DEF Netting
  <2>2. Len(RemoveSlot(positions, i)) = Len(positions) - 1 /\ Len(positions) \in Nat
    BY <2>1, RemovedSlot
  <2>. HIDE DEF n, i
  <2>3. n.positions # positions
    BY <2>1, <2>2
  <2>. QED  BY <2>3 DEF n
<1>4. CASE i # 0 /\ pos.size + delta # 0
  <2>. DEFINE kept == WithoutShare(pos, delta)
              changed == [kept EXCEPT !.size = @ + delta,
                            !.entry = NewEntry(pos, delta, price), !.margin = margin]
  <2>1. pos \in PositionRecords /\ i \in 1 .. Len(positions) /\ pos.size \in Int
    <3>1. pos \in Held /\ i \in 1 .. Len(positions)
      BY <1>4, SlotIsIndexed
    <3>. QED  BY <3>1 DEF Held, PositionRecords
  <2>2. kept \in PositionRecords /\ kept.size = pos.size
    BY <2>1, WithoutShareKeeps
  <2>3. n.positions = [positions EXCEPT ![i] = changed]
    BY <1>1, <1>4 DEF Netting
  <2>4. changed.size = pos.size + delta
    <3>. HIDE DEF kept, pos
    <3>. QED  BY <2>2 DEF PositionRecords
  <2>. HIDE DEF n, changed
  <2>5. n.positions[i] = changed
    BY <2>1, <2>3
  <2>6. changed.size # pos.size
    BY <2>1, <2>4
  <2>7. n.positions # positions
    BY <2>5, <2>6
  <2>. QED  BY <2>7 DEF n
<1>. QED  BY <1>2, <1>3, <1>4

----------------------------------------------------------------------------
(* One account. *)

\* The accounts, with the type of each field.
AccountRecords ==
  [collateral : Nat, credit : Nat, pnl : Int, positions : Seq(Held),
   index : [Markets -> Nat], locked : Nat, orders : [Orders -> Nat],
   reserved : Nat, socialized : Nat]

\* The books of an account: everything but its money.
Books == {"positions", "index", "locked", "orders", "reserved", "socialized"}

\* The profit of an account is a natural number.
LEMMA ProfitIsNat ==
  ASSUME NEW a \in AccountRecords
  PROVE  ProfitOf(a) \in Nat
BY MoneyIsInt DEF ProfitOf, AccountRecords

\* A payment that the funds cover leaves natural numbers, and the books alone.
LEMMA Paying ==
  ASSUME NEW a \in AccountRecords, NEW amount \in Nat,
         amount <= a.credit + a.collateral
  PROVE  /\ PayFromFunds(a, amount) \in AccountRecords
         /\ \A field \in Books \cup {"pnl"} : PayFromFunds(a, amount)[field] = a[field]
<1>1. a.credit \in Nat /\ a.collateral \in Nat
  BY DEF AccountRecords
<1>. DEFINE fromCredit == Lesser(amount, a.credit)
<1>2. /\ a.credit - fromCredit \in Nat
      /\ a.collateral - (amount - fromCredit) \in Nat
  BY <1>1 DEF Lesser
<1>3. PayFromFunds(a, amount) =
        [a EXCEPT !.credit = @ - fromCredit, !.collateral = @ - (amount - fromCredit)]
  BY DEF PayFromFunds
<1>. HIDE DEF fromCredit
<1>. QED  BY <1>2, <1>3 DEF AccountRecords, Books

\* So does a fee, which takes what there is.
LEMMA FeesKeepBooks ==
  ASSUME NEW accounts \in [Accounts -> AccountRecords], NEW u \in Users, NEW amount \in Nat
  PROVE  /\ DeductFees(accounts, u, amount) \in [Accounts -> AccountRecords]
         /\ \A v \in Accounts, field \in Books :
              DeductFees(accounts, u, amount)[v][field] = accounts[v][field]
<1>. DEFINE a == accounts[u]
            fromPnL == Lesser(amount, ProfitOf(a))
            rest == amount - fromPnL
            fromCredit == Lesser(rest, a.credit)
            payer == [PayFromFunds(a, rest) EXCEPT !.pnl = @ - fromPnL * Unit]
            r == accounts[FeeRecipient]
            receiver == [r EXCEPT !.credit = @ + fromCredit,
                                  !.collateral = @ + (amount - fromCredit)]
<1>1. u \in Accounts /\ FeeRecipient \in Accounts /\ u # FeeRecipient
  BY VaultAssumption DEF Accounts
<1>2. a \in AccountRecords /\ r \in AccountRecords
  BY <1>1
<1>3. a.credit \in Nat /\ a.collateral \in Nat /\ a.pnl \in Int
  BY <1>2 DEF AccountRecords
<1>4. fromPnL \in Nat /\ rest \in Nat /\ fromCredit \in Nat /\ amount - fromCredit \in Nat
  BY <1>2, <1>3, ProfitIsNat DEF Lesser
<1>5. CASE amount = 0 \/ a.credit + a.collateral < rest
  BY <1>5 DEF DeductFees
<1>6. CASE ~(amount = 0 \/ a.credit + a.collateral < rest)
  <2>1. /\ PayFromFunds(a, rest) \in AccountRecords
        /\ \A field \in Books \cup {"pnl"} : PayFromFunds(a, rest)[field] = a[field]
    <3>1. rest <= a.credit + a.collateral
      <4>. HIDE DEF rest, a
      <4>. QED  BY <1>3, <1>4, <1>6
    <3>. HIDE DEF rest, a
    <3>. QED  BY <1>2, <1>4, <3>1, Paying
  <2>2. /\ payer \in AccountRecords
        /\ \A field \in Books : payer[field] = a[field]
    <3>1. a.pnl - fromPnL * Unit \in Int
      <4>. HIDE DEF fromPnL, a
      <4>. QED  BY <1>3, <1>4, UnitAssumption
    <3>. HIDE DEF fromPnL, a, rest
    <3>. QED  BY <2>1, <3>1 DEF AccountRecords, Books
  <2>3. /\ receiver \in AccountRecords
        /\ \A field \in Books : receiver[field] = r[field]
    <3>. HIDE DEF fromCredit, r
    <3>1. r.credit + fromCredit \in Nat /\ r.collateral + (amount - fromCredit) \in Nat
      <4>1. r.credit \in Nat /\ r.collateral \in Nat
        BY <1>2 DEF AccountRecords
      <4>. QED  BY <1>4, <4>1
    <3>. QED  BY <1>2, <3>1 DEF AccountRecords, Books
  <2>4. DeductFees(accounts, u, amount) =
          [accounts EXCEPT ![u] = payer, ![FeeRecipient].credit = @ + fromCredit,
                           ![FeeRecipient].collateral = @ + (amount - fromCredit)]
    BY <1>6 DEF DeductFees
  <2>5. \A v \in Accounts : DeductFees(accounts, u, amount)[v] =
          IF v = u THEN payer ELSE IF v = FeeRecipient THEN receiver ELSE accounts[v]
    <3>. HIDE DEF payer, fromCredit
    <3>. QED  BY <1>1, <2>4
  <2>6. DeductFees(accounts, u, amount) =
          [v \in Accounts |-> DeductFees(accounts, u, amount)[v]]
    <3>. HIDE DEF payer, fromCredit
    <3>. QED  BY <2>4
  <2>. HIDE DEF payer, receiver, a, r
  <2>7. DeductFees(accounts, u, amount) \in [Accounts -> AccountRecords]
    BY <2>2, <2>3, <2>5, <2>6
  <2>8. \A v \in Accounts, field \in Books :
          DeductFees(accounts, u, amount)[v][field] = accounts[v][field]
    BY <2>2, <2>3, <2>5 DEF a, r
  <2>. QED  BY <2>7, <2>8
<1>. QED  BY <1>5, <1>6

\* So does booking what was realised.
LEMMA BookingKeepsBooks ==
  ASSUME NEW a \in AccountRecords, NEW realized \in Int
  PROVE  /\ BookRealized(a, realized) \in AccountRecords
         /\ \A field \in Books : BookRealized(a, realized)[field] = a[field]
<1>. DEFINE loss == IF realized < 0 THEN -ToMoney(realized) ELSE 0
            paid == loss - UncoveredLoss(a, loss)
<1>1. loss \in Nat
  BY MoneyIsInt
<1>2. a.credit \in Nat /\ a.collateral \in Nat /\ a.pnl + realized \in Int
  BY DEF AccountRecords
<1>3. paid \in Nat /\ paid <= a.credit + a.collateral
  <2>. HIDE DEF loss
  <2>. QED  BY <1>1, <1>2 DEF UncoveredLoss, Less
<1>4. /\ PayFromFunds(a, paid) \in AccountRecords
      /\ \A field \in Books \cup {"pnl"} : PayFromFunds(a, paid)[field] = a[field]
  <2>. HIDE DEF paid
  <2>. QED  BY <1>3, Paying
<1>5. BookRealized(a, realized) = [PayFromFunds(a, paid) EXCEPT !.pnl = @ + realized]
  BY DEF BookRealized
<1>. HIDE DEF paid
<1>. QED  BY <1>2, <1>4, <1>5 DEF AccountRecords, Books

\* What a leg has computed of an account, with its types.
LegGood(a, n) ==
  /\ a \in AccountRecords
  /\ n.positions \in Seq(Held) /\ n.index \in [Markets -> Nat]
  /\ n.realized \in Int /\ n.confiscated \in Nat
  /\ n.oldMargin \in Nat /\ n.newMargin \in Nat

\* What a leg pays out is an integer.
LEMMA NetRealizedIsInt ==
  ASSUME NEW n, n.realized \in Int, n.confiscated \in Nat
  PROVE  NetRealized(n) \in Int
<1>. DEFINE taken == Lesser(n.confiscated, ToMoney(n.realized))
<1>1. taken \in Int
  BY MoneyIsInt DEF Lesser
<1>2. n.realized - taken * Unit \in Int
  <2>. HIDE DEF taken
  <2>. QED  BY <1>1, UnitAssumption
<1>. QED  BY <1>2 DEF NetRealized

\* A leg gives the account its new positions and index, and keeps the orders.
LEMMA LegAccount ==
  ASSUME NEW a, NEW n, LegGood(a, n)
  PROVE  /\ AfterLeg(a, n) \in AccountRecords
         /\ AfterLeg(a, n).positions = n.positions
         /\ AfterLeg(a, n).index = n.index
         /\ AfterLeg(a, n).locked = LockMargin(a.locked, n)
         /\ AfterLeg(a, n).orders = a.orders
         /\ AfterLeg(a, n).reserved = a.reserved
         /\ LegBadDebt(a, n) \in Nat
<1>. DEFINE b == BookRealized(a, NetRealized(n))
<1>1. b \in AccountRecords /\ \A field \in Books : b[field] = a[field]
  BY NetRealizedIsInt, BookingKeepsBooks DEF LegGood
<1>2. a.locked \in Nat /\ a.socialized \in Nat /\ a.credit + a.collateral \in Nat
  BY DEF LegGood, AccountRecords
<1>3. LockMargin(a.locked, n) \in Nat /\ Less(a.socialized, n.confiscated) \in Nat
  <2>1. n.confiscated \in Nat /\ n.oldMargin \in Nat /\ n.newMargin \in Nat
    BY DEF LegGood
  <2>. QED  BY <1>2, <2>1 DEF LockMargin, Less
<1>4. AfterLeg(a, n) =
        [b EXCEPT !.positions = n.positions, !.index = n.index,
                  !.locked = LockMargin(a.locked, n), !.socialized = Less(@, n.confiscated)]
  BY DEF AfterLeg
<1>5. b.socialized = a.socialized /\ b.orders = a.orders /\ b.reserved = a.reserved
  BY <1>1 DEF Books
<1>6. LegBadDebt(a, n) \in Nat
  <2>1. n.realized \in Int
    BY DEF LegGood
  <2>2. ToMoney(n.realized) \in Int /\ (n.realized <= 0 => ToMoney(n.realized) <= 0)
    BY <2>1, MoneyIsInt
  <2>. QED  BY <1>2, <2>1, <2>2 DEF LegBadDebt, UncoveredLoss, Less
<1>7. n.positions \in Seq(Held) /\ n.index \in [Markets -> Nat]
  BY DEF LegGood
<1>. HIDE DEF b
<1>8. AfterLeg(a, n) \in AccountRecords
  <2>. DEFINE locked == LockMargin(a.locked, n)
              socialized == Less(b.socialized, n.confiscated)
  <2>1. /\ b \in AccountRecords /\ locked \in Nat /\ socialized \in Nat
        /\ n.positions \in Seq(Held) /\ n.index \in [Markets -> Nat]
        /\ AfterLeg(a, n) = [b EXCEPT !.positions = n.positions, !.index = n.index,
                                      !.locked = locked, !.socialized = socialized]
    BY <1>1, <1>3, <1>4, <1>5, <1>7
  <2>. HIDE DEF locked, socialized
  <2>. QED  BY <2>1 DEF AccountRecords
<1>. QED  BY <1>1, <1>4, <1>5, <1>6, <1>8 DEF AccountRecords

\* The position that the checks read has a type, also where there is none.
LEMMA PositionOfIsTyped ==
  ASSUME NEW a \in AccountRecords, Exact(a.positions, a.index), NEW m \in Markets
  PROVE  /\ PositionOf(a, m).size \in Int
         /\ PositionOf(a, m).entry \in Nat
<1>1. a.positions \in Seq(Held) /\ a.index \in [Markets -> Nat]
  BY DEF AccountRecords
<1>2. /\ Slot(a.positions, a.index, m) = a.index[m]
      /\ a.index[m] # 0 => a.index[m] \in 1 .. Len(a.positions)
  BY <1>1, SlotIsIndexed
<1>3. a.index[m] # 0 => a.positions[a.index[m]] \in Held
  BY <1>1, <1>2
<1>. QED  BY <1>2, <1>3 DEF PositionOf, Held, PositionRecords

----------------------------------------------------------------------------
(* The traders of a market. *)

\* index names the place of everybody on the list.
TradersExact(list, index) ==
  \A u \in Users :
    {i \in DOMAIN list : list[i] = u} = IF index[u] = 0 THEN {} ELSE {index[u]}

\* Adding a trader keeps its index exact, also when it is there.
LEMMA AddingTrader ==
  ASSUME NEW list \in Seq(Users), NEW index \in [Users -> Nat],
         TradersExact(list, index), NEW u \in Users
  PROVE  LET after == AddTrader(list, index, u)
         IN /\ after[1] \in Seq(Users) /\ after[2] \in [Users -> Nat]
            /\ TradersExact(after[1], after[2])
            /\ \A v \in Users : after[2][v] # 0 <=> index[v] # 0 \/ v = u
<1>1. CASE index[u] # 0
  BY <1>1 DEF AddTrader
<1>2. CASE index[u] = 0
  <2>. DEFINE longer == Append(list, u)
              reindexed == [index EXCEPT ![u] = Len(list) + 1]
  <2>1. AddTrader(list, index, u) = <<longer, reindexed>>
    BY <1>2 DEF AddTrader
  <2>2. /\ longer \in Seq(Users) /\ Len(longer) = Len(list) + 1
        /\ longer[Len(list) + 1] = u
        /\ \A i \in 1 .. Len(list) : longer[i] = list[i]
    OBVIOUS
  <2>3. reindexed \in [Users -> Nat] /\ reindexed[u] = Len(list) + 1
        /\ \A v \in Users \ {u} : reindexed[v] = index[v]
    OBVIOUS
  <2>. HIDE DEF longer, reindexed
  <2>4. ASSUME NEW v \in Users
        PROVE  {i \in DOMAIN longer : longer[i] = v}
                 = IF reindexed[v] = 0 THEN {} ELSE {reindexed[v]}
    <3>1. {i \in 1 .. Len(list) : list[i] = v} = IF index[v] = 0 THEN {} ELSE {index[v]}
      BY DEF TradersExact
    <3>2. {i \in DOMAIN longer : longer[i] = v} =
            {i \in 1 .. Len(list) : list[i] = v} \cup (IF v = u THEN {Len(list) + 1} ELSE {})
      BY <2>2
    <3>. QED  BY <1>2, <2>3, <3>1, <3>2
  <2>5. TradersExact(longer, reindexed)
    BY <2>4 DEF TradersExact
  <2>6. \A v \in Users : reindexed[v] # 0 <=> index[v] # 0 \/ v = u
    BY <2>3
  <2>. QED  BY <2>1, <2>2, <2>3, <2>5, <2>6
<1>. QED  BY <1>1, <1>2

\* Removing a trader keeps the index exact: the last one takes its place.
LEMMA RemovingTrader ==
  ASSUME NEW list \in Seq(Users), NEW index \in [Users -> Nat],
         TradersExact(list, index), NEW u \in Users
  PROVE  LET after == RemoveTrader(list, index, u)
         IN /\ after[1] \in Seq(Users) /\ after[2] \in [Users -> Nat]
            /\ TradersExact(after[1], after[2])
            /\ \A v \in Users : after[2][v] # 0 <=> index[v] # 0 /\ v # u
<1>1. CASE index[u] = 0
  <2>1. RemoveTrader(list, index, u) = <<list, index>>
    BY <1>1 DEF RemoveTrader
  <2>. QED  BY <1>1, <2>1
<1>2. CASE index[u] # 0
  <2>. DEFINE i == index[u]
              end == Len(list)
              last == list[end]
              shorter == RemoveSlot(list, i)
              reindexed == [index EXCEPT ![last] = i, ![u] = 0]
  <2>1. RemoveTrader(list, index, u) = <<shorter, reindexed>>
    BY <1>2 DEF RemoveTrader, RemoveSlot
  <2>2. \A v \in Users, j \in 1 .. end : list[j] = v => j = index[v]
    BY DEF TradersExact
  <2>3. \A v \in Users : index[v] # 0 => index[v] \in 1 .. end /\ list[index[v]] = v
    BY DEF TradersExact
  <2>4. i \in 1 .. end /\ list[i] = u /\ last \in Users
    BY <1>2, <2>3
  <2>5. /\ shorter \in Seq(Users) /\ Len(shorter) = end - 1
        /\ \A j \in 1 .. end - 1 : shorter[j] = IF j = i THEN last ELSE list[j]
    BY <2>4, RemovedSlot
  <2>6. /\ reindexed \in [Users -> Nat] /\ reindexed[u] = 0
        /\ \A v \in Users \ {u} : reindexed[v] = IF v = last THEN i ELSE index[v]
    BY <2>4
  <2>. HIDE DEF shorter, reindexed
  <2>7. ASSUME NEW v \in Users, NEW j \in 1 .. end - 1
        PROVE  shorter[j] = v <=> reindexed[v] # 0 /\ j = reindexed[v]
    <3>0. j # i => (list[j] = v <=> index[v] # 0 /\ j = index[v])
      BY <2>2, <2>3
    <3>4. index[u] = i /\ i # 0 /\ list[end] = last /\ end \in 1 .. end /\ end \in Nat
      BY <1>2, <2>4
    <3>. HIDE DEF i, last, end
    <3>5. j = i => last # u
      BY <2>2, <2>4, <3>4
    <3>1. CASE v = u
      BY <2>5, <2>6, <3>0, <3>1, <3>4, <3>5
    <3>6. index[last] = end
      BY <2>2, <2>4, <3>4
    <3>2. CASE v # u /\ v = last
      <4>1. reindexed[v] = i
        BY <2>6, <3>2, <3>4
      <4>2. j = i => shorter[j] = v
        BY <2>5, <3>2
      <4>3. j # i => shorter[j] # v
        BY <2>5, <3>0, <3>2, <3>4, <3>6
      <4>. QED  BY <3>4, <4>1, <4>2, <4>3
    <3>3. CASE v # u /\ v # last
      BY <2>2, <2>3, <2>4, <2>5, <2>6, <3>0, <3>3
    <3>. QED  BY <3>1, <3>2, <3>3
  <2>8. ASSUME NEW v \in Users, reindexed[v] # 0
        PROVE  reindexed[v] \in 1 .. end - 1
    <3>1. CASE v = last
      BY <2>2, <2>4, <2>6, <2>8, <3>1, SMTT(30)
    <3>2. CASE v # last
      BY <2>2, <2>3, <2>4, <2>6, <2>8, <3>2
    <3>. QED  BY <3>1, <3>2
  <2>9. TradersExact(shorter, reindexed)
    BY <2>5, <2>7, <2>8, SMTT(30) DEF TradersExact
  <2>10. \A v \in Users : reindexed[v] # 0 <=> index[v] # 0 /\ v # u
    BY <2>2, <2>4, <2>6
  <2>. QED  BY <2>1, <2>5, <2>6, <2>9, <2>10
<1>. QED  BY <1>1, <1>2

\* What the leg of u makes of the list and its index.
Tracked(list, index, u, n, after) ==
  /\ after[1] \in Seq(Users) /\ after[2] \in [Users -> Nat]
  /\ TradersExact(after[1], after[2])
  /\ \A v \in Users \ {u} : after[2][v] # 0 <=> index[v] # 0
  /\ n.closed => after[2][u] = 0
  /\ n.opened /\ ~n.closed => after[2][u] # 0
  /\ ~n.opened /\ ~n.closed => after[2][u] = index[u]

\* A leg adds the trader who opens a position and removes the one who closes it.
LEMMA Tracking ==
  ASSUME NEW list \in Seq(Users), NEW index \in [Users -> Nat],
         TradersExact(list, index), NEW u \in Users, NEW n
  PROVE  Tracked(list, index, u, n, TrackTrader(list, index, u, n))
<1>1. CASE n.closed
  BY <1>1, RemovingTrader DEF TrackTrader, Tracked
<1>2. CASE ~n.closed /\ n.opened
  BY <1>2, AddingTrader DEF TrackTrader, Tracked
<1>3. CASE ~n.closed /\ ~n.opened
  BY <1>3 DEF TrackTrader, Tracked
<1>. QED  BY <1>1, <1>2, <1>3

----------------------------------------------------------------------------
(* The margins of the positions of an account. *)

\* The margins of the positions, slot by slot.
MarginOf(positions) == [i \in DOMAIN positions |-> positions[i].margin]

\* PositionMargins is the sum of them, and a natural number.
LEMMA MarginsAreSummed ==
  ASSUME NEW positions \in Seq(Held)
  PROVE  /\ PositionMargins(positions) =
              SumFunctionOnSet(MarginOf(positions), 1 .. Len(positions))
         /\ IsFiniteSet(1 .. Len(positions))
         /\ \A i \in 1 .. Len(positions) : MarginOf(positions)[i] = positions[i].margin
                                           /\ positions[i].margin \in Nat
         /\ Ints(MarginOf(positions), 1 .. Len(positions))
         /\ PositionMargins(positions) \in Nat
<1>1. IsFiniteSet(1 .. Len(positions)) /\ DOMAIN MarginOf(positions) = 1 .. Len(positions)
  BY FS_Interval DEF MarginOf
<1>2. \A i \in 1 .. Len(positions) : MarginOf(positions)[i] = positions[i].margin
                                     /\ positions[i].margin \in Nat
  BY SMTT(30) DEF MarginOf, Held, PositionRecords
<1>3. PositionMargins(positions) = SumFunctionOnSet(MarginOf(positions), 1 .. Len(positions))
  BY <1>1 DEF PositionMargins, SumFunction, MarginOf
<1>4. Ints(MarginOf(positions), 1 .. Len(positions))
  BY <1>2 DEF Ints
<1>5. PositionMargins(positions) \in Nat
  BY <1>1, <1>2, <1>3, SumIsNat
<1>. QED  BY <1>1, <1>2, <1>3, <1>4, <1>5

\* Only slot i of the positions changes its margin.
SameBut(i, before, after) ==
  /\ Len(after) = Len(before)
  /\ \A j \in 1 .. Len(before) : j # i => after[j].margin = before[j].margin

\* Then the sum changes by as much.
LEMMA MarginChanged ==
  ASSUME NEW before \in Seq(Held), NEW after \in Seq(Held), NEW i \in 1 .. Len(before),
         SameBut(i, before, after)
  PROVE  PositionMargins(after) =
           PositionMargins(before) - before[i].margin + after[i].margin
<1>1. /\ IsFiniteSet(1 .. Len(before)) /\ Ints(MarginOf(before), 1 .. Len(before))
      /\ \A j \in 1 .. Len(before) : MarginOf(before)[j] = before[j].margin
      /\ PositionMargins(before) = SumFunctionOnSet(MarginOf(before), 1 .. Len(before))
  BY MarginsAreSummed
<1>2. /\ \A j \in 1 .. Len(before) : MarginOf(after)[j] = after[j].margin
                                     /\ after[j].margin \in Nat
      /\ PositionMargins(after) = SumFunctionOnSet(MarginOf(after), 1 .. Len(before))
  BY MarginsAreSummed DEF SameBut
<1>3. \A j \in (1 .. Len(before)) \ {i} : MarginOf(after)[j] = MarginOf(before)[j]
  BY <1>1, <1>2 DEF SameBut
<1>4. MarginOf(after)[i] \in Int
  BY <1>2
<1>5. SumFunctionOnSet(MarginOf(after), 1 .. Len(before)) =
        SumFunctionOnSet(MarginOf(before), 1 .. Len(before))
          - MarginOf(before)[i] + MarginOf(after)[i]
  <2>. DEFINE S == 1 .. Len(before)
  <2>1. i \in S /\ IsFiniteSet(S) /\ Ints(MarginOf(before), S)
    BY <1>1
  <2>2. AgreeBut(MarginOf(before), MarginOf(after), S, i)
    BY <1>3 DEF AgreeBut
  <2>. HIDE DEF S
  <2>3. SumFunctionOnSet(MarginOf(after), S) =
          SumFunctionOnSet(MarginOf(before), S) - MarginOf(before)[i] + MarginOf(after)[i]
    BY <1>4, <2>1, <2>2, SumAfterChange
  <2>. QED  BY <2>3 DEF S
<1>. QED  BY <1>1, <1>2, <1>5

\* A new position adds its margin.
LEMMA MarginAdded ==
  ASSUME NEW before \in Seq(Held), NEW pos \in Held
  PROVE  PositionMargins(Append(before, pos)) = PositionMargins(before) + pos.margin
<1>. DEFINE n == Len(before)
            after == Append(before, pos)
<1>1. /\ after \in Seq(Held) /\ Len(after) = n + 1 /\ n \in Nat
      /\ after[n + 1] = pos /\ \A j \in 1 .. n : after[j] = before[j]
  OBVIOUS
<1>. HIDE DEF after
<1>2. /\ IsFiniteSet(1 .. n + 1) /\ Ints(MarginOf(after), 1 .. n + 1)
      /\ \A j \in 1 .. n + 1 : MarginOf(after)[j] = after[j].margin /\ after[j].margin \in Nat
      /\ PositionMargins(after) = SumFunctionOnSet(MarginOf(after), 1 .. n + 1)
  BY <1>1, MarginsAreSummed
<1>3. /\ IsFiniteSet(1 .. n) /\ Ints(MarginOf(before), 1 .. n)
      /\ \A j \in 1 .. n : MarginOf(before)[j] = before[j].margin
      /\ PositionMargins(before) = SumFunctionOnSet(MarginOf(before), 1 .. n)
      /\ PositionMargins(before) \in Nat
  BY MarginsAreSummed
<1>4. n + 1 \in 1 .. n + 1 /\ (1 .. n + 1) \ {n + 1} = 1 .. n
  BY <1>1
<1>5. SumFunctionOnSet(MarginOf(after), 1 .. n + 1) =
        MarginOf(after)[n + 1] + SumFunctionOnSet(MarginOf(after), 1 .. n)
  <2>1. SumFunctionOnSet(MarginOf(after), 1 .. n + 1) =
          MarginOf(after)[n + 1] + SumFunctionOnSet(MarginOf(after), (1 .. n + 1) \ {n + 1})
    BY <1>2, <1>4, SumSplit
  <2>. QED  BY <1>4, <2>1
<1>6. \A j \in 1 .. n : MarginOf(before)[j] = MarginOf(after)[j]
  BY <1>1, <1>2, <1>3
<1>7. SumFunctionOnSet(MarginOf(before), 1 .. n) = SumFunctionOnSet(MarginOf(after), 1 .. n)
  BY <1>3, <1>6, SumCongruence
<1>8. MarginOf(after)[n + 1] = pos.margin /\ pos.margin \in Nat
  BY <1>1, <1>2, <1>4
<1>9. PositionMargins(after) = pos.margin + PositionMargins(before)
  BY <1>2, <1>3, <1>5, <1>7, <1>8
<1>. QED  BY <1>3, <1>8, <1>9 DEF after

\* The swap-and-pop takes the margin of the removed position, and no other.
LEMMA MarginRemoved ==
  ASSUME NEW before \in Seq(Held), NEW i \in 1 .. Len(before)
  PROVE  /\ PositionMargins(RemoveSlot(before, i)) =
              PositionMargins(before) - before[i].margin
         /\ before[i].margin <= PositionMargins(before)
<1>. DEFINE n == Len(before) - 1
            moved == [before EXCEPT ![i] = before[n + 1]]
            after == RemoveSlot(before, i)
<1>1. /\ n \in Nat /\ Len(before) = n + 1 /\ before[n + 1] \in Held
      /\ moved \in Seq(Held) /\ Len(moved) = n + 1
      /\ \A j \in 1 .. n + 1 : moved[j] = IF j = i THEN before[n + 1] ELSE before[j]
  OBVIOUS
<1>2. /\ after \in Seq(Held) /\ Len(after) = n
      /\ \A j \in 1 .. n : after[j] = moved[j]
  <2>1. /\ after \in Seq(Held) /\ Len(after) = Len(before) - 1
        /\ \A j \in 1 .. Len(before) - 1 :
             after[j] = IF j = i THEN before[Len(before)] ELSE before[j]
    BY RemovedSlot
  <2>. HIDE DEF moved, after
  <2>. QED  BY <1>1, <2>1
<1>. HIDE DEF moved, after, n
<1>4. moved = Append(after, before[n + 1])
  <2>1. moved[n + 1] = before[n + 1]
    BY <1>1
  <2>2. /\ Append(after, before[n + 1]) \in Seq(Held)
        /\ Len(Append(after, before[n + 1])) = n + 1
        /\ Append(after, before[n + 1])[n + 1] = before[n + 1]
        /\ \A j \in 1 .. n : Append(after, before[n + 1])[j] = after[j]
    BY <1>1, <1>2
  <2>3. \A j \in 1 .. n + 1 : Append(after, before[n + 1])[j] = moved[j]
    BY <1>1, <1>2, <2>1, <2>2
  <2>. QED  BY <1>1, <2>2, <2>3
<1>5. PositionMargins(moved) = PositionMargins(after) + before[n + 1].margin
  BY <1>1, <1>2, <1>4, MarginAdded
<1>6. PositionMargins(moved) = PositionMargins(before) - before[i].margin + before[n + 1].margin
  <2>1. SameBut(i, before, moved) /\ moved[i] = before[n + 1]
    BY <1>1 DEF SameBut
  <2>. QED  BY <1>1, <2>1, MarginChanged
<1>7. /\ PositionMargins(before) \in Nat /\ PositionMargins(after) \in Nat
      /\ before[i].margin \in Nat /\ before[n + 1].margin \in Nat
  BY <1>1, <1>2, MarginsAreSummed, SMTT(30)
<1>8. PositionMargins(after) = PositionMargins(before) - before[i].margin
  <2>1. \A a, b, c, d \in Int : a + c = b - d + c => a = b - d
    OBVIOUS
  <2>. QED  BY <1>5, <1>6, <1>7, <2>1
<1>. QED  BY <1>7, <1>8 DEF after

\* The sum of the margins moves by what n reports to the vault.
MarginsMoved(positions, n) ==
  /\ n.oldMargin <= PositionMargins(positions)
  /\ PositionMargins(n.positions) = PositionMargins(positions) + (n.newMargin - n.oldMargin)

\* Netting changes the sum by what it reports to the vault, which is how the
\* vault updates its cache.
LEMMA NettingMovesMargin ==
  ASSUME NEW positions \in Seq(Held), NEW index \in [Markets -> Nat],
         Exact(positions, index), NEW m \in Markets,
         NEW delta \in Int \ {0}, NEW price \in Nat, NEW margin \in Nat
  PROVE  MarginsMoved(positions, Netting(positions, index, m, delta, price, margin))
<1>. DEFINE n == Netting(positions, index, m, delta, price, margin)
            i == index[m]
            pos == positions[i]
<1>. SUFFICES /\ n.oldMargin <= PositionMargins(positions)
              /\ PositionMargins(n.positions) =
                   PositionMargins(positions) + (n.newMargin - n.oldMargin)
  BY DEF MarginsMoved
<1>1. Slot(positions, index, m) = i /\ (i # 0 => i \in 1 .. Len(positions))
  BY SlotIsIndexed
<1>2. PositionMargins(positions) \in Nat
  BY MarginsAreSummed
<1>3. CASE i = 0
  <2>. DEFINE new == [market |-> m, size |-> delta, entry |-> price, margin |-> margin,
                      haircut |-> 0, units |-> 0]
  <2>1. new \in Held /\ new.margin = margin
    BY DEF Held, PositionRecords
  <2>2. /\ n.positions = Append(positions, new) /\ n.oldMargin = 0 /\ n.newMargin = margin
    BY <1>1, <1>3 DEF Netting
  <2>. HIDE DEF n, new
  <2>3. PositionMargins(n.positions) = PositionMargins(positions) + margin
    BY <2>1, <2>2, MarginAdded
  <2>. QED  BY <1>2, <2>2, <2>3
<1>4. CASE i # 0
  <2>1. i \in 1 .. Len(positions) /\ pos.margin \in Nat
    BY <1>1, <1>4, MarginsAreSummed
  <2>2. pos.margin <= PositionMargins(positions)
    BY <2>1, MarginRemoved
  <2>3. CASE pos.size + delta = 0
    <3>1. /\ n.positions = RemoveSlot(positions, i) /\ n.oldMargin = pos.margin
          /\ n.newMargin = 0
      BY <1>1, <1>4, <2>3 DEF Netting
    <3>. HIDE DEF n
    <3>2. PositionMargins(n.positions) = PositionMargins(positions) - pos.margin
      BY <2>1, <3>1, MarginRemoved
    <3>. QED  BY <1>2, <2>1, <2>2, <3>1, <3>2
  <2>4. CASE pos.size + delta # 0
    <3>. DEFINE changed == [WithoutShare(pos, delta) EXCEPT !.size = @ + delta,
                              !.entry = NewEntry(pos, delta, price), !.margin = margin]
    <3>1. /\ n.positions = [positions EXCEPT ![i] = changed]
          /\ n.oldMargin = pos.margin /\ n.newMargin = margin
      BY <1>1, <1>4, <2>4 DEF Netting
    <3>2. n.positions \in Seq(Held)
      BY NettingKeeps
    <3>3. changed.margin = margin
      <4>1. pos \in PositionRecords
        BY <2>1 DEF Held
      <4>2. WithoutShare(pos, delta) \in PositionRecords
        BY <4>1, WithoutShareKeeps
      <4>. QED  BY <4>2 DEF PositionRecords
    <3>. HIDE DEF n, changed
    <3>4. SameBut(i, positions, n.positions) /\ n.positions[i].margin = margin
      BY <2>1, <3>1, <3>3 DEF SameBut
    <3>5. PositionMargins(n.positions) = PositionMargins(positions) - pos.margin + margin
      BY <2>1, <3>2, <3>4, MarginChanged
    <3>. QED  BY <1>2, <2>1, <2>2, <3>1, <3>5
  <2>. QED  BY <2>3, <2>4
<1>. QED  BY <1>3, <1>4

\* The cached margins of the accounts.
LockedOf(accounts) == [v \in Users |-> accounts[v].locked]

\* The cached totals are the sums they stand for.
CachesExact(accounts, total) ==
  /\ \A v \in Users : accounts[v].locked = PositionMargins(accounts[v].positions)
  /\ total = SumFunctionOnSet(LockedOf(accounts), Users)

\* And the reserved total of an account is the sum over its orders.
ReservesExact(accounts) ==
  \A v \in Users : accounts[v].reserved = SumFunctionOnSet(accounts[v].orders, Orders)

\* The caches of u move with its positions, the other accounts' stay.
LEMMA CachesFollow ==
  ASSUME NEW before \in [Accounts -> AccountRecords], NEW after \in [Accounts -> AccountRecords],
         NEW total \in Nat, CachesExact(before, total), NEW u \in Users,
         \A v \in Users \ {u} : /\ after[v].locked = before[v].locked
                                /\ after[v].positions = before[v].positions,
         after[u].locked = PositionMargins(after[u].positions)
  PROVE  CachesExact(after, total - before[u].locked + after[u].locked)
<1>1. Users \subseteq Accounts /\ IsFiniteSet(Users)
  BY VaultAssumption DEF Accounts
<1>2. \A v \in Users : /\ LockedOf(before)[v] = before[v].locked /\ before[v].locked \in Nat
                       /\ LockedOf(after)[v] = after[v].locked /\ after[v].locked \in Nat
  BY <1>1 DEF LockedOf, AccountRecords
<1>3. Ints(LockedOf(before), Users) /\ LockedOf(after)[u] \in Int
  BY <1>2 DEF Ints
<1>4. AgreeBut(LockedOf(before), LockedOf(after), Users, u)
  BY <1>2 DEF AgreeBut
<1>5. SumFunctionOnSet(LockedOf(after), Users) =
        SumFunctionOnSet(LockedOf(before), Users) - LockedOf(before)[u] + LockedOf(after)[u]
  BY <1>1, <1>3, <1>4, SumAfterChange
<1>6. SumFunctionOnSet(LockedOf(after), Users) = total - before[u].locked + after[u].locked
  BY <1>2, <1>5 DEF CachesExact
<1>7. \A v \in Users : after[v].locked = PositionMargins(after[v].positions)
  BY DEF CachesExact
<1>. QED  BY <1>6, <1>7 DEF CachesExact

\* Nothing moves.
LEMMA CachesStay ==
  ASSUME NEW before \in [Accounts -> AccountRecords], NEW after \in [Accounts -> AccountRecords],
         NEW total \in Nat, CachesExact(before, total),
         \A v \in Users : /\ after[v].locked = before[v].locked
                          /\ after[v].positions = before[v].positions
  PROVE  CachesExact(after, total)
<1>1. LockedOf(after) = LockedOf(before)
  BY DEF LockedOf
<1>. QED  BY <1>1 DEF CachesExact

----------------------------------------------------------------------------
(* The leg of a trade. *)

\* The ledger of a trade, with the type of each field.
LedgerRecords ==
  [acct : [Accounts -> AccountRecords], list : Seq(Users), index : [Users -> Nat],
   locked : Nat, badDebt : Nat, ok : BOOLEAN]

\* The index of every account is exact.
AccountsExact(accounts) ==
  \A v \in Accounts : Exact(accounts[v].positions, accounts[v].index)

\* Everybody with a position is on the list.
HoldersListed(accounts, index, m) ==
  \A v \in Users : accounts[v].index[m] # 0 => index[v] # 0

\* Everybody on the list has a position.
ListedHold(accounts, index, m) ==
  \A v \in Users : index[v] # 0 => accounts[v].index[m] # 0

\* What a leg needs of the ledger.
GoodLedger(ledger) ==
  /\ ledger \in LedgerRecords
  /\ AccountsExact(ledger.acct)
  /\ TradersExact(ledger.list, ledger.index)

\* A leg keeps indices and lists exact, and does not touch other markets.
LEMMA LegKeeps ==
  ASSUME NEW ledger, GoodLedger(ledger), NEW m \in Markets, NEW u \in Users,
         NEW delta \in Int \ {0}, NEW price \in Nat, NEW fee \in Nat
  PROVE  LET after == Leg(ledger, m, u, delta, price, fee)
         IN /\ after.acct \in [Accounts -> AccountRecords] /\ AccountsExact(after.acct)
            /\ after.list \in Seq(Users) /\ after.index \in [Users -> Nat]
            /\ TradersExact(after.list, after.index)
            /\ after.locked \in Int /\ after.badDebt \in Nat /\ after.ok \in BOOLEAN
            /\ \A k \in Markets \ {m}, v \in Users :
                 after.acct[v].index[k] = 0 <=> ledger.acct[v].index[k] = 0
            /\ HoldersListed(ledger.acct, ledger.index, m)
                 => HoldersListed(after.acct, after.index, m)
            /\ ListedHold(ledger.acct, ledger.index, m)
                 => ListedHold(after.acct, after.index, m)
<1>. DEFINE accounts == DeductFees(ledger.acct, u, fee)
            a == accounts[u]
            pos == PositionOf(a, m)
            n == NettingOf(a, pos, m, delta, price)
            tracked == TrackTrader(ledger.list, ledger.index, u, n)
            after == Leg(ledger, m, u, delta, price, fee)
<1>1. /\ ledger.acct \in [Accounts -> AccountRecords]
      /\ ledger.list \in Seq(Users) /\ ledger.index \in [Users -> Nat]
      /\ ledger.locked \in Nat /\ ledger.badDebt \in Nat /\ ledger.ok \in BOOLEAN
  BY DEF GoodLedger, LedgerRecords
<1>2. /\ AccountsExact(ledger.acct) /\ TradersExact(ledger.list, ledger.index)
      /\ u \in Accounts /\ Users \subseteq Accounts
  BY DEF GoodLedger, Accounts
<1>3. /\ accounts \in [Accounts -> AccountRecords]
      /\ \A v \in Accounts : /\ accounts[v].positions = ledger.acct[v].positions
                             /\ accounts[v].index = ledger.acct[v].index
  BY <1>1, FeesKeepBooks DEF Books
<1>4. a \in AccountRecords /\ Exact(a.positions, a.index) /\ a.index = ledger.acct[u].index
  BY <1>2, <1>3 DEF AccountsExact
<1>5. pos.size \in Int /\ pos.entry \in Nat
  BY <1>4, PositionOfIsTyped
<1>6. RequiredMargin(pos.size, pos.entry, delta, price) \in Nat
  BY <1>5, RequiredMarginIsNat
<1>7. a.positions \in Seq(Held) /\ a.index \in [Markets -> Nat]
  BY <1>4 DEF AccountRecords
<1>8. /\ n.positions \in Seq(Held) /\ n.index \in [Markets -> Nat]
      /\ Exact(n.positions, n.index)
      /\ \A k \in Markets \ {m} : n.index[k] = 0 <=> a.index[k] = 0
      /\ n.realized \in Int /\ n.confiscated \in Nat
      /\ n.oldMargin \in Nat /\ n.newMargin \in Nat
      /\ n.opened \in BOOLEAN /\ n.closed \in BOOLEAN
      /\ n.opened <=> a.index[m] = 0
      /\ n.closed <=> n.index[m] = 0
  <2>. HIDE DEF a, pos
  <2>. QED  BY <1>4, <1>6, <1>7, NettingKeeps DEF NettingOf
<1>. HIDE DEF accounts, a, pos, n
<1>9. /\ AfterLeg(a, n) \in AccountRecords
      /\ AfterLeg(a, n).positions = n.positions /\ AfterLeg(a, n).index = n.index
      /\ LegBadDebt(a, n) \in Nat
  BY <1>4, <1>8, LegAccount DEF LegGood
<1>10. /\ tracked[1] \in Seq(Users) /\ tracked[2] \in [Users -> Nat]
       /\ TradersExact(tracked[1], tracked[2])
       /\ \A v \in Users \ {u} : tracked[2][v] # 0 <=> ledger.index[v] # 0
       /\ n.closed => tracked[2][u] = 0
       /\ n.opened /\ ~n.closed => tracked[2][u] # 0
       /\ ~n.opened /\ ~n.closed => tracked[2][u] = ledger.index[u]
  <2>1. Tracked(ledger.list, ledger.index, u, n, tracked)
    BY <1>1, <1>2, Tracking
  <2>. HIDE DEF tracked
  <2>. QED  BY <2>1, Zenon DEF Tracked
<1>. HIDE DEF tracked
<1>21. /\ n.index[m] = 0 => tracked[2][u] = 0
       /\ n.index[m] # 0 /\ a.index[m] = 0 => tracked[2][u] # 0
       /\ n.index[m] # 0 /\ a.index[m] # 0 => tracked[2][u] = ledger.index[u]
  BY <1>8, <1>10, Zenon
<1>22. tracked[1] \in Seq(Users) /\ tracked[2] \in [Users -> Nat]
       /\ \A v \in Users \ {u} : tracked[2][v] # 0 <=> ledger.index[v] # 0
  BY <1>10, Zenon
<1>23. n.oldMargin \in Nat /\ n.newMargin \in Nat /\ ledger.locked \in Nat
       /\ ledger.badDebt \in Nat /\ LegBadDebt(a, n) \in Nat
  BY <1>1, <1>8, <1>9, Zenon
<1>11. after = [acct |-> [accounts EXCEPT ![u] = AfterLeg(a, n)],
                list |-> tracked[1], index |-> tracked[2],
                locked |-> ledger.locked + (n.newMargin - n.oldMargin),
                badDebt |-> ledger.badDebt + LegBadDebt(a, n),
                ok |-> ledger.ok /\ PreTradeSolvent(pos.size, pos.entry, delta, price)]
  BY DEF Leg, accounts, a, pos, n, tracked
<1>. HIDE DEF after
<1>12. /\ after.acct = [accounts EXCEPT ![u] = AfterLeg(a, n)]
       /\ after.list = tracked[1] /\ after.index = tracked[2]
       /\ after.locked = ledger.locked + (n.newMargin - n.oldMargin)
       /\ after.badDebt = ledger.badDebt + LegBadDebt(a, n)
  BY <1>11
<1>24. after.ok \in BOOLEAN
  BY <1>11, Zenon
<1>13. /\ after.acct \in [Accounts -> AccountRecords]
       /\ after.acct[u] = AfterLeg(a, n)
       /\ \A v \in Accounts \ {u} : after.acct[v] = accounts[v]
  BY <1>2, <1>3, <1>9, <1>12
<1>14. AccountsExact(after.acct)
  BY <1>2, <1>3, <1>8, <1>9, <1>13 DEF AccountsExact
<1>15. \A k \in Markets \ {m}, v \in Users :
         after.acct[v].index[k] = 0 <=> ledger.acct[v].index[k] = 0
  BY <1>2, <1>3, <1>4, <1>8, <1>9, <1>13
<1>16. \A v \in Users \ {u} : after.acct[v].index = ledger.acct[v].index
  BY <1>2, <1>3, <1>13
<1>17. after.acct[u].index = n.index
  BY <1>9, <1>13
<1>18. HoldersListed(ledger.acct, ledger.index, m) => HoldersListed(after.acct, after.index, m)
  BY <1>4, <1>12, <1>16, <1>17, <1>21, <1>22 DEF HoldersListed
<1>19. ListedHold(ledger.acct, ledger.index, m) => ListedHold(after.acct, after.index, m)
  BY <1>4, <1>12, <1>16, <1>17, <1>21, <1>22 DEF ListedHold
<1>20. after.locked \in Int /\ after.badDebt \in Nat
  BY <1>12, <1>23
<1>. QED  BY <1>10, <1>12, <1>13, <1>14, <1>15, <1>18, <1>19, <1>20, <1>24 DEF after

\* The caches stay exact in a leg.
LEMMA LegKeepsCaches ==
  ASSUME NEW ledger, GoodLedger(ledger), NEW m \in Markets, NEW u \in Users,
         NEW delta \in Int \ {0}, NEW price \in Nat, NEW fee \in Nat
  PROVE  LET after == Leg(ledger, m, u, delta, price, fee)
         IN /\ CachesExact(ledger.acct, ledger.locked) => CachesExact(after.acct, after.locked)
            /\ ReservesExact(ledger.acct) => ReservesExact(after.acct)
<1>. DEFINE accounts == DeductFees(ledger.acct, u, fee)
            a == accounts[u]
            pos == PositionOf(a, m)
            n == NettingOf(a, pos, m, delta, price)
            after == Leg(ledger, m, u, delta, price, fee)
<1>1. /\ ledger.acct \in [Accounts -> AccountRecords] /\ ledger.locked \in Nat
      /\ AccountsExact(ledger.acct) /\ u \in Accounts /\ Users \subseteq Accounts
  BY DEF GoodLedger, LedgerRecords, Accounts
<1>2. /\ accounts \in [Accounts -> AccountRecords]
      /\ \A v \in Accounts : /\ accounts[v].positions = ledger.acct[v].positions
                             /\ accounts[v].index = ledger.acct[v].index
                             /\ accounts[v].locked = ledger.acct[v].locked
                             /\ accounts[v].orders = ledger.acct[v].orders
                             /\ accounts[v].reserved = ledger.acct[v].reserved
  BY <1>1, FeesKeepBooks DEF Books
<1>3. a \in AccountRecords /\ Exact(a.positions, a.index)
  BY <1>1, <1>2 DEF AccountsExact
<1>4. RequiredMargin(pos.size, pos.entry, delta, price) \in Nat
  BY <1>3, PositionOfIsTyped, RequiredMarginIsNat
<1>5. a.positions \in Seq(Held) /\ a.index \in [Markets -> Nat] /\ a.locked \in Nat
  BY <1>3 DEF AccountRecords
<1>6. LegGood(a, n)
  <2>. HIDE DEF a, pos
  <2>1. /\ n.positions \in Seq(Held) /\ n.index \in [Markets -> Nat]
        /\ n.realized \in Int /\ n.confiscated \in Nat
        /\ n.oldMargin \in Nat /\ n.newMargin \in Nat
    BY <1>3, <1>4, <1>5, NettingKeeps DEF NettingOf
  <2>. HIDE DEF n
  <2>. QED  BY <1>3, <2>1 DEF LegGood
<1>7. /\ n.oldMargin <= PositionMargins(a.positions)
      /\ PositionMargins(n.positions) =
           PositionMargins(a.positions) + (n.newMargin - n.oldMargin)
  <2>. HIDE DEF a, pos
  <2>1. MarginsMoved(a.positions, n)
    BY <1>3, <1>4, <1>5, NettingMovesMargin DEF NettingOf
  <2>. QED  BY <2>1 DEF MarginsMoved
<1>8. /\ after.acct = [accounts EXCEPT ![u] = AfterLeg(a, n)]
      /\ after.locked = ledger.locked + (n.newMargin - n.oldMargin)
  BY DEF Leg
<1>. HIDE DEF accounts, a, pos, n, after
<1>9. /\ AfterLeg(a, n) \in AccountRecords
      /\ AfterLeg(a, n).positions = n.positions
      /\ AfterLeg(a, n).locked = LockMargin(a.locked, n)
      /\ AfterLeg(a, n).orders = a.orders /\ AfterLeg(a, n).reserved = a.reserved
  BY <1>6, LegAccount
<1>10. /\ after.acct \in [Accounts -> AccountRecords]
       /\ after.acct[u] = AfterLeg(a, n)
       /\ \A v \in Accounts \ {u} : after.acct[v] = accounts[v]
  BY <1>1, <1>2, <1>8, <1>9
<1>11. ASSUME ReservesExact(ledger.acct) PROVE ReservesExact(after.acct)
  <2>1. \A v \in Users : /\ after.acct[v].orders = ledger.acct[v].orders
                         /\ after.acct[v].reserved = ledger.acct[v].reserved
    BY <1>1, <1>2, <1>9, <1>10 DEF a
  <2>. QED  BY <1>11, <2>1 DEF ReservesExact
<1>12. ASSUME CachesExact(ledger.acct, ledger.locked)
       PROVE  CachesExact(after.acct, after.locked)
  <2>1. a.locked = PositionMargins(a.positions) /\ a.locked = ledger.acct[u].locked
    BY <1>1, <1>2, <1>12 DEF CachesExact, a
  <2>2. n.oldMargin \in Nat /\ n.newMargin \in Nat
    BY <1>6 DEF LegGood
  <2>3. LockMargin(a.locked, n) = a.locked + (n.newMargin - n.oldMargin)
    BY <1>5, <1>7, <2>1, <2>2 DEF LockMargin, Less
  <2>4. after.acct[u].locked = PositionMargins(after.acct[u].positions)
    BY <1>7, <1>9, <1>10, <2>1, <2>3
  <2>5. \A v \in Users \ {u} : /\ after.acct[v].locked = ledger.acct[v].locked
                               /\ after.acct[v].positions = ledger.acct[v].positions
    BY <1>1, <1>2, <1>10
  <2>6. CachesExact(after.acct, ledger.locked - ledger.acct[u].locked + after.acct[u].locked)
    BY <1>1, <1>10, <1>12, <2>4, <2>5, CachesFollow
  <2>7. after.locked = ledger.locked - ledger.acct[u].locked + after.acct[u].locked
    <3>1. after.acct[u].locked = a.locked + (n.newMargin - n.oldMargin)
      BY <1>9, <1>10, <2>3
    <3>. QED  BY <1>1, <1>5, <1>8, <2>1, <2>2, <3>1
  <2>. QED  BY <2>6, <2>7
<1>. QED  BY <1>11, <1>12 DEF after

\* Positions in other markets stay, and who holds one is listed as before;
\* caches that were exact are.
Kept(m, before, after) ==
  /\ \A k \in Markets \ {m}, v \in Users :
       after.acct[v].index[k] = 0 <=> before.acct[v].index[k] = 0
  /\ HoldersListed(before.acct, before.index, m)
       => HoldersListed(after.acct, after.index, m)
  /\ ListedHold(before.acct, before.index, m)
       => ListedHold(after.acct, after.index, m)
  /\ CachesExact(before.acct, before.locked) => CachesExact(after.acct, after.locked)
  /\ ReservesExact(before.acct) => ReservesExact(after.acct)

\* A leg that fails its checks leaves the ledger as it is.
LEMMA TriedLegKeeps ==
  ASSUME NEW ledger, GoodLedger(ledger), NEW m \in Markets, NEW u \in Users,
         NEW delta \in Int \ {0}, NEW price \in Nat, NEW fee \in Nat
  PROVE  /\ GoodLedger(TriedLeg(ledger, m, u, delta, price, fee))
         /\ Kept(m, ledger, TriedLeg(ledger, m, u, delta, price, fee))
<1>. DEFINE leg == Leg(ledger, m, u, delta, price, fee)
            tried == TriedLeg(ledger, m, u, delta, price, fee)
            accounts == DeductFees(ledger.acct, u, fee)
<1>1. /\ leg.acct \in [Accounts -> AccountRecords] /\ AccountsExact(leg.acct)
      /\ leg.list \in Seq(Users) /\ leg.index \in [Users -> Nat]
      /\ TradersExact(leg.list, leg.index)
      /\ leg.locked \in Int /\ leg.badDebt \in Nat /\ leg.ok \in BOOLEAN
      /\ \A k \in Markets \ {m}, v \in Users :
           leg.acct[v].index[k] = 0 <=> ledger.acct[v].index[k] = 0
      /\ HoldersListed(ledger.acct, ledger.index, m)
           => HoldersListed(leg.acct, leg.index, m)
      /\ ListedHold(ledger.acct, ledger.index, m)
           => ListedHold(leg.acct, leg.index, m)
  BY LegKeeps
<1>4. /\ CachesExact(ledger.acct, ledger.locked) => CachesExact(leg.acct, leg.locked)
      /\ ReservesExact(ledger.acct) => ReservesExact(leg.acct)
  BY LegKeepsCaches
<1>2. CASE leg.locked >= 0
  <2>1. tried = leg
    BY <1>2 DEF TriedLeg, Tried
  <2>2. leg = [acct |-> leg.acct, list |-> leg.list, index |-> leg.index,
               locked |-> leg.locked, badDebt |-> leg.badDebt, ok |-> leg.ok]
    BY DEF Leg
  <2>. HIDE DEF leg
  <2>3. leg \in LedgerRecords
    BY <1>1, <1>2, <2>2 DEF LedgerRecords
  <2>. HIDE DEF tried
  <2>. QED  BY <1>1, <1>4, <2>1, <2>3 DEF GoodLedger, Kept, tried
<1>3. CASE ~(leg.locked >= 0)
  <2>1. tried = [ledger EXCEPT !.acct = accounts, !.ok = leg.ok]
    BY <1>3 DEF TriedLeg, Tried
  <2>2. ledger \in LedgerRecords /\ ledger.acct \in [Accounts -> AccountRecords]
    BY DEF GoodLedger, LedgerRecords
  <2>3. /\ accounts \in [Accounts -> AccountRecords]
        /\ \A v \in Accounts : /\ accounts[v].positions = ledger.acct[v].positions
                               /\ accounts[v].index = ledger.acct[v].index
                               /\ accounts[v].locked = ledger.acct[v].locked
                               /\ accounts[v].orders = ledger.acct[v].orders
                               /\ accounts[v].reserved = ledger.acct[v].reserved
    BY <2>2, FeesKeepBooks DEF Books
  <2>4. leg.ok \in BOOLEAN
    BY <1>1, Zenon
  <2>. HIDE DEF accounts, leg, tried
  <2>5. tried \in LedgerRecords
    BY <2>1, <2>2, <2>3, <2>4 DEF LedgerRecords
  <2>6. /\ tried.acct = accounts /\ tried.list = ledger.list /\ tried.index = ledger.index
        /\ tried.locked = ledger.locked
    BY <2>1, <2>2 DEF LedgerRecords
  <2>7. AccountsExact(accounts)
    BY <2>3 DEF GoodLedger, AccountsExact
  <2>8. \A v \in Users : accounts[v].index = ledger.acct[v].index
    BY <2>3 DEF Accounts
  <2>9. CachesExact(ledger.acct, ledger.locked) => CachesExact(accounts, ledger.locked)
    <3>1. \A v \in Users : /\ accounts[v].locked = ledger.acct[v].locked
                           /\ accounts[v].positions = ledger.acct[v].positions
      BY <2>3 DEF Accounts
    <3>2. ledger.locked \in Nat
      BY <2>2 DEF LedgerRecords
    <3>. QED  BY <2>2, <2>3, <3>1, <3>2, CachesStay
  <2>10. ReservesExact(ledger.acct) => ReservesExact(accounts)
    BY <2>3 DEF ReservesExact, Accounts
  <2>11. GoodLedger(tried)
    BY <2>5, <2>6, <2>7 DEF GoodLedger
  <2>12. Kept(m, ledger, tried)
    BY <2>6, <2>8, <2>9, <2>10 DEF Kept, HoldersListed, ListedHold
  <2>. QED  BY <2>11, <2>12 DEF tried
<1>. QED  BY <1>2, <1>3

\* The positions of u change, and of u only.
OnlyMoves(u, before, after) ==
  /\ \A v \in Users \ {u} : after[v].positions = before[v].positions
  /\ after[u].positions # before[u].positions

\* A leg leaves the positions of others alone.  With exact caches it goes
\* through, and then it changes the positions of its user.
LEMMA LegMoves ==
  ASSUME NEW ledger, GoodLedger(ledger), NEW m \in Markets, NEW u \in Users,
         NEW delta \in Int \ {0}, NEW price \in Nat, NEW fee \in Nat,
         CachesExact(ledger.acct, ledger.locked)
  PROVE  OnlyMoves(u, ledger.acct, TriedLeg(ledger, m, u, delta, price, fee).acct)
<1>. DEFINE accounts == DeductFees(ledger.acct, u, fee)
            a == accounts[u]
            pos == PositionOf(a, m)
            n == NettingOf(a, pos, m, delta, price)
            leg == Leg(ledger, m, u, delta, price, fee)
<1>1. /\ ledger.acct \in [Accounts -> AccountRecords]
      /\ AccountsExact(ledger.acct) /\ u \in Accounts /\ Users \subseteq Accounts
  BY DEF GoodLedger, LedgerRecords, Accounts
<1>2. /\ accounts \in [Accounts -> AccountRecords]
      /\ \A v \in Accounts : /\ accounts[v].positions = ledger.acct[v].positions
                             /\ accounts[v].index = ledger.acct[v].index
  BY <1>1, FeesKeepBooks DEF Books
<1>3. a \in AccountRecords /\ Exact(a.positions, a.index)
  BY <1>1, <1>2 DEF AccountsExact
<1>4. RequiredMargin(pos.size, pos.entry, delta, price) \in Nat
  BY <1>3, PositionOfIsTyped, RequiredMarginIsNat
<1>5. a.positions \in Seq(Held) /\ a.index \in [Markets -> Nat]
  BY <1>3 DEF AccountRecords
<1>6. n.positions # a.positions
  <2>. HIDE DEF a, pos
  <2>. QED  BY <1>3, <1>4, <1>5, NettingChanges DEF NettingOf
<1>7. leg.acct = [accounts EXCEPT ![u] = AfterLeg(a, n)]
  BY DEF Leg
<1>8. AfterLeg(a, n).positions = n.positions
  <2>. HIDE DEF a, pos
  <2>1. LegGood(a, n)
    <3>1. /\ n.positions \in Seq(Held) /\ n.index \in [Markets -> Nat]
          /\ n.realized \in Int /\ n.confiscated \in Nat
          /\ n.oldMargin \in Nat /\ n.newMargin \in Nat
      BY <1>3, <1>4, <1>5, NettingKeeps DEF NettingOf
    <3>. HIDE DEF n
    <3>. QED  BY <1>3, <3>1 DEF LegGood
  <2>. HIDE DEF n
  <2>. QED  BY <2>1, LegAccount
<1>9. leg.locked >= 0
  <2>1. CachesExact(leg.acct, leg.locked) /\ leg.acct \in [Accounts -> AccountRecords]
    BY LegKeeps, LegKeepsCaches
  <2>. HIDE DEF leg
  <2>2. \A v \in Users : LockedOf(leg.acct)[v] \in Nat
    BY <1>1, <2>1 DEF LockedOf, AccountRecords
  <2>3. SumFunctionOnSet(LockedOf(leg.acct), Users) \in Nat
    BY <2>2, VaultAssumption, SumIsNat
  <2>. QED  BY <2>1, <2>3 DEF CachesExact
<1>10. TriedLeg(ledger, m, u, delta, price, fee) = leg
  BY <1>9 DEF TriedLeg, Tried
<1>. HIDE DEF accounts, pos, n, leg
<1>11. leg.acct[u].positions # ledger.acct[u].positions
  BY <1>1, <1>2, <1>6, <1>7, <1>8
<1>12. \A v \in Users \ {u} : leg.acct[v].positions = ledger.acct[v].positions
  BY <1>1, <1>2, <1>7
<1>. QED  BY <1>10, <1>11, <1>12 DEF OnlyMoves

\* What each of two steps keeps, both keep.
LEMMA KeptIsTransitive ==
  ASSUME NEW m \in Markets, NEW x, NEW y, NEW z, Kept(m, x, y), Kept(m, y, z)
  PROVE  Kept(m, x, z)
BY DEF Kept

----------------------------------------------------------------------------
(* A trade: the legs of its makers, then the leg of the taker. *)

\* What a trade starts from.
StartOfTrade(m) == [ledger |-> LedgerOf(m), size |-> 0, notional |-> 0, fee |-> 0]

\* The turns of the loop stay in S.
FillsStay(S, m, side, fills, makers) ==
  \A trade \in S, i \in 1 .. Len(fills) :
    AfterFill(trade, m, side, fills[i], makers[i]) \in S

\* What comes after the loop comes after a turn of it, if it has one.
EndsWithFill(S, m, side, fills, makers) ==
  Len(fills) # 0 =>
    \E trade \in S : AfterFills(m, side, fills, makers) =
      AfterFill(trade, m, side, fills[Len(fills)], makers[Len(fills)])

\* What holds before the loop, and is kept by each turn of it, holds after it.
LEMMA LoopInduction ==
  ASSUME NEW S, NEW m, NEW side, NEW makers, NEW fills, Len(fills) \in Nat,
         StartOfTrade(m) \in S, FillsStay(S, m, side, fills, makers)
  PROVE  /\ AfterFills(m, side, fills, makers) \in S
         /\ EndsWithFill(S, m, side, fills, makers)
<1>. DEFINE Loop(f) ==
              f = [i \in 0 .. Len(fills) |->
                     IF i = 0 THEN [ledger |-> LedgerOf(m), size |-> 0, notional |-> 0, fee |-> 0]
                     ELSE AfterFill(f[i - 1], m, side, fills[i], makers[i])]
            turns == [i \in 1 .. Len(fills) |->
                        [trade \in S |-> AfterFill(trade, m, side, fills[i], makers[i])]]
            loop == CHOOSE f : Loop(f)
            T == {i \in Nat : i <= Len(fills) => loop[i] \in S}
<1>1. PICK f : Iterates(f, S, StartOfTrade(m), Len(fills), turns)
  <2>1. Turns(S, Len(fills), turns)
    BY DEF Turns, FillsStay
  <2>. HIDE DEF turns
  <2>. QED  BY <2>1, IterationExists
<1>2. Loop(f)
  <2>1. \A i \in 1 .. Len(fills) : f[i] = AfterFill(f[i - 1], m, side, fills[i], makers[i])
    <3>1. \A i \in 1 .. Len(fills) : i - 1 \in 0 .. Len(fills)
      OBVIOUS
    <3>2. \A i \in 1 .. Len(fills) : f[i - 1] \in S
      BY <1>1, <3>1 DEF Iterates
    <3>. QED  BY <1>1, <3>2 DEF Iterates
  <2>2. \A i \in 0 .. Len(fills) :
          f[i] = IF i = 0 THEN StartOfTrade(m)
                 ELSE AfterFill(f[i - 1], m, side, fills[i], makers[i])
    BY <1>1, <2>1 DEF Iterates
  <2>. QED  BY <1>1, <2>2 DEF StartOfTrade, Iterates
<1>3. Loop(loop)
  <2>. HIDE DEF Loop
  <2>. QED  BY <1>2, Zenon
<1>4. AfterFills(m, side, fills, makers) = loop[Len(fills)]
  BY Zenon DEF AfterFills
<1>. HIDE DEF loop
<1>5. /\ loop[0] = StartOfTrade(m)
      /\ \A i \in 1 .. Len(fills) :
           loop[i] = AfterFill(loop[i - 1], m, side, fills[i], makers[i])
  BY <1>3 DEF StartOfTrade
<1>6. 0 \in T
  BY <1>5
<1>7. \A i \in Nat : i \in T => i + 1 \in T
  <2>1. ASSUME NEW i \in Nat, i \in T, i + 1 <= Len(fills) PROVE loop[i + 1] \in S
    <3>1. loop[i] \in S /\ i + 1 \in 1 .. Len(fills) /\ (i + 1) - 1 = i
      BY <2>1
    <3>. QED  BY <1>5, <3>1 DEF FillsStay
  <2>. QED  BY <2>1
<1>8. \A i \in Nat : i \in T
  <2>. HIDE DEF T
  <2>. QED  BY <1>6, <1>7, SetInduction
<1>9. ASSUME Len(fills) # 0
      PROVE  /\ loop[Len(fills) - 1] \in S
             /\ loop[Len(fills)] = AfterFill(loop[Len(fills) - 1], m, side,
                                            fills[Len(fills)], makers[Len(fills)])
  <2>1. Len(fills) \in 1 .. Len(fills) /\ Len(fills) - 1 \in Nat
    BY <1>9
  <2>. QED  BY <1>5, <1>8, <2>1
<1>. QED  BY <1>4, <1>8, <1>9 DEF EndsWithFill

\* Fees and notional values of fills are natural numbers.
LEMMA FeeIsNat ==
  ASSUME NEW fill \in FillRecords
  PROVE  FeeOf(fill) \in Nat /\ Notional(fill.size, fill.price) \in Nat
<1>1. Notional(fill.size, fill.price) \in Nat
  BY NotionalIsNat DEF FillRecords
<1>2. Notional(fill.size, fill.price) * FeeBps \in Nat
  BY <1>1, VaultAssumption
<1>. QED  BY <1>1, <1>2, DivIsNat DEF FeeOf, Bps

\* The trade in the loop, with the type of each field.
TradeRecords ==
  [ledger : LedgerRecords, size : Nat, notional : Nat, fee : Nat]

\* The leg of a maker keeps the ledger good, and adds to the size.
LEMMA FillKeeps ==
  ASSUME NEW trade \in TradeRecords, GoodLedger(trade.ledger), NEW m \in Markets,
         NEW side \in {1, -1}, NEW fill \in FillRecords, NEW maker \in Users
  PROVE  LET after == AfterFill(trade, m, side, fill, maker)
         IN /\ after \in TradeRecords
            /\ GoodLedger(after.ledger)
            /\ Kept(m, trade.ledger, after.ledger)
            /\ after.size > 0
<1>. DEFINE leg == TriedLeg(trade.ledger, m, maker, -side * fill.size, fill.price, FeeOf(fill))
            after == AfterFill(trade, m, side, fill, maker)
<1>1. /\ fill.size \in Nat \ {0} /\ fill.price \in Nat /\ FeeOf(fill) \in Nat
      /\ Notional(fill.size, fill.price) \in Nat
  BY FeeIsNat DEF FillRecords
<1>2. -side * fill.size \in Int \ {0}
  BY <1>1
<1>3. GoodLedger(leg) /\ Kept(m, trade.ledger, leg)
  BY <1>1, <1>2, TriedLegKeeps
<1>4. trade.size \in Nat /\ trade.notional \in Nat /\ trade.fee \in Nat
  BY DEF TradeRecords
<1>5. after = [ledger |-> leg, size |-> trade.size + fill.size,
               notional |-> trade.notional + Notional(fill.size, fill.price),
               fee |-> trade.fee + FeeOf(fill)]
  BY DEF AfterFill
<1>6. /\ trade.size + fill.size \in Nat \ {0}
      /\ trade.notional + Notional(fill.size, fill.price) \in Nat
      /\ trade.fee + FeeOf(fill) \in Nat
  BY <1>1, <1>4
<1>. HIDE DEF leg, after
<1>7. after \in TradeRecords /\ after.ledger = leg /\ after.size > 0
  BY <1>3, <1>5, <1>6 DEF GoodLedger, TradeRecords
<1>. QED  BY <1>3, <1>7 DEF after

\* The state of the vault that trades build on.
GoodVault ==
  /\ acct \in [Accounts -> AccountRecords]
  /\ AccountsExact(acct)
  /\ totalLocked \in Nat
  /\ traders \in [Markets -> Seq(Users)]
  /\ traderIndex \in [Markets -> [Users -> Nat]]
  /\ badDebt \in [Markets -> Nat]
  /\ settled \subseteq Markets
  /\ net \in Int
  /\ \A m \in Markets \ settled : TradersExact(traders[m], traderIndex[m])

\* The ledger of a market that is not settled is good.
LEMMA LedgerIsGood ==
  ASSUME GoodVault, NEW m \in Markets \ settled
  PROVE  GoodLedger(LedgerOf(m))
BY DEF GoodVault, GoodLedger, LedgerRecords, LedgerOf

\* So is what a trade makes of it: the makers one by one, then the taker.
LEMMA TradeKeepsLedger ==
  ASSUME GoodVault, NEW m \in Markets \ settled, NEW taker \in Users, NEW side \in {1, -1},
         NEW fills \in Fills[m], NEW makers \in [DOMAIN fills -> Users \ {taker}]
  PROVE  LET after == AfterTaker(AfterFills(m, side, fills, makers), m, side, taker)
         IN GoodLedger(after) /\ Kept(m, LedgerOf(m), after)
<1>. DEFINE S == {trade \in TradeRecords : /\ GoodLedger(trade.ledger)
                                          /\ Kept(m, LedgerOf(m), trade.ledger)}
            trade == AfterFills(m, side, fills, makers)
<1>1. fills \in Seq(FillRecords) /\ Len(fills) \in Nat \ {0} /\ m \in Markets
  BY VaultAssumption
<1>2. StartOfTrade(m) \in S
  <2>1. GoodLedger(LedgerOf(m))
    BY LedgerIsGood
  <2>. QED  BY <2>1 DEF StartOfTrade, TradeRecords, GoodLedger, Kept
<1>3. ASSUME NEW t \in S, NEW i \in 1 .. Len(fills)
      PROVE  /\ AfterFill(t, m, side, fills[i], makers[i]) \in S
             /\ AfterFill(t, m, side, fills[i], makers[i]).size > 0
  <2>1. fills[i] \in FillRecords /\ makers[i] \in Users
    BY <1>1
  <2>2. t \in TradeRecords /\ GoodLedger(t.ledger) /\ Kept(m, LedgerOf(m), t.ledger)
    OBVIOUS
  <2>. DEFINE next == AfterFill(t, m, side, fills[i], makers[i])
  <2>3. /\ next \in TradeRecords /\ GoodLedger(next.ledger) /\ next.size > 0
        /\ Kept(m, t.ledger, next.ledger)
    BY <1>1, <2>1, <2>2, FillKeeps
  <2>4. Kept(m, LedgerOf(m), next.ledger)
    BY <1>1, <2>2, <2>3, KeptIsTransitive
  <2>. QED  BY <2>3, <2>4
<1>4. trade \in S /\ trade.size > 0
  <2>. HIDE DEF S
  <2>1. \A t \in S, i \in 1 .. Len(fills) : AfterFill(t, m, side, fills[i], makers[i]) \in S
    BY <1>3
  <2>2. Len(fills) \in Nat /\ Len(fills) # 0 /\ Len(fills) \in 1 .. Len(fills)
    BY <1>1
  <2>3. /\ trade \in S
        /\ \E t \in S : trade = AfterFill(t, m, side, fills[Len(fills)], makers[Len(fills)])
    <3>1. FillsStay(S, m, side, fills, makers)
      BY <2>1 DEF FillsStay
    <3>2. trade \in S /\ EndsWithFill(S, m, side, fills, makers)
      BY <1>2, <2>2, <3>1, LoopInduction
    <3>. QED  BY <2>2, <3>2 DEF EndsWithFill
  <2>. QED  BY <1>3, <2>2, <2>3
<1>. DEFINE price == (trade.notional * Unit) \div trade.size
            after == AfterTaker(trade, m, side, taker)
<1>5. trade.size \in Nat \ {0} /\ trade.notional \in Nat /\ trade.fee \in Nat
  BY <1>4 DEF TradeRecords
<1>6. price \in Nat /\ side * trade.size \in Int \ {0}
  <2>. HIDE DEF trade
  <2>1. trade.notional * Unit \in Nat
    BY <1>5, UnitAssumption
  <2>. QED  BY <1>5, <2>1, DivIsNat
<1>7. GoodLedger(trade.ledger) /\ Kept(m, LedgerOf(m), trade.ledger)
  BY <1>4
<1>. HIDE DEF trade
<1>8. after = TriedLeg(trade.ledger, m, taker, side * trade.size, price, trade.fee)
  BY DEF AfterTaker
<1>. HIDE DEF price
<1>9. GoodLedger(after) /\ Kept(m, trade.ledger, after)
  BY <1>1, <1>5, <1>6, <1>7, <1>8, TriedLegKeeps
<1>10. Kept(m, LedgerOf(m), after)
  <2>. HIDE DEF after
  <2>. QED  BY <1>1, <1>7, <1>9, KeptIsTransitive
<1>. QED  BY <1>9, <1>10 DEF trade

\* A trade changes the positions of its taker.
LEMMA TradeMovesTaker ==
  ASSUME GoodVault, CachesExact(acct, totalLocked), NEW m \in Markets \ settled,
         NEW taker \in Users, NEW side \in {1, -1},
         NEW fills \in Fills[m], NEW makers \in [DOMAIN fills -> Users \ {taker}]
  PROVE  AfterTaker(AfterFills(m, side, fills, makers), m, side, taker).acct[taker].positions
           # acct[taker].positions
<1>. DEFINE S == {trade \in TradeRecords :
                    /\ GoodLedger(trade.ledger)
                    /\ CachesExact(trade.ledger.acct, trade.ledger.locked)
                    /\ trade.ledger.acct[taker].positions = acct[taker].positions}
            trade == AfterFills(m, side, fills, makers)
<1>1. fills \in Seq(FillRecords) /\ Len(fills) \in Nat \ {0} /\ m \in Markets
  BY VaultAssumption
<1>2. StartOfTrade(m) \in S
  <2>1. GoodLedger(LedgerOf(m))
    BY LedgerIsGood
  <2>2. /\ StartOfTrade(m) \in TradeRecords /\ StartOfTrade(m).ledger = LedgerOf(m)
        /\ LedgerOf(m).acct = acct /\ LedgerOf(m).locked = totalLocked
    BY <2>1 DEF StartOfTrade, TradeRecords, GoodLedger, LedgerOf
  <2>. QED  BY <2>1, <2>2
<1>3. ASSUME NEW t \in S, NEW i \in 1 .. Len(fills)
      PROVE  /\ AfterFill(t, m, side, fills[i], makers[i]) \in S
             /\ AfterFill(t, m, side, fills[i], makers[i]).size > 0
  <2>1. fills[i] \in FillRecords /\ makers[i] \in Users \ {taker}
    BY <1>1
  <2>2. /\ t \in TradeRecords /\ GoodLedger(t.ledger)
        /\ CachesExact(t.ledger.acct, t.ledger.locked)
        /\ t.ledger.acct[taker].positions = acct[taker].positions
    OBVIOUS
  <2>. DEFINE next == AfterFill(t, m, side, fills[i], makers[i])
  <2>3. /\ next \in TradeRecords /\ GoodLedger(next.ledger) /\ next.size > 0
        /\ Kept(m, t.ledger, next.ledger)
    BY <1>1, <2>1, <2>2, FillKeeps
  <2>4. CachesExact(next.ledger.acct, next.ledger.locked)
    <3>. HIDE DEF next
    <3>. QED  BY <2>2, <2>3 DEF Kept
  <2>5. next.ledger.acct[taker].positions = t.ledger.acct[taker].positions
    <3>1. /\ fills[i].size \in Nat \ {0} /\ fills[i].price \in Nat
          /\ FeeOf(fills[i]) \in Nat /\ -side * fills[i].size \in Int \ {0}
      BY <2>1, FeeIsNat DEF FillRecords
    <3>2. next.ledger = TriedLeg(t.ledger, m, makers[i], -side * fills[i].size,
                                 fills[i].price, FeeOf(fills[i]))
      BY DEF AfterFill
    <3>. HIDE DEF next
    <3>3. OnlyMoves(makers[i], t.ledger.acct, next.ledger.acct)
      BY <1>1, <2>1, <2>2, <3>1, <3>2, LegMoves
    <3>. QED  BY <2>1, <3>3 DEF OnlyMoves
  <2>. QED  BY <2>2, <2>3, <2>4, <2>5
<1>4. trade \in S /\ trade.size > 0
  <2>. HIDE DEF S
  <2>1. FillsStay(S, m, side, fills, makers)
    BY <1>3 DEF FillsStay
  <2>2. Len(fills) \in Nat /\ Len(fills) # 0 /\ Len(fills) \in 1 .. Len(fills)
    BY <1>1
  <2>3. trade \in S /\ EndsWithFill(S, m, side, fills, makers)
    BY <1>2, <2>1, <2>2, LoopInduction
  <2>4. \E t \in S : trade = AfterFill(t, m, side, fills[Len(fills)], makers[Len(fills)])
    BY <2>2, <2>3 DEF EndsWithFill
  <2>. QED  BY <1>3, <2>2, <2>3, <2>4
<1>. DEFINE price == (trade.notional * Unit) \div trade.size
<1>5. trade.size \in Nat \ {0} /\ trade.notional \in Nat /\ trade.fee \in Nat
  BY <1>4 DEF TradeRecords
<1>6. price \in Nat /\ side * trade.size \in Int \ {0}
  <2>. HIDE DEF trade
  <2>1. trade.notional * Unit \in Nat
    BY <1>5, UnitAssumption
  <2>. QED  BY <1>5, <2>1, DivIsNat
<1>7. /\ GoodLedger(trade.ledger) /\ CachesExact(trade.ledger.acct, trade.ledger.locked)
      /\ trade.ledger.acct[taker].positions = acct[taker].positions
  BY <1>4
<1>. HIDE DEF trade
<1>8. AfterTaker(trade, m, side, taker) =
        TriedLeg(trade.ledger, m, taker, side * trade.size, price, trade.fee)
  BY DEF AfterTaker
<1>. HIDE DEF price
<1>9. OnlyMoves(taker, trade.ledger.acct, AfterTaker(trade, m, side, taker).acct)
  BY <1>1, <1>5, <1>6, <1>7, <1>8, LegMoves
<1>. QED  BY <1>7, <1>9 DEF trade, OnlyMoves

----------------------------------------------------------------------------
(* The operations of users. *)

\* Everybody with a position in m is on its list, and nobody else.
Listed(m) ==
  HoldersListed(acct, traderIndex[m], m) /\ ListedHold(acct, traderIndex[m], m)

\* Everybody with a position in m is on its list.
AllListed(m) == HoldersListed(acct, traderIndex[m], m)

\* All the cached totals are exact.
Caches == CachesExact(acct, totalLocked) /\ ReservesExact(acct)

\* What an operation of a user keeps.
VaultKept ==
  /\ GoodVault'
  /\ settled' = settled
  /\ \A m \in Markets \ settled : Listed(m) => Listed(m)'
  /\ \A m \in Markets \ settled : AllListed(m) => AllListed(m)'
  /\ \A m \in settled, v \in Users : acct'[v].index[m] = 0 <=> acct[v].index[m] = 0
  /\ Caches => Caches'

\* The reserved total of an account is the sum over its orders.
Reserves(a) == a.reserved = SumFunctionOnSet(a.orders, Orders)

\* A step that makes b of the account of u, keeping the slots of its positions.
OnlyAccount(u, b) ==
  /\ b \in AccountRecords
  /\ Exact(b.positions, b.index)
  /\ b.index = acct[u].index
  /\ acct' = [acct EXCEPT ![u] = b]
  /\ totalLocked' = totalLocked - acct[u].locked + b.locked
  /\ totalLocked' \in Nat
  /\ net' \in Int
  /\ UNCHANGED <<traders, traderIndex, badDebt, settled>>

\* Such a step keeps the vault, if the caches of b are exact.
LEMMA AccountKeeps ==
  ASSUME GoodVault, NEW u \in Users, NEW b, OnlyAccount(u, b),
         acct[u].locked = PositionMargins(acct[u].positions)
           => b.locked = PositionMargins(b.positions),
         Reserves(acct[u]) => Reserves(b)
  PROVE  VaultKept
<1>1. /\ acct \in [Accounts -> AccountRecords] /\ AccountsExact(acct) /\ totalLocked \in Nat
      /\ Users \subseteq Accounts
  BY DEF GoodVault, Accounts
<1>2. /\ acct' \in [Accounts -> AccountRecords] /\ acct'[u] = b
      /\ \A v \in Accounts \ {u} : acct'[v] = acct[v]
  BY <1>1 DEF OnlyAccount
<1>3. AccountsExact(acct')
  BY <1>1, <1>2 DEF AccountsExact, OnlyAccount
<1>4. GoodVault'
  BY <1>2, <1>3 DEF GoodVault, OnlyAccount, AccountsExact
<1>5. \A v \in Users : acct'[v].index = acct[v].index
  BY <1>1, <1>2 DEF OnlyAccount
<1>6. ASSUME NEW m \in Markets, Listed(m) PROVE Listed(m)'
  BY <1>5, <1>6 DEF Listed, HoldersListed, ListedHold, OnlyAccount
<1>7. ASSUME CachesExact(acct, totalLocked) PROVE CachesExact(acct', totalLocked')
  <2>1. acct'[u].locked = PositionMargins(acct'[u].positions)
    BY <1>2, <1>7 DEF CachesExact
  <2>2. \A v \in Users \ {u} : /\ acct'[v].locked = acct[v].locked
                               /\ acct'[v].positions = acct[v].positions
    BY <1>1, <1>2
  <2>3. CachesExact(acct', totalLocked - acct[u].locked + acct'[u].locked)
    BY <1>1, <1>2, <1>7, <2>1, <2>2, CachesFollow
  <2>. QED  BY <1>2, <2>3 DEF OnlyAccount
<1>8. ASSUME ReservesExact(acct) PROVE ReservesExact(acct')
  <2>1. Reserves(b)
    BY <1>8 DEF ReservesExact, Reserves
  <2>. QED  BY <1>1, <1>2, <1>8, <2>1 DEF ReservesExact, Reserves
<1>9. ASSUME NEW m \in Markets, AllListed(m) PROVE AllListed(m)'
  BY <1>5, <1>9 DEF AllListed, HoldersListed, OnlyAccount
<1>. QED  BY <1>4, <1>5, <1>6, <1>7, <1>8, <1>9
             DEF VaultKept, Caches, OnlyAccount, CachesExact, ReservesExact, LockedOf

\* The account of a user is an account with an exact index.
LEMMA AccountIsTyped ==
  ASSUME GoodVault, NEW u \in Users
  PROVE  /\ acct[u] \in AccountRecords /\ Exact(acct[u].positions, acct[u].index)
         /\ u \in Accounts /\ acct \in [Accounts -> AccountRecords]
         /\ totalLocked \in Nat /\ net \in Int
BY DEF GoodVault, Accounts, AccountsExact

\* A step that changes the account of u and no position or margin.
LEMMA SameMarginKeeps ==
  ASSUME GoodVault, NEW u \in Users, NEW b \in AccountRecords,
         b.positions = acct[u].positions, b.index = acct[u].index, b.locked = acct[u].locked,
         Reserves(acct[u]) => Reserves(b),
         acct' = [acct EXCEPT ![u] = b], net' \in Int,
         UNCHANGED <<totalLocked, traders, traderIndex, badDebt, settled>>
  PROVE  VaultKept
<1>1. acct[u] \in AccountRecords /\ Exact(acct[u].positions, acct[u].index) /\ totalLocked \in Nat
  BY AccountIsTyped
<1>2. acct[u].locked \in Nat
  BY <1>1 DEF AccountRecords
<1>3. totalLocked' = totalLocked - acct[u].locked + b.locked
  BY <1>1, <1>2
<1>4. OnlyAccount(u, b)
  BY <1>1, <1>3 DEF OnlyAccount
<1>. QED  BY <1>4, AccountKeeps

\* A credit keeps the vault good,
LEMMA CreditKeeps ==
  ASSUME GoodVault, NEW u \in Users, NEW amount \in Nat, CreditExternal(u, amount)
  PROVE  VaultKept
<1>. DEFINE a == acct[u]
            b == [a EXCEPT !.credit = @ + amount]
<1>1. a \in AccountRecords /\ net \in Int
  BY AccountIsTyped
<1>2. a.credit + amount \in Nat
  BY <1>1 DEF AccountRecords
<1>3. acct' = [acct EXCEPT ![u] = b]
  BY DEF CreditExternal
<1>4. /\ b \in AccountRecords /\ b.positions = a.positions /\ b.index = a.index
      /\ b.locked = a.locked /\ b.reserved = a.reserved /\ b.orders = a.orders
  <2>. HIDE DEF a
  <2>. QED  BY <1>1, <1>2 DEF AccountRecords
<1>5. net' \in Int /\ UNCHANGED <<totalLocked, traders, traderIndex, badDebt, settled>>
  BY <1>1 DEF CreditExternal
<1>6. Reserves(a) => Reserves(b)
  BY <1>4 DEF Reserves
<1>. HIDE DEF b
<1>. QED  BY <1>3, <1>4, <1>5, <1>6, SameMarginKeeps

\* and a debit,
LEMMA DebitKeeps ==
  ASSUME GoodVault, NEW u \in Users, NEW amount \in Nat, DebitExternal(u, amount)
  PROVE  VaultKept
<1>. DEFINE a == acct[u]
            fromPnL == Lesser(amount, ProfitOf(a))
            b == [a EXCEPT !.pnl = @ - fromPnL * Unit, !.credit = @ - (amount - fromPnL)]
<1>1. a \in AccountRecords /\ net \in Int /\ acct \in [Accounts -> AccountRecords] /\ u \in Accounts
  BY AccountIsTyped
<1>2. a.credit \in Nat /\ a.pnl \in Int /\ fromPnL \in Nat
  BY <1>1, ProfitIsNat DEF AccountRecords, Lesser
<1>3. amount - fromPnL \in Nat
  BY <1>1, ProfitIsNat DEF Lesser
<1>4. a.credit - (amount - fromPnL) \in Nat
  <2>1. a.credit >= amount - fromPnL
    BY DEF DebitExternal
  <2>. HIDE DEF a, fromPnL
  <2>. QED  BY <1>2, <1>3, <2>1
<1>5. a.pnl - fromPnL * Unit \in Int
  <2>. HIDE DEF a, fromPnL
  <2>. QED  BY <1>2, UnitAssumption
<1>6. acct' = [acct EXCEPT ![u] = b]
  <2>1. acct' = [acct EXCEPT ![u].pnl = @ - fromPnL * Unit,
                             ![u].credit = @ - (amount - fromPnL)]
    BY DEF DebitExternal
  <2>. HIDE DEF fromPnL
  <2>. QED  BY <1>1, <2>1
<1>7. /\ b \in AccountRecords /\ b.positions = a.positions /\ b.index = a.index
      /\ b.locked = a.locked /\ b.reserved = a.reserved /\ b.orders = a.orders
  <2>. HIDE DEF a, fromPnL
  <2>. QED  BY <1>1, <1>4, <1>5 DEF AccountRecords
<1>8. net' \in Int /\ UNCHANGED <<totalLocked, traders, traderIndex, badDebt, settled>>
  BY <1>1 DEF DebitExternal
<1>9. Reserves(a) => Reserves(b)
  <2>. HIDE DEF b
  <2>. QED  BY <1>7 DEF Reserves
<1>. HIDE DEF b
<1>. QED  BY <1>6, <1>7, <1>8, <1>9, SameMarginKeeps

\* and a top-up, which adds to the position, to its account and to the total.
LEMMA TopUpKeeps ==
  ASSUME GoodVault, NEW u \in Users, NEW m \in Markets, NEW amount \in Nat,
         TopUpPositionMargin(u, m, amount)
  PROVE  VaultKept
<1>. DEFINE a == acct[u]
            i == a.index[m]
            pos == a.positions[i]
            more == [pos EXCEPT !.margin = @ + amount]
            b == [a EXCEPT !.positions = [@ EXCEPT ![i] = more], !.locked = @ + amount]
<1>1. /\ a \in AccountRecords /\ Exact(a.positions, a.index) /\ totalLocked \in Nat
      /\ net \in Int /\ acct \in [Accounts -> AccountRecords] /\ u \in Accounts
  BY AccountIsTyped
<1>2. a.positions \in Seq(Held) /\ a.index \in [Markets -> Nat] /\ a.locked \in Nat
  BY <1>1 DEF AccountRecords
<1>3. i \in 1 .. Len(a.positions) /\ pos \in Held
  <2>1. i # 0
    BY DEF TopUpPositionMargin
  <2>2. i \in 1 .. Len(a.positions)
    BY <1>1, <1>2, <2>1, SlotIsIndexed
  <2>. QED  BY <1>2, <2>2
<1>4. more \in Held /\ more.market = pos.market /\ more.margin = pos.margin + amount
  <2>. HIDE DEF pos
  <2>1. pos.margin + amount \in Nat
    <3>1. pos.margin \in Nat
      BY <1>3 DEF Held, PositionRecords
    <3>. QED  BY <3>1
  <2>. QED  BY <1>3, <2>1 DEF Held, PositionRecords
<1>5. acct' = [acct EXCEPT ![u] = b]
  <2>1. acct' = [acct EXCEPT ![u].positions[i].margin = @ + amount, ![u].locked = @ + amount]
    BY DEF TopUpPositionMargin
  <2>. QED  BY <1>1, <2>1
<1>6. b.positions = [a.positions EXCEPT ![i] = more] /\ b.index = a.index
      /\ b.locked = a.locked + amount /\ b.reserved = a.reserved /\ b.orders = a.orders
  <2>. HIDE DEF more, a
  <2>. QED  BY <1>1 DEF AccountRecords
<1>7. /\ b.positions \in Seq(Held) /\ Len(b.positions) = Len(a.positions)
      /\ \A j \in 1 .. Len(a.positions) : b.positions[j] = IF j = i THEN more ELSE a.positions[j]
  <2>. HIDE DEF b, more, i, pos
  <2>. QED  BY <1>2, <1>3, <1>4, <1>6
<1>8. b \in AccountRecords
  <2>1. b = [a EXCEPT !.positions = b.positions, !.locked = b.locked]
    <3>. HIDE DEF a, more
    <3>. QED  BY <1>1 DEF AccountRecords
  <2>2. b.locked \in Nat
    BY <1>2, <1>6
  <2>. HIDE DEF b, a
  <2>. QED  BY <1>1, <1>7, <2>1, <2>2 DEF AccountRecords
<1>. HIDE DEF b, more, i, pos
<1>9. Exact(b.positions, b.index)
  <2>1. \A k \in Markets : Slots(b.positions, k) = Slots(a.positions, k)
    <3>1. \A j \in 1 .. Len(a.positions) : b.positions[j].market = a.positions[j].market
      BY <1>4, <1>7 DEF pos
    <3>2. DOMAIN b.positions = 1 .. Len(a.positions) /\ DOMAIN a.positions = 1 .. Len(a.positions)
      BY <1>2, <1>7
    <3>. HIDE DEF a
    <3>. QED  BY <3>1, <3>2 DEF Slots
  <2>. QED  BY <1>1, <1>6, <2>1 DEF Exact
<1>10. PositionMargins(b.positions) = PositionMargins(a.positions) + amount
  <2>1. SameBut(i, a.positions, b.positions)
    BY <1>7 DEF SameBut
  <2>2. PositionMargins(b.positions) = PositionMargins(a.positions) - pos.margin + more.margin
    BY <1>2, <1>3, <1>7, <2>1, MarginChanged DEF pos
  <2>3. PositionMargins(a.positions) \in Nat /\ pos.margin \in Nat
    BY <1>2, <1>3, MarginsAreSummed DEF pos
  <2>. QED  BY <1>4, <2>2, <2>3
<1>11. /\ totalLocked' = totalLocked + amount /\ net' = net
       /\ UNCHANGED <<traders, traderIndex, badDebt, settled>>
  BY DEF TopUpPositionMargin
<1>12. OnlyAccount(u, b)
  <2>1. totalLocked' = totalLocked - a.locked + b.locked /\ totalLocked' \in Nat
    BY <1>1, <1>2, <1>6, <1>11
  <2>. QED  BY <1>1, <1>5, <1>6, <1>8, <1>9, <1>11, <2>1 DEF OnlyAccount
<1>13. Reserves(a) => Reserves(b)
  BY <1>6 DEF Reserves
<1>14. a.locked = PositionMargins(a.positions) => b.locked = PositionMargins(b.positions)
  BY <1>6, <1>10
<1>. QED  BY <1>12, <1>13, <1>14, AccountKeeps

\* a with an order that reserves n, and r as the cached total.
WithOrder(a, o, n, r) == [a EXCEPT !.orders = [@ EXCEPT ![o] = n], !.reserved = r]

\* Changing the margin of an order changes the sum by as much.
LEMMA OrderIsSummed ==
  ASSUME NEW a \in AccountRecords, NEW o \in Orders, NEW n \in Nat
  PROVE  /\ a.orders[o] \in Nat /\ a.orders[o] <= SumFunctionOnSet(a.orders, Orders)
         /\ SumFunctionOnSet([a.orders EXCEPT ![o] = n], Orders) =
              SumFunctionOnSet(a.orders, Orders) - a.orders[o] + n
<1>. DEFINE g == [a.orders EXCEPT ![o] = n]
<1>1. a.orders \in [Orders -> Nat] /\ IsFiniteSet(Orders)
  BY VaultAssumption DEF AccountRecords
<1>2. Ints(a.orders, Orders) /\ AgreeBut(a.orders, g, Orders, o) /\ g[o] = n /\ n \in Int
  BY <1>1 DEF Ints, AgreeBut
<1>. HIDE DEF g
<1>3. SumFunctionOnSet(g, Orders) = SumFunctionOnSet(a.orders, Orders) - a.orders[o] + g[o]
  BY <1>1, <1>2, SumAfterChange
<1>4. a.orders[o] <= SumFunctionOnSet(a.orders, Orders)
  <2>. DEFINE f == a.orders
  <2>1. \A x \in Orders : f[x] \in Nat
    BY <1>1
  <2>. HIDE DEF f
  <2>2. f[o] <= SumFunctionOnSet(f, Orders)
    BY <1>1, <2>1, SumCoversElement
  <2>. QED  BY <2>2 DEF f
<1>. QED  BY <1>1, <1>2, <1>3, <1>4 DEF g

\* A step that changes one order and the cached total accordingly.
LEMMA OrderKeeps ==
  ASSUME GoodVault, NEW u \in Users, NEW o \in Orders, NEW n \in Nat, NEW r \in Nat,
         Reserves(acct[u]) => r = acct[u].reserved - acct[u].orders[o] + n,
         acct' = [acct EXCEPT ![u] = WithOrder(acct[u], o, n, r)],
         UNCHANGED <<totalLocked, traders, traderIndex, badDebt, settled, net>>
  PROVE  VaultKept
<1>. DEFINE a == acct[u]
            b == WithOrder(a, o, n, r)
<1>1. a \in AccountRecords /\ net \in Int
  BY AccountIsTyped
<1>2. /\ b \in AccountRecords /\ b.positions = a.positions /\ b.index = a.index
      /\ b.locked = a.locked /\ b.reserved = r /\ b.orders = [a.orders EXCEPT ![o] = n]
  <2>. HIDE DEF a
  <2>. QED  BY <1>1 DEF AccountRecords, WithOrder
<1>. HIDE DEF b
<1>3. Reserves(a) => Reserves(b)
  BY <1>1, <1>2, OrderIsSummed DEF Reserves
<1>4. acct' = [acct EXCEPT ![u] = b] /\ net' \in Int
  BY <1>1 DEF b
<1>. QED  BY <1>2, <1>3, <1>4, SameMarginKeeps

\* Reserving margin for an order keeps the vault good,
LEMMA ReserveKeeps ==
  ASSUME GoodVault, NEW u \in Users, NEW o \in Orders, NEW amount \in Nat,
         ReserveMargin(u, o, amount)
  PROVE  VaultKept
<1>. DEFINE a == acct[u]
            r == a.reserved + amount
<1>1. a \in AccountRecords /\ acct \in [Accounts -> AccountRecords] /\ u \in Accounts
  BY AccountIsTyped
<1>2. a.reserved \in Nat /\ a.orders \in [Orders -> Nat] /\ a.orders[o] = 0
  BY <1>1 DEF AccountRecords, ReserveMargin
<1>3. r \in Nat /\ r = a.reserved - a.orders[o] + amount
  BY <1>2
<1>4. acct' = [acct EXCEPT ![u] = WithOrder(a, o, amount, r)]
  <2>1. acct' = [acct EXCEPT ![u].orders[o] = amount, ![u].reserved = @ + amount]
    BY DEF ReserveMargin
  <2>. QED  BY <1>1, <2>1 DEF WithOrder
<1>5. UNCHANGED <<totalLocked, traders, traderIndex, badDebt, settled, net>>
  BY DEF ReserveMargin
<1>. HIDE DEF r
<1>. QED  BY <1>3, <1>4, <1>5, OrderKeeps

\* and returning it,
LEMMA UnreserveKeeps ==
  ASSUME GoodVault, NEW u \in Users, NEW o \in Orders, UnreserveMargin(u, o)
  PROVE  VaultKept
<1>. DEFINE a == acct[u]
            r == Less(a.reserved, a.orders[o])
<1>1. a \in AccountRecords /\ acct \in [Accounts -> AccountRecords] /\ u \in Accounts
  BY AccountIsTyped
<1>2. a.reserved \in Nat /\ a.orders[o] \in Nat
  BY <1>1 DEF AccountRecords
<1>3. r \in Nat
  BY <1>2 DEF Less
<1>4. Reserves(a) => r = a.reserved - a.orders[o] + 0
  <2>1. Reserves(a) => a.orders[o] <= a.reserved
    BY <1>1, OrderIsSummed DEF Reserves
  <2>. QED  BY <1>2, <2>1 DEF Less
<1>5. acct' = [acct EXCEPT ![u] = WithOrder(a, o, 0, r)]
  <2>1. acct' = [acct EXCEPT ![u].orders[o] = 0, ![u].reserved = Less(@, a.orders[o])]
    BY DEF UnreserveMargin
  <2>. QED  BY <1>1, <2>1 DEF WithOrder
<1>6. UNCHANGED <<totalLocked, traders, traderIndex, badDebt, settled, net>>
  BY DEF UnreserveMargin
<1>. HIDE DEF r
<1>. QED  BY <1>3, <1>4, <1>5, <1>6, OrderKeeps

\* and returning a part of it,
LEMMA ReleaseKeeps ==
  ASSUME GoodVault, NEW u \in Users, NEW o \in Orders, NEW amount \in Nat,
         ReleaseExcessMargin(u, o, amount)
  PROVE  VaultKept
<1>. DEFINE a == acct[u]
            current == a.orders[o]
            r == IF amount > current \/ a.reserved >= current - amount
                 THEN a.reserved + amount - current ELSE a.reserved
<1>1. a \in AccountRecords /\ acct \in [Accounts -> AccountRecords] /\ u \in Accounts
  BY AccountIsTyped
<1>2. a.reserved \in Nat /\ current \in Nat
  BY <1>1 DEF AccountRecords
<1>3. r \in Nat
  <2>. HIDE DEF a, current
  <2>. QED  BY <1>2
<1>4. Reserves(a) => r = a.reserved - current + amount
  <2>1. Reserves(a) => current <= a.reserved
    BY <1>1, OrderIsSummed DEF Reserves
  <2>. HIDE DEF a, current
  <2>. QED  BY <1>2, <2>1
<1>5. acct' = [acct EXCEPT ![u] = WithOrder(a, o, amount, r)]
  <2>1. acct' = [acct EXCEPT ![u].orders[o] = amount,
          ![u].reserved = IF amount > current \/ @ >= current - amount
                          THEN @ + amount - current ELSE @]
    BY DEF ReleaseExcessMargin
  <2>. QED  BY <1>1, <2>1 DEF WithOrder
<1>6. UNCHANGED <<totalLocked, traders, traderIndex, badDebt, settled, net>>
  BY DEF ReleaseExcessMargin
<1>. HIDE DEF r
<1>. QED  BY <1>3, <1>4, <1>5, <1>6, OrderKeeps

\* and a whole trade.
LEMMA TradeKeeps ==
  ASSUME GoodVault, NEW m \in Markets, NEW taker \in Users, NEW side \in {1, -1},
         NEW fills \in Fills[m], NEW makers \in [DOMAIN fills -> Users \ {taker}],
         TradeBatch(m, taker, side, fills, makers)
  PROVE  VaultKept
<1>. DEFINE after == AfterTaker(AfterFills(m, side, fills, makers), m, side, taker)
<1>1. m \in Markets \ settled
  BY DEF TradeBatch
<1>2. GoodLedger(after) /\ Kept(m, LedgerOf(m), after)
  BY <1>1, TradeKeepsLedger
<1>3. /\ acct' = after.acct /\ totalLocked' = after.locked
      /\ traders' = [traders EXCEPT ![m] = after.list]
      /\ traderIndex' = [traderIndex EXCEPT ![m] = after.index]
      /\ badDebt' = [badDebt EXCEPT ![m] = after.badDebt]
      /\ settled' = settled /\ net' = net
  BY DEF TradeBatch
<1>. HIDE DEF after
<1>4. /\ after.acct \in [Accounts -> AccountRecords] /\ AccountsExact(after.acct)
      /\ after.list \in Seq(Users) /\ after.index \in [Users -> Nat]
      /\ TradersExact(after.list, after.index)
      /\ after.locked \in Nat /\ after.badDebt \in Nat
  BY <1>2 DEF GoodLedger, LedgerRecords
<1>5. /\ traders' \in [Markets -> Seq(Users)]
      /\ traderIndex' \in [Markets -> [Users -> Nat]]
      /\ badDebt' \in [Markets -> Nat]
      /\ traders'[m] = after.list /\ traderIndex'[m] = after.index
      /\ \A k \in Markets \ {m} : traders'[k] = traders[k] /\ traderIndex'[k] = traderIndex[k]
  BY <1>3, <1>4 DEF GoodVault
<1>6. GoodVault'
  <2>1. \A k \in Markets \ settled : TradersExact(traders'[k], traderIndex'[k])
    BY <1>4, <1>5 DEF GoodVault
  <2>2. settled' \subseteq Markets /\ net' \in Int
    BY <1>3 DEF GoodVault
  <2>. QED  BY <1>3, <1>4, <1>5, <2>1, <2>2 DEF GoodVault, AccountsExact, TradersExact
<1>7. LedgerOf(m).acct = acct /\ LedgerOf(m).index = traderIndex[m]
      /\ LedgerOf(m).locked = totalLocked
  BY DEF LedgerOf
<1>8. ASSUME NEW k \in Markets \ settled, Listed(k) PROVE Listed(k)'
  <2>1. CASE k = m
    BY <1>2, <1>3, <1>5, <1>7, <1>8, <2>1 DEF Listed, Kept, HoldersListed, ListedHold
  <2>2. CASE k # m
    <3>1. \A v \in Users : acct'[v].index[k] = 0 <=> acct[v].index[k] = 0
      BY <1>2, <1>3, <1>7, <2>2 DEF Kept
    <3>. QED  BY <1>5, <1>8, <2>2, <3>1 DEF Listed, HoldersListed, ListedHold
  <2>. QED  BY <2>1, <2>2
<1>9. Caches => Caches'
  BY <1>2, <1>3, <1>7 DEF Kept, Caches, CachesExact, ReservesExact, LockedOf
<1>10. \A k \in settled, v \in Users : acct'[v].index[k] = 0 <=> acct[v].index[k] = 0
  BY <1>1, <1>2, <1>3, <1>7 DEF Kept, GoodVault
<1>11. ASSUME NEW k \in Markets \ settled, AllListed(k) PROVE AllListed(k)'
  <2>1. CASE k = m
    BY <1>2, <1>3, <1>5, <1>7, <1>11, <2>1 DEF AllListed, Kept, HoldersListed
  <2>2. CASE k # m
    <3>1. \A v \in Users : acct'[v].index[k] = 0 <=> acct[v].index[k] = 0
      BY <1>2, <1>3, <1>7, <2>2 DEF Kept
    <3>. QED  BY <1>5, <1>11, <2>2, <3>1 DEF AllListed, HoldersListed
  <2>. QED  BY <2>1, <2>2
<1>. QED  BY <1>3, <1>6, <1>8, <1>9, <1>10, <1>11 DEF VaultKept

\* Every operation of a user keeps the vault good.
LEMMA UserKeeps ==
  ASSUME GoodVault, UserNext
  PROVE  VaultKept
<1>1. Amounts \subseteq Nat
  BY VaultAssumption
<1>2. ASSUME NEW u \in Users, NEW amount \in Amounts, CreditExternal(u, amount) PROVE VaultKept
  BY <1>1, <1>2, CreditKeeps
<1>3. ASSUME NEW u \in Users, NEW amount \in Amounts, DebitExternal(u, amount) PROVE VaultKept
  BY <1>1, <1>3, DebitKeeps
<1>4. ASSUME NEW m \in Markets, NEW taker \in Users, NEW side \in {1, -1},
             NEW fills \in {f \in Fills[m] : InBookOrder(f, side)},
             NEW makers \in [DOMAIN fills -> Users \ {taker}],
             TradeBatch(m, taker, side, fills, makers)
      PROVE  VaultKept
  BY <1>4, TradeKeeps
<1>5. ASSUME NEW u \in Users, NEW m \in Markets, NEW amount \in Amounts,
             TopUpPositionMargin(u, m, amount)
      PROVE  VaultKept
  BY <1>1, <1>5, TopUpKeeps
<1>6. ASSUME NEW u \in Users, NEW o \in Orders, NEW amount \in Amounts,
             ReserveMargin(u, o, amount)
      PROVE  VaultKept
  BY <1>1, <1>6, ReserveKeeps
<1>7. ASSUME NEW u \in Users, NEW o \in Orders, UnreserveMargin(u, o) PROVE VaultKept
  BY <1>7, UnreserveKeeps
<1>8. ASSUME NEW u \in Users, NEW o \in Orders, NEW amount \in 1 .. acct[u].orders[o] + 1,
             ReleaseExcessMargin(u, o, amount)
      PROVE  VaultKept
  BY <1>8, ReleaseKeeps
<1>. QED  BY <1>2, <1>3, <1>4, <1>5, <1>6, <1>7, <1>8 DEF UserNext

\* A step of a user that leaves all positions alone leaves the lists alone: a
\* trade changes the position of its taker.
LEMMA UserKeepsLists ==
  ASSUME GoodVault, Caches, UserNext,
         \A v \in Users : acct'[v].positions = acct[v].positions
  PROVE  UNCHANGED traders
<1>1. ASSUME NEW m \in Markets, NEW taker \in Users, NEW side \in {1, -1},
             NEW fills \in Fills[m], NEW makers \in [DOMAIN fills -> Users \ {taker}],
             TradeBatch(m, taker, side, fills, makers)
      PROVE  FALSE
  <2>. DEFINE after == AfterTaker(AfterFills(m, side, fills, makers), m, side, taker)
  <2>1. m \in Markets \ settled /\ acct' = after.acct
    BY <1>1 DEF TradeBatch
  <2>2. after.acct[taker].positions # acct[taker].positions
    BY <2>1, TradeMovesTaker DEF Caches
  <2>. HIDE DEF after
  <2>. QED  BY <2>1, <2>2
<1>2. ASSUME NEW u \in Users, NEW amount \in Amounts,
             CreditExternal(u, amount) \/ DebitExternal(u, amount)
      PROVE  UNCHANGED traders
  BY <1>2 DEF CreditExternal, DebitExternal
<1>3. ASSUME NEW u \in Users, NEW m \in Markets, NEW amount \in Amounts,
             TopUpPositionMargin(u, m, amount)
      PROVE  UNCHANGED traders
  BY <1>3 DEF TopUpPositionMargin
<1>4. ASSUME NEW u \in Users, NEW o \in Orders, NEW amount,
             \/ ReserveMargin(u, o, amount) \/ UnreserveMargin(u, o)
             \/ ReleaseExcessMargin(u, o, amount)
      PROVE  UNCHANGED traders
  BY <1>4 DEF ReserveMargin, UnreserveMargin, ReleaseExcessMargin
<1>. QED  BY <1>1, <1>2, <1>3, <1>4 DEF UserNext

----------------------------------------------------------------------------
(* Settlements. *)

\* The settlement of a market, with the type of each field.
BatchRecords ==
  [phase : Phases, price : Nat, cursor : Nat, liabilities : Nat, capacity : Nat,
   scale : Nat, profit : Nat, loss : Nat]

\* The inductive invariant.  Lists name holders until a batch of settlements is
\* applied: from then on positions go and the list stays.
Inv ==
  /\ GoodVault
  /\ Caches
  /\ disturbed \subseteq Markets
  /\ batch \in [Markets -> BatchRecords]
  /\ \A m \in Markets : batch[m].phase = "complete" => m \in settled
  /\ \A m \in Markets \ settled : batch[m].phase # "applying" => Listed(m)

----------------------------------------------------------------------------
(* The start. *)

\* A sum of zeros is zero.
LEMMA SumOfZeros ==
  ASSUME NEW S, IsFiniteSet(S), NEW f, \A x \in S : f[x] = 0
  PROVE  SumFunctionOnSet(f, S) = 0
<1>1. Ints(f, S)
  BY DEF Ints
<1>2. SumFunctionOnSet(f, S) = SumFunctionOnSet(f, {})
  BY <1>1, SumInside
<1>. QED  BY <1>2, SumOfNothing

\* A new account has no positions and nothing reserved.
LEMMA NewAccountIsGood ==
  /\ NewAccount \in AccountRecords
  /\ NewAccount.positions = <<>> /\ NewAccount.index = [m \in Markets |-> 0]
  /\ NewAccount.locked = 0 /\ NewAccount.reserved = 0
  /\ NewAccount.orders = [o \in Orders |-> 0]
<1>1. InitialCredit \in Nat
  BY VaultAssumption
<1>. QED  BY <1>1 DEF NewAccount, AccountRecords

\* The vault starts good, with exact caches and empty lists.
LEMMA StartIsGood ==
  ASSUME LedgerInit
  PROVE  GoodVault /\ Caches /\ \A m \in Markets : Listed(m)
<1>1. /\ \A v \in Accounts : /\ acct[v] \in AccountRecords /\ acct[v].positions = <<>>
                             /\ acct[v].index = [m \in Markets |-> 0]
                             /\ acct[v].locked = 0 /\ acct[v].reserved = 0
                             /\ acct[v].orders = [o \in Orders |-> 0]
      /\ acct = [v \in Accounts |-> acct[v]]
  <2>1. [NewAccount EXCEPT !.credit = 0] \in AccountRecords
    BY NewAccountIsGood DEF AccountRecords
  <2>2. /\ [NewAccount EXCEPT !.credit = 0].positions = <<>>
        /\ [NewAccount EXCEPT !.credit = 0].index = [m \in Markets |-> 0]
        /\ [NewAccount EXCEPT !.credit = 0].locked = 0
        /\ [NewAccount EXCEPT !.credit = 0].reserved = 0
        /\ [NewAccount EXCEPT !.credit = 0].orders = [o \in Orders |-> 0]
    BY NewAccountIsGood DEF AccountRecords
  <2>3. acct = [v \in Accounts |->
                 IF v \in Users THEN NewAccount ELSE [NewAccount EXCEPT !.credit = 0]]
    BY DEF LedgerInit
  <2>. QED  BY <2>1, <2>2, <2>3, NewAccountIsGood
<1>2. acct \in [Accounts -> AccountRecords]
  BY <1>1
<1>3. AccountsExact(acct)
  BY <1>1 DEF AccountsExact, Exact, Slots
<1>4. /\ totalLocked = 0 /\ traders = [m \in Markets |-> <<>>]
      /\ traderIndex = [m \in Markets |-> [u \in Users |-> 0]]
      /\ badDebt = [m \in Markets |-> 0] /\ settled = {}
      /\ net = InitialCredit * Cardinality(Users)
  BY DEF LedgerInit
<1>5. net \in Int
  <2>1. Cardinality(Users) \in Nat /\ InitialCredit \in Nat
    BY VaultAssumption, FS_CardinalityType
  <2>. QED  BY <1>4, <2>1
<1>6. \A m \in Markets : TradersExact(traders[m], traderIndex[m])
  BY <1>4 DEF TradersExact
<1>7. GoodVault
  BY <1>2, <1>3, <1>4, <1>5, <1>6 DEF GoodVault
<1>8. \A m \in Markets : Listed(m)
  <2>1. ASSUME NEW m \in Markets, NEW v \in Users
        PROVE  acct[v].index[m] = 0 /\ traderIndex[m][v] = 0
    <3>1. acct[v].index = [k \in Markets |-> 0] /\ traderIndex[m] = [u \in Users |-> 0]
      BY <1>1, <1>4 DEF Accounts
    <3>. QED  BY <3>1
  <2>. QED  BY <2>1 DEF Listed, HoldersListed, ListedHold
<1>9. PositionMargins(<<>>) = 0
  <2>1. <<>> \in Seq(Held) /\ 1 .. Len(<<>>) = {}
    OBVIOUS
  <2>2. PositionMargins(<<>>) = SumFunctionOnSet(MarginOf(<<>>), 1 .. Len(<<>>))
    BY <2>1, MarginsAreSummed
  <2>. QED  BY <2>1, <2>2, SumOfNothing
<1>10. CachesExact(acct, totalLocked)
  <2>1. SumFunctionOnSet(LockedOf(acct), Users) = 0
    <3>1. \A v \in Users : LockedOf(acct)[v] = 0
      BY <1>1 DEF LockedOf, Accounts
    <3>. QED  BY <3>1, VaultAssumption, SumOfZeros
  <2>. QED  BY <1>1, <1>4, <1>9, <2>1 DEF CachesExact, Accounts
<1>11. ReservesExact(acct)
  <2>1. SumFunctionOnSet([o \in Orders |-> 0], Orders) = 0
    <3>. DEFINE f == [o \in Orders |-> 0]
    <3>1. \A o \in Orders : f[o] = 0
      OBVIOUS
    <3>. HIDE DEF f
    <3>2. SumFunctionOnSet(f, Orders) = 0
      BY <3>1, VaultAssumption, SumOfZeros
    <3>. QED  BY <3>2 DEF f
  <2>. QED  BY <1>1, <2>1 DEF ReservesExact, Accounts
<1>. QED  BY <1>7, <1>8, <1>10, <1>11 DEF Caches

\* So the invariant holds at the start.
LEMMA InitIsGood == Init => Inv
<1>. SUFFICES ASSUME Init PROVE Inv
  OBVIOUS
<1>1. GoodVault /\ Caches /\ \A m \in Markets : Listed(m)
  BY StartIsGood DEF Init
<1>2. NoBatch \in BatchRecords /\ NoBatch.phase = "none"
  BY DEF NoBatch, BatchRecords, Phases
<1>. QED  BY <1>1, <1>2 DEF Inv, Init

----------------------------------------------------------------------------
(* The settlement of one account. *)

\* With an exact index, an account has a position where the index gives a slot,
\* and that is the position that settling finds.
LEMMA PositionInIsIndexed ==
  ASSUME NEW a \in AccountRecords, Exact(a.positions, a.index), NEW m \in Markets
  PROVE  /\ HasPosition(a, m) <=> a.index[m] # 0
         /\ HasPosition(a, m) =>
              /\ (CHOOSE i \in Slots(a.positions, m) : TRUE) = a.index[m]
              /\ a.index[m] \in 1 .. Len(a.positions)
              /\ PositionIn(a, m) = a.positions[a.index[m]]
              /\ PositionIn(a, m) \in Held
<1>1. a.positions \in Seq(Held) /\ a.index \in [Markets -> Nat]
  BY DEF AccountRecords
<1>2. Slots(a.positions, m) = IF a.index[m] = 0 THEN {} ELSE {a.index[m]}
  BY DEF Exact
<1>3. a.index[m] # 0 => a.index[m] \in 1 .. Len(a.positions)
  BY <1>1, SlotIsIndexed
<1>. QED  BY <1>1, <1>2, <1>3 DEF HasPosition, PositionIn

\* What settling computes for an account are natural numbers, and it debits no
\* more than the account has.
LEMMA SharesAreNat ==
  ASSUME NEW a \in AccountRecords, Exact(a.positions, a.index), NEW m \in Markets,
         NEW price \in Nat, NEW scale \in Nat
  PROVE  /\ Gain(a, m, price) \in Nat /\ LossOf(a, m, price) \in Nat
         /\ Debit(a, m, price) \in Nat /\ Debit(a, m, price) <= LossOf(a, m, price)
         /\ Debit(a, m, price) <= Balance(a)
         /\ Profit(a, m, price, scale) \in Nat
<1>1. a.credit \in Nat /\ a.collateral \in Nat /\ Balance(a) \in Nat
  BY DEF AccountRecords, Balance
<1>2. HasPosition(a, m) => Delta(a, m, price) \in Int /\ PositionIn(a, m).margin \in Nat
  <2>1. SUFFICES ASSUME HasPosition(a, m)
                 PROVE  Delta(a, m, price) \in Int /\ PositionIn(a, m).margin \in Nat
    OBVIOUS
  <2>. DEFINE pos == PositionIn(a, m)
  <2>2. pos \in Held
    BY <2>1, PositionInIsIndexed
  <2>3. pos.size \in Int /\ pos.entry \in Nat /\ pos.margin \in Nat /\ pos.haircut \in Nat
    BY <2>2 DEF Held, PositionRecords
  <2>. HIDE DEF pos
  <2>4. (price - pos.entry) * pos.size \in Int
    BY <2>3
  <2>5. ToMoney((price - pos.entry) * pos.size) - pos.haircut \in Int
    BY <2>3, <2>4, MoneyIsInt
  <2>. QED  BY <2>3, <2>5 DEF Delta, pos
<1>3. Gain(a, m, price) \in Nat /\ LossOf(a, m, price) \in Nat
  BY <1>2 DEF Gain, LossOf
<1>4. /\ Debit(a, m, price) \in Nat /\ Debit(a, m, price) <= LossOf(a, m, price)
      /\ Debit(a, m, price) <= Balance(a)
  BY <1>1, <1>2, <1>3 DEF Debit, Lesser
<1>5. Profit(a, m, price, scale) \in Nat
  <2>1. Gain(a, m, price) * scale \in Nat
    BY <1>3
  <2>. QED  BY <2>1, DivIsNat, SettlementAssumption DEF Profit
<1>. QED  BY <1>3, <1>4, <1>5

\* What settling makes of an account: one position less, and nothing else that
\* an index or a cache depends on.
Settles(a, m, b) ==
  /\ b \in AccountRecords
  /\ Exact(b.positions, b.index)
  /\ b.index[m] = 0
  /\ \A k \in Markets \ {m} : b.index[k] = 0 <=> a.index[k] = 0
  /\ b.orders = a.orders /\ b.reserved = a.reserved

\* SettledAccount, of the position in slot i.
SettledSlot(a, i, m, price, scale) ==
  [PayFromFunds(a, Debit(a, m, price)) EXCEPT
     !.collateral = @ + Profit(a, m, price, scale),
     !.socialized = IF Profit(a, m, price, scale) > 0
                    THEN Less(@, a.positions[i].haircut) ELSE @,
     !.locked = Less(@, a.positions[i].margin),
     !.positions = RemoveSlot(@, i),
     !.index = ReindexAfterRemoval(a.positions, @, i, i, m)]

\* The margin of the position in m.
MarginIn(a, m) == IF HasPosition(a, m) THEN PositionIn(a, m).margin ELSE 0

\* Settling an account keeps its index exact and takes the margin of the
\* position out of its cache and out of the sum.
LEMMA SettledIsGood ==
  ASSUME NEW a \in AccountRecords, Exact(a.positions, a.index), NEW m \in Markets,
         NEW price \in Nat, NEW scale \in Nat
  PROVE  LET b == SettledAccount(a, m, price, scale)
         IN /\ Settles(a, m, b)
            /\ MarginIn(a, m) \in Nat
            /\ b.locked = Less(a.locked, MarginIn(a, m))
            /\ PositionMargins(b.positions) = PositionMargins(a.positions) - MarginIn(a, m)
            /\ MarginIn(a, m) <= PositionMargins(a.positions)
<1>. DEFINE b == SettledAccount(a, m, price, scale)
<1>. SUFFICES /\ Settles(a, m, b)
              /\ MarginIn(a, m) \in Nat
              /\ b.locked = Less(a.locked, MarginIn(a, m))
              /\ PositionMargins(b.positions) = PositionMargins(a.positions) - MarginIn(a, m)
              /\ MarginIn(a, m) <= PositionMargins(a.positions)
  OBVIOUS
<1>1. /\ a.positions \in Seq(Held) /\ a.index \in [Markets -> Nat] /\ a.locked \in Nat
      /\ a.socialized \in Nat /\ PositionMargins(a.positions) \in Nat
      /\ a.credit \in Nat /\ a.collateral \in Nat
  BY MarginsAreSummed DEF AccountRecords
<1>2. CASE ~HasPosition(a, m)
  <2>1. b = a /\ MarginIn(a, m) = 0 /\ a.index[m] = 0
    BY <1>2, PositionInIsIndexed DEF SettledAccount, MarginIn
  <2>. HIDE DEF b
  <2>. QED  BY <1>1, <2>1 DEF Settles, Less
<1>3. CASE HasPosition(a, m)
  <2>. DEFINE i == a.index[m]
              debit == Debit(a, m, price)
              profit == Profit(a, m, price, scale)
              paid == PayFromFunds(a, debit)
              owed == IF profit > 0 THEN Less(a.socialized, a.positions[i].haircut)
                      ELSE a.socialized
              removed == RemoveSlot(a.positions, i)
              index == ReindexAfterRemoval(a.positions, a.index, i, i, m)
              left == Less(a.locked, a.positions[i].margin)
  <2>1. /\ i # 0 /\ i \in 1 .. Len(a.positions) /\ a.positions[i] \in Held
        /\ (CHOOSE j \in Slots(a.positions, m) : TRUE) = i
        /\ MarginIn(a, m) = a.positions[i].margin
    BY <1>3, PositionInIsIndexed DEF MarginIn
  <2>2. a.positions[i].margin \in Nat /\ a.positions[i].haircut \in Nat
    BY <2>1 DEF Held, PositionRecords
  <2>3. debit \in Nat /\ debit <= a.credit + a.collateral /\ profit \in Nat
    <3>1. debit \in Nat /\ debit <= Balance(a) /\ profit \in Nat
      BY SharesAreNat
    <3>. HIDE DEF debit, profit
    <3>. QED  BY <1>1, <3>1 DEF Balance
  <2>4. /\ paid \in AccountRecords
        /\ \A field \in Books \cup {"pnl"} : paid[field] = a[field]
    <3>. HIDE DEF debit
    <3>. QED  BY <2>3, Paying
  <2>5. /\ removed \in Seq(Held) /\ index \in [Markets -> Nat] /\ Exact(removed, index)
        /\ index[m] = 0 /\ \A k \in Markets \ {m} : index[k] = 0 <=> a.index[k] = 0
    BY <1>1, <2>1, RemovalKeepsExact
  <2>6. /\ PositionMargins(removed) = PositionMargins(a.positions) - a.positions[i].margin
        /\ a.positions[i].margin <= PositionMargins(a.positions)
    BY <1>1, <2>1, MarginRemoved
  <2>7. b = [paid EXCEPT !.collateral = @ + profit, !.socialized = owed, !.locked = left,
                         !.positions = removed, !.index = index]
    <3>1. /\ paid.socialized = a.socialized /\ paid.locked = a.locked
          /\ paid.positions = a.positions /\ paid.index = a.index
      BY <2>4 DEF Books
    <3>2. b = [paid EXCEPT !.collateral = @ + profit,
                 !.socialized = IF profit > 0 THEN Less(@, a.positions[i].haircut) ELSE @,
                 !.locked = Less(@, a.positions[i].margin),
                 !.positions = RemoveSlot(@, i),
                 !.index = ReindexAfterRemoval(a.positions, @, i, i, m)]
      <4>1. b = SettledSlot(a, CHOOSE j \in Slots(a.positions, m) : TRUE, m, price, scale)
        BY <1>3 DEF SettledAccount, SettledSlot
      <4>2. b = SettledSlot(a, i, m, price, scale)
        BY <2>1, <4>1
      <4>. QED  BY <4>2 DEF SettledSlot
    <3>. HIDE DEF b, paid, profit
    <3>. QED  BY <3>1, <3>2
  <2>8. paid.collateral + profit \in Nat /\ owed \in Nat /\ left \in Nat
    <3>1. paid.collateral \in Nat
      BY <2>4 DEF AccountRecords
    <3>2. Less(a.socialized, a.positions[i].haircut) \in Nat
      BY <1>1, <2>2 DEF Less
    <3>3. left \in Nat
      BY <1>1, <2>2 DEF Less
    <3>. HIDE DEF paid, profit, i
    <3>4. paid.collateral + profit \in Nat
      BY <2>3, <3>1
    <3>. QED  BY <1>1, <3>2, <3>3, <3>4
  <2>9. paid.orders = a.orders /\ paid.reserved = a.reserved
    BY <2>4 DEF Books
  <2>. HIDE DEF b, paid, profit, owed, left, removed, index
  <2>10. /\ b \in AccountRecords /\ b.positions = removed /\ b.index = index
         /\ b.locked = left /\ b.orders = a.orders /\ b.reserved = a.reserved
    BY <2>4, <2>5, <2>7, <2>8, <2>9 DEF AccountRecords
  <2>. QED  BY <2>1, <2>2, <2>5, <2>6, <2>10 DEF Settles, left
<1>. QED  BY <1>2, <1>3

----------------------------------------------------------------------------
(* The settlement of many accounts. *)

\* The totals of a batch are natural numbers.
LEMMA SumsAreNat ==
  ASSUME GoodVault, NEW U \in SUBSET Users, NEW m \in Markets,
         NEW price \in Nat, NEW scale \in Nat
  PROVE  /\ Gains(U, m, price) \in Nat /\ Profits(U, m, price, scale) \in Nat
         /\ Debits(U, m, price) \in Nat /\ Shortfalls(U, m, price) \in Nat
         /\ Margins(U, m) \in Nat
<1>1. IsFiniteSet(U)
  BY VaultAssumption, FS_Subset
<1>2. \A u \in Users : acct[u] \in AccountRecords /\ Exact(acct[u].positions, acct[u].index)
  BY AccountIsTyped
<1>3. \A u \in Users : /\ Gain(acct[u], m, price) \in Nat
                       /\ Profit(acct[u], m, price, scale) \in Nat
                       /\ Debit(acct[u], m, price) \in Nat
                       /\ LossOf(acct[u], m, price) - Debit(acct[u], m, price) \in Nat
  <2>1. ASSUME NEW u \in Users
        PROVE  /\ Gain(acct[u], m, price) \in Nat
               /\ Profit(acct[u], m, price, scale) \in Nat
               /\ Debit(acct[u], m, price) \in Nat
               /\ LossOf(acct[u], m, price) - Debit(acct[u], m, price) \in Nat
    <3>1. /\ Gain(acct[u], m, price) \in Nat /\ LossOf(acct[u], m, price) \in Nat
          /\ Debit(acct[u], m, price) \in Nat
          /\ Debit(acct[u], m, price) <= LossOf(acct[u], m, price)
          /\ Profit(acct[u], m, price, scale) \in Nat
      BY <1>2, SharesAreNat
    <3>. QED  BY <3>1
  <2>. QED  BY <2>1
<1>4. \A u \in Users : MarginIn(acct[u], m) \in Nat
  BY <1>2, PositionInIsIndexed DEF MarginIn, Held, PositionRecords
<1>5. Gains(U, m, price) \in Nat
  <2>. DEFINE f == [u \in Users |-> Gain(acct[u], m, price)]
  <2>1. \A u \in U : f[u] \in Nat
    BY <1>3
  <2>. HIDE DEF f
  <2>2. SumFunctionOnSet(f, U) \in Nat
    BY <1>1, <2>1, SumIsNat
  <2>. QED  BY <2>2 DEF Gains, f
<1>6. Profits(U, m, price, scale) \in Nat
  <2>. DEFINE f == [u \in Users |-> Profit(acct[u], m, price, scale)]
  <2>1. \A u \in U : f[u] \in Nat
    BY <1>3
  <2>. HIDE DEF f
  <2>2. SumFunctionOnSet(f, U) \in Nat
    BY <1>1, <2>1, SumIsNat
  <2>. QED  BY <2>2 DEF Profits, f
<1>7. Debits(U, m, price) \in Nat
  <2>. DEFINE f == [u \in Users |-> Debit(acct[u], m, price)]
  <2>1. \A u \in U : f[u] \in Nat
    BY <1>3
  <2>. HIDE DEF f
  <2>2. SumFunctionOnSet(f, U) \in Nat
    BY <1>1, <2>1, SumIsNat
  <2>. QED  BY <2>2 DEF Debits, f
<1>8. Shortfalls(U, m, price) \in Nat
  <2>. DEFINE f == [u \in Users |-> LossOf(acct[u], m, price) - Debit(acct[u], m, price)]
  <2>1. \A u \in U : f[u] \in Nat
    BY <1>3
  <2>. HIDE DEF f
  <2>2. SumFunctionOnSet(f, U) \in Nat
    BY <1>1, <2>1, SumIsNat
  <2>. QED  BY <2>2 DEF Shortfalls, f
<1>9. Margins(U, m) \in Nat
  <2>. DEFINE f == [u \in Users |-> MarginIn(acct[u], m)]
  <2>1. \A u \in U : f[u] \in Nat
    BY <1>4
  <2>. HIDE DEF f
  <2>2. SumFunctionOnSet(f, U) \in Nat
    BY <1>1, <2>1, SumIsNat
  <2>. QED  BY <2>2 DEF Margins, MarginIn, f
<1>. QED  BY <1>5, <1>6, <1>7, <1>8, <1>9

\* So is the scale of the profits.
LEMMA ScaleIsNat ==
  ASSUME NEW liabilities \in Nat, NEW capacity \in Nat
  PROVE  ScaleFor(liabilities, capacity) \in Nat
<1>1. Ray \in Nat /\ capacity * Ray \in Nat
  BY SettlementAssumption
<1>2. liabilities > capacity => (capacity * Ray) \div liabilities \in Nat
  BY <1>1, DivIsNat
<1>. QED  BY <1>1, <1>2 DEF ScaleFor

\* What settling the users U in m makes of the vault.
Settled(U, m, price, scale) ==
  /\ acct' \in [Accounts -> AccountRecords]
  /\ AccountsExact(acct')
  /\ totalLocked' \in Nat
  /\ badDebt' \in [Markets -> Nat]
  /\ \A v \in Users, k \in Markets \ {m} : acct'[v].index[k] = 0 <=> acct[v].index[k] = 0
  /\ \A v \in U : acct'[v].index[m] = 0
  /\ Caches => CachesExact(acct', totalLocked') /\ ReservesExact(acct')

\* The total takes the margins of the settled positions, which is what the sums
\* over the accounts lose.
LEMMA ApplyingKeeps ==
  ASSUME GoodVault, NEW U \in SUBSET Users, NEW m \in Markets,
         NEW price \in Nat, NEW scale \in Nat, ApplySettlement(U, m, price, scale)
  PROVE  Settled(U, m, price, scale)
<1>1. /\ acct \in [Accounts -> AccountRecords] /\ AccountsExact(acct) /\ totalLocked \in Nat
      /\ badDebt \in [Markets -> Nat] /\ Users \subseteq Accounts
  BY DEF GoodVault, Accounts
<1>. DEFINE b(u) == SettledAccount(acct[u], m, price, scale)
<1>2. ASSUME NEW u \in Users
      PROVE  /\ Settles(acct[u], m, b(u)) /\ MarginIn(acct[u], m) \in Nat
             /\ b(u).locked = Less(acct[u].locked, MarginIn(acct[u], m))
             /\ PositionMargins(b(u).positions) =
                  PositionMargins(acct[u].positions) - MarginIn(acct[u], m)
             /\ MarginIn(acct[u], m) <= PositionMargins(acct[u].positions)
  <2>1. acct[u] \in AccountRecords /\ Exact(acct[u].positions, acct[u].index)
    BY AccountIsTyped
  <2>. QED  BY <2>1, SettledIsGood
<1>3. acct' = [u \in Accounts |-> IF u \in U THEN b(u) ELSE acct[u]]
  BY DEF ApplySettlement
<1>. HIDE DEF b
<1>4. /\ acct' \in [Accounts -> AccountRecords]
      /\ \A u \in Accounts : acct'[u] = IF u \in U THEN b(u) ELSE acct[u]
  BY <1>1, <1>2, <1>3 DEF Settles
<1>5. AccountsExact(acct')
  BY <1>1, <1>2, <1>4 DEF AccountsExact, Settles
<1>6. /\ \A v \in Users, k \in Markets \ {m} : acct'[v].index[k] = 0 <=> acct[v].index[k] = 0
      /\ \A v \in U : acct'[v].index[m] = 0
  BY <1>1, <1>2, <1>4 DEF Settles
<1>7. Margins(U, m) \in Nat /\ Shortfalls(U, m, price) \in Nat
  BY SumsAreNat
<1>8. /\ totalLocked' = Less(totalLocked, Margins(U, m))
      /\ badDebt' = [badDebt EXCEPT ![m] = @ + Shortfalls(U, m, price)]
  BY DEF ApplySettlement
<1>9. totalLocked' \in Nat /\ badDebt' \in [Markets -> Nat]
  BY <1>1, <1>7, <1>8 DEF Less
<1>10. ASSUME ReservesExact(acct) PROVE ReservesExact(acct')
  <2>1. \A v \in Users : /\ acct'[v].orders = acct[v].orders
                         /\ acct'[v].reserved = acct[v].reserved
    BY <1>1, <1>2, <1>4 DEF Settles
  <2>. QED  BY <1>10, <2>1 DEF ReservesExact
<1>11. ASSUME CachesExact(acct, totalLocked) PROVE CachesExact(acct', totalLocked')
  <2>. DEFINE f == [u \in Users |-> MarginIn(acct[u], m)]
              g == [u \in Users |-> IF u \in U THEN MarginIn(acct[u], m) ELSE 0]
  <2>1. \A v \in Users : /\ acct'[v].locked = acct[v].locked - g[v] /\ g[v] \in Nat
                         /\ acct[v].locked \in Nat /\ acct'[v].locked \in Nat
                         /\ acct'[v].locked = PositionMargins(acct'[v].positions)
    <3>1. ASSUME NEW v \in Users
          PROVE  /\ acct'[v].locked = acct[v].locked - g[v] /\ g[v] \in Nat
                 /\ acct[v].locked \in Nat /\ acct'[v].locked \in Nat
                 /\ acct'[v].locked = PositionMargins(acct'[v].positions)
      <4>1. /\ acct[v].locked = PositionMargins(acct[v].positions) /\ acct[v].locked \in Nat
            /\ acct'[v].locked \in Nat
        BY <1>1, <1>4, <1>11 DEF CachesExact, AccountRecords
      <4>2. CASE v \in U
        <5>1. g[v] = MarginIn(acct[v], m) /\ acct'[v] = b(v)
          BY <1>1, <1>4, <4>2
        <5>. HIDE DEF g
        <5>2. /\ MarginIn(acct[v], m) \in Nat
              /\ b(v).locked = Less(acct[v].locked, MarginIn(acct[v], m))
              /\ PositionMargins(b(v).positions) = acct[v].locked - MarginIn(acct[v], m)
              /\ MarginIn(acct[v], m) <= acct[v].locked
          BY <1>2, <4>1
        <5>3. Less(acct[v].locked, MarginIn(acct[v], m)) = acct[v].locked - MarginIn(acct[v], m)
          BY <5>2 DEF Less
        <5>. QED  BY <4>1, <5>1, <5>2, <5>3
      <4>3. CASE v \notin U
        <5>1. g[v] = 0 /\ acct'[v] = acct[v]
          BY <1>1, <1>4, <4>3
        <5>. HIDE DEF g
        <5>. QED  BY <4>1, <5>1
      <4>. QED  BY <4>2, <4>3
    <3>. QED  BY <3>1
  <2>2. SumFunctionOnSet(g, Users) = Margins(U, m)
    <3>1. \A u \in Users \ U : g[u] = 0
      OBVIOUS
    <3>2. \A u \in U : g[u] = f[u] /\ g[u] \in Int
      BY <2>1
    <3>3. Margins(U, m) = SumFunctionOnSet(f, U)
      BY DEF Margins, MarginIn
    <3>4. Ints(g, Users) /\ Ints(g, U) /\ IsFiniteSet(Users) /\ IsFiniteSet(U)
      BY <2>1, VaultAssumption, FS_Subset DEF Ints
    <3>. HIDE DEF f, g
    <3>5. SumFunctionOnSet(g, Users) = SumFunctionOnSet(g, U)
      BY <3>1, <3>4, SumInside
    <3>6. SumFunctionOnSet(g, U) = SumFunctionOnSet(f, U)
      BY <3>2, <3>4, SumCongruence
    <3>. QED  BY <3>3, <3>5, <3>6
  <2>. HIDE DEF f, g
  <2>3. SumFunctionOnSet(LockedOf(acct'), Users) =
          SumFunctionOnSet(LockedOf(acct), Users) - SumFunctionOnSet(g, Users)
    <3>1. /\ Ints(LockedOf(acct), Users) /\ Ints(g, Users)
          /\ LessOn(Users, LockedOf(acct'), LockedOf(acct), g)
      BY <2>1 DEF Ints, LockedOf, LessOn
    <3>. QED  BY <3>1, VaultAssumption, SumOfDifference
  <2>4. SumFunctionOnSet(LockedOf(acct'), Users) \in Nat
    <3>1. \A v \in Users : LockedOf(acct')[v] \in Nat
      BY <2>1 DEF LockedOf
    <3>. QED  BY <3>1, VaultAssumption, SumIsNat
  <2>5. SumFunctionOnSet(LockedOf(acct'), Users) = totalLocked - Margins(U, m)
    BY <1>11, <2>2, <2>3 DEF CachesExact
  <2>6. totalLocked' = totalLocked - Margins(U, m)
    <3>1. totalLocked - Margins(U, m) \in Nat
      BY <2>4, <2>5
    <3>. QED  BY <1>1, <1>7, <1>8, <3>1 DEF Less
  <2>. QED  BY <2>1, <2>5, <2>6 DEF CachesExact
<1>. QED  BY <1>4, <1>5, <1>6, <1>9, <1>10, <1>11 DEF Settled, Caches

----------------------------------------------------------------------------
(* Every step keeps the invariant. *)

\* The record of a market has its types.
LEMMA BatchOf ==
  ASSUME Inv, NEW m \in Markets
  PROVE  /\ batch \in [Markets -> BatchRecords] /\ batch[m] \in BatchRecords
         /\ batch[m].price \in Nat /\ batch[m].cursor \in Nat /\ batch[m].liabilities \in Nat
         /\ batch[m].capacity \in Nat /\ batch[m].scale \in Nat
         /\ batch[m].profit \in Nat /\ batch[m].loss \in Nat
BY DEF Inv, BatchRecords

\* The users of a batch are users.
LEMMA BatchUsersAreUsers ==
  ASSUME Inv, NEW m \in Markets, NEW n \in Nat
  PROVE  BatchEnd(m, n) \in Nat /\ BatchUsers(m, n) \in SUBSET Users
<1>1. traders[m] \in Seq(Users) /\ batch[m].cursor \in Nat
  BY BatchOf DEF Inv, GoodVault
<1>2. BatchEnd(m, n) \in Nat /\ BatchEnd(m, n) <= Len(traders[m])
  BY <1>1 DEF BatchEnd, Lesser
<1>. HIDE DEF BatchEnd
<1>3. \A i \in batch[m].cursor + 1 .. BatchEnd(m, n) : traders[m][i] \in Users
  BY <1>1, <1>2
<1>. QED  BY <1>2, <1>3 DEF BatchUsers

\* A step of the batch settlement of m that keeps the vault.
OnlyBatch(m, r) ==
  /\ batch' = [batch EXCEPT ![m] = r]
  /\ r \in BatchRecords
  /\ r.phase = "complete" => m \in settled
  /\ r.phase # "applying" => batch[m].phase # "applying"
  /\ UNCHANGED <<ledgerVars, settled, net, disturbed>>

\* Such a step keeps the invariant.
LEMMA BatchKeeps ==
  ASSUME Inv, NEW m \in Markets, NEW r, OnlyBatch(m, r)
  PROVE  Inv'
<1>1. /\ batch' \in [Markets -> BatchRecords] /\ batch'[m] = r
      /\ \A k \in Markets \ {m} : batch'[k] = batch[k]
  BY DEF Inv, OnlyBatch
<1>2. UNCHANGED <<acct, totalLocked, traders, traderIndex, badDebt, settled, net, disturbed>>
  BY DEF OnlyBatch, ledgerVars
<1>3. GoodVault' /\ Caches'
  BY <1>2
     DEF Inv, GoodVault, AccountsExact, TradersExact, Caches, CachesExact, ReservesExact,
              LockedOf
<1>4. \A k \in Markets : Listed(k)' <=> Listed(k)
  BY <1>2 DEF Listed, HoldersListed, ListedHold
<1>5. \A k \in Markets : batch'[k].phase = "complete" => k \in settled'
  BY <1>1, <1>2 DEF Inv, OnlyBatch
<1>6. \A k \in Markets \ settled : batch'[k].phase # "applying" => Listed(k)'
  BY <1>1, <1>4 DEF Inv, OnlyBatch
<1>7. settled' = settled /\ disturbed' \subseteq Markets
  BY <1>2 DEF Inv
<1>. QED  BY <1>1, <1>3, <1>5, <1>6, <1>7 DEF Inv

\* Starting the settlement keeps the invariant,
LEMMA InitBatchKeeps ==
  ASSUME Inv, NEW m \in Markets, NEW price \in Nat, InitBatchSettlement(m, price)
  PROVE  Inv'
<1>. DEFINE r == [NoBatch EXCEPT !.phase = "calculating", !.price = price, !.scale = Ray]
<1>1. r \in BatchRecords /\ r.phase = "calculating"
  BY SettlementAssumption DEF NoBatch, BatchRecords, Phases
<1>2. batch[m].phase = "none" /\ batch' = [batch EXCEPT ![m] = r]
      /\ UNCHANGED <<ledgerVars, settled, net, disturbed>>
  BY DEF InitBatchSettlement
<1>. HIDE DEF r
<1>3. OnlyBatch(m, r)
  BY <1>1, <1>2 DEF OnlyBatch
<1>. QED  BY <1>3, BatchKeeps

\* and adding up the totals of a batch of users,
LEMMA CalculateKeeps ==
  ASSUME Inv, NEW m \in Markets, NEW n \in Nat, BatchCalculateTotals(m, n)
  PROVE  Inv'
<1>. DEFINE U == BatchUsers(m, n)
            old == batch[m]
            end == BatchEnd(m, n)
            gains == Gains(U, m, old.price)
            debits == Debits(U, m, old.price)
            r == [old EXCEPT !.cursor = end, !.liabilities = @ + gains, !.capacity = @ + debits]
<1>1. /\ old \in BatchRecords /\ old.price \in Nat /\ old.liabilities \in Nat
      /\ old.capacity \in Nat /\ batch \in [Markets -> BatchRecords]
  BY BatchOf
<1>2. end \in Nat /\ U \in SUBSET Users
  BY BatchUsersAreUsers
<1>3. gains \in Nat /\ debits \in Nat
  <2>. HIDE DEF U, old
  <2>. QED  BY <1>1, <1>2, SumsAreNat DEF Inv
<1>4. old.liabilities + gains \in Nat /\ old.capacity + debits \in Nat
  <2>. HIDE DEF old, gains, debits
  <2>. QED  BY <1>1, <1>3
<1>5. batch[m].phase = "calculating" /\ UNCHANGED <<ledgerVars, settled, net, disturbed>>
  BY DEF BatchCalculateTotals
<1>6. batch' = [batch EXCEPT ![m] = r]
  <2>1. batch' = [batch EXCEPT ![m].cursor = end, ![m].liabilities = @ + gains,
                               ![m].capacity = @ + debits]
    BY DEF BatchCalculateTotals
  <2>. HIDE DEF end, gains, debits
  <2>. QED  BY <1>1, <2>1
<1>7. r \in BatchRecords /\ r.phase = old.phase
  <2>. HIDE DEF end, gains, debits, old
  <2>. QED  BY <1>1, <1>2, <1>4 DEF BatchRecords
<1>. HIDE DEF r
<1>8. OnlyBatch(m, r)
  BY <1>5, <1>6, <1>7 DEF OnlyBatch
<1>. QED  BY <1>8, BatchKeeps

\* and fixing the scale.
LEMMA FinalizeHaircutKeeps ==
  ASSUME Inv, NEW m \in Markets, FinalizeHaircutCalculation(m)
  PROVE  Inv'
<1>. DEFINE old == batch[m]
            scale == ScaleFor(old.liabilities, old.capacity)
            r == [old EXCEPT !.phase = "haircutDone", !.cursor = 0, !.scale = scale]
<1>1. old \in BatchRecords /\ batch \in [Markets -> BatchRecords] /\ scale \in Nat
  BY BatchOf, ScaleIsNat
<1>2. batch[m].phase = "calculating" /\ UNCHANGED <<ledgerVars, settled, net, disturbed>>
  BY DEF FinalizeHaircutCalculation
<1>3. batch' = [batch EXCEPT ![m] = r]
  <2>1. batch' = [batch EXCEPT ![m].phase = "haircutDone", ![m].cursor = 0, ![m].scale = scale]
    BY DEF FinalizeHaircutCalculation
  <2>. HIDE DEF scale
  <2>. QED  BY <1>1, <2>1
<1>4. r \in BatchRecords /\ r.phase = "haircutDone"
  <2>. HIDE DEF old, scale
  <2>. QED  BY <1>1 DEF BatchRecords, Phases
<1>. HIDE DEF r
<1>5. OnlyBatch(m, r)
  BY <1>2, <1>3, <1>4 DEF OnlyBatch
<1>. QED  BY <1>5, BatchKeeps

\* Users of other markets are listed as before.
LEMMA ListedElsewhere ==
  ASSUME NEW U \in SUBSET Users, NEW m \in Markets, NEW price \in Nat, NEW scale \in Nat,
         Settled(U, m, price, scale), NEW k \in Markets \ {m},
         traderIndex'[k] = traderIndex[k], Listed(k)
  PROVE  Listed(k)'
BY DEF Settled, Listed, HoldersListed, ListedHold

\* Applying the settlement of a batch of users keeps the invariant,
LEMMA ApplyBatchKeeps ==
  ASSUME Inv, NEW m \in Markets, NEW n \in Nat, BatchApplySettlements(m, n)
  PROVE  Inv'
<1>. DEFINE U == BatchUsers(m, n)
            old == batch[m]
            end == BatchEnd(m, n)
            profits == Profits(U, m, old.price, old.scale)
            debits == Debits(U, m, old.price)
            r == [old EXCEPT !.phase = "applying", !.cursor = end,
                             !.profit = @ + profits, !.loss = @ + debits]
<1>1. /\ old \in BatchRecords /\ old.price \in Nat /\ old.scale \in Nat
      /\ old.profit \in Nat /\ old.loss \in Nat /\ batch \in [Markets -> BatchRecords]
  BY BatchOf
<1>2. end \in Nat /\ U \in SUBSET Users
  BY BatchUsersAreUsers
<1>3. profits \in Nat /\ debits \in Nat
  <2>. HIDE DEF U, old
  <2>. QED  BY <1>1, <1>2, SumsAreNat DEF Inv
<1>4. old.profit + profits \in Nat /\ old.loss + debits \in Nat
  <2>. HIDE DEF old, profits, debits
  <2>. QED  BY <1>1, <1>3
<1>5. /\ ApplySettlement(U, m, old.price, old.scale)
      /\ batch' = [batch EXCEPT ![m].phase = "applying", ![m].cursor = end,
                                ![m].profit = @ + profits, ![m].loss = @ + debits]
      /\ disturbed' = disturbed \union {k \in Markets \ {m} : Settling(k)}
      /\ UNCHANGED <<traders, traderIndex, settled, net>>
  BY DEF BatchApplySettlements
<1>6. r \in BatchRecords /\ r.phase = "applying"
  <2>. HIDE DEF end, profits, debits, old
  <2>. QED  BY <1>1, <1>2, <1>4 DEF BatchRecords, Phases
<1>7. batch' = [batch EXCEPT ![m] = r]
  <2>. HIDE DEF end, profits, debits
  <2>. QED  BY <1>1, <1>5
<1>. HIDE DEF U, r
<1>8. Settled(U, m, old.price, old.scale)
  BY <1>1, <1>2, <1>5, ApplyingKeeps DEF Inv
<1>9. /\ batch' \in [Markets -> BatchRecords] /\ batch'[m].phase = "applying"
      /\ \A k \in Markets \ {m} : batch'[k] = batch[k]
  BY <1>1, <1>6, <1>7
<1>10. GoodVault'
  <2>1. /\ (acct \in [Accounts -> AccountRecords])' /\ (totalLocked \in Nat)'
        /\ (badDebt \in [Markets -> Nat])' /\ AccountsExact(acct)'
    BY <1>8 DEF Settled, AccountsExact
  <2>2. /\ (traders \in [Markets -> Seq(Users)])' /\ (settled \subseteq Markets)'
        /\ (traderIndex \in [Markets -> [Users -> Nat]])' /\ (net \in Int)'
    BY <1>5 DEF Inv, GoodVault
  <2>3. (\A k \in Markets \ settled : TradersExact(traders[k], traderIndex[k]))'
    BY <1>5 DEF Inv, GoodVault, TradersExact
  <2>. QED  BY <2>1, <2>2, <2>3 DEF GoodVault
<1>11. Caches'
  BY <1>8 DEF Inv, Settled, Caches, CachesExact, ReservesExact, LockedOf
<1>12. \A k \in Markets : batch'[k].phase = "complete" => k \in settled'
  BY <1>5, <1>9 DEF Inv
<1>13. ASSUME NEW k \in Markets \ settled', batch'[k].phase # "applying"
       PROVE  Listed(k)'
  <2>1. /\ k # m /\ k \in Markets \ settled /\ batch[k].phase # "applying"
        /\ traderIndex' = traderIndex
    BY <1>5, <1>9, <1>13
  <2>2. Listed(k)
    BY <2>1 DEF Inv
  <2>. QED  BY <1>1, <1>2, <1>8, <2>1, <2>2, ListedElsewhere
<1>14. disturbed' \subseteq Markets
  BY <1>5 DEF Inv
<1>. QED  BY <1>9, <1>10, <1>11, <1>12, <1>13, <1>14 DEF Inv

\* and settling a market at once,
LEMMA SettleMarketKeeps ==
  ASSUME Inv, NEW m \in Markets, NEW price \in Nat, SettleMarket(m, price)
  PROVE  Inv'
<1>. DEFINE U == Elements(traders[m])
            scale == ScaleFor(Gains(U, m, price), Debits(U, m, price))
<1>1. /\ traders \in [Markets -> Seq(Users)]
      /\ traderIndex \in [Markets -> [Users -> Nat]]
  BY DEF Inv, GoodVault
<1>2. U \in SUBSET Users
  BY <1>1 DEF Elements
<1>3. Gains(U, m, price) \in Nat /\ Debits(U, m, price) \in Nat
  <2>. HIDE DEF U
  <2>1. 0 \in Nat
    OBVIOUS
  <2>. QED  BY <1>2, <2>1, SumsAreNat DEF Inv
<1>4. scale \in Nat
  <2>. HIDE DEF U
  <2>. QED  BY <1>3, ScaleIsNat
<1>5. /\ ApplySettlement(U, m, price, scale)
      /\ traders' = [traders EXCEPT ![m] = <<>>]
      /\ traderIndex' = [traderIndex EXCEPT ![m] =
           [u \in Users |-> IF u \in U THEN 0 ELSE traderIndex[m][u]]]
      /\ settled' = settled \union {m}
      /\ disturbed' = disturbed \union {k \in Markets \ {m} : Settling(k)}
      /\ UNCHANGED <<net, batch>>
  BY DEF SettleMarket
<1>. HIDE DEF U, scale
<1>6. Settled(U, m, price, scale)
  BY <1>2, <1>4, <1>5, ApplyingKeeps DEF Inv
<1>7. /\ traders' \in [Markets -> Seq(Users)]
      /\ traderIndex' \in [Markets -> [Users -> Nat]]
      /\ \A k \in Markets \ {m} : traders'[k] = traders[k] /\ traderIndex'[k] = traderIndex[k]
  BY <1>1, <1>5
<1>8. GoodVault'
  <2>1. \A k \in Markets \ settled' : TradersExact(traders'[k], traderIndex'[k])
    BY <1>5, <1>7 DEF Inv, GoodVault
  <2>2. settled' \subseteq Markets /\ net' \in Int
    BY <1>5 DEF Inv, GoodVault
  <2>. QED  BY <1>6, <1>7, <2>1, <2>2 DEF GoodVault, Settled, AccountsExact, TradersExact
<1>9. Caches'
  BY <1>6 DEF Inv, Settled, Caches, CachesExact, ReservesExact, LockedOf
<1>10. /\ batch' \in [Markets -> BatchRecords]
       /\ \A k \in Markets : batch'[k].phase = "complete" => k \in settled'
  BY <1>5 DEF Inv
<1>11. ASSUME NEW k \in Markets \ settled', batch'[k].phase # "applying"
       PROVE  Listed(k)'
  <2>1. k # m /\ k \in Markets \ settled /\ batch[k].phase # "applying"
    BY <1>5, <1>11
  <2>2. Listed(k) /\ traderIndex'[k] = traderIndex[k]
    BY <1>7, <2>1 DEF Inv
  <2>. QED  BY <1>2, <1>4, <1>6, <2>1, <2>2, ListedElsewhere
<1>12. disturbed' \subseteq Markets
  BY <1>5 DEF Inv
<1>. QED  BY <1>8, <1>9, <1>10, <1>11, <1>12 DEF Inv

\* and the end of the batches, which empties the list,
LEMMA FinalizeBatchKeeps ==
  ASSUME Inv, NEW m \in Markets, FinalizeBatchSettlement(m)
  PROVE  Inv'
<1>1. /\ settled' = settled \union {m}
      /\ batch' = [batch EXCEPT ![m].phase = "complete"]
      /\ traders' = [traders EXCEPT ![m] = <<>>]
      /\ UNCHANGED <<acct, totalLocked, traderIndex, badDebt, net, disturbed>>
  BY DEF FinalizeBatchSettlement
<1>2. /\ batch' \in [Markets -> BatchRecords]
      /\ \A k \in Markets \ {m} : batch'[k] = batch[k]
  BY <1>1 DEF Inv, BatchRecords, Phases
<1>3. /\ traders' \in [Markets -> Seq(Users)]
      /\ \A k \in Markets \ {m} : traders'[k] = traders[k]
  BY <1>1 DEF Inv, GoodVault
<1>4. GoodVault'
  <2>1. \A k \in Markets \ settled' : TradersExact(traders'[k], traderIndex'[k])
    BY <1>1, <1>3 DEF Inv, GoodVault
  <2>2. settled' \subseteq Markets
    BY <1>1 DEF Inv, GoodVault
  <2>. QED  BY <1>1, <1>3, <2>1, <2>2 DEF Inv, GoodVault, AccountsExact, TradersExact
<1>5. Caches'
  BY <1>1 DEF Inv, Caches, CachesExact, ReservesExact, LockedOf
<1>6. \A k \in Markets : batch'[k].phase = "complete" => k \in settled'
  BY <1>1, <1>2 DEF Inv
<1>7. \A k \in Markets \ settled' : batch'[k].phase # "applying" => Listed(k)'
  BY <1>1, <1>2 DEF Inv, Listed, HoldersListed, ListedHold
<1>. QED  BY <1>1, <1>2, <1>4, <1>5, <1>6, <1>7 DEF Inv

\* and what users do in between.
LEMMA UserStepKeeps ==
  ASSUME Inv, UserStep
  PROVE  Inv'
<1>1. VaultKept /\ batch' = batch
  BY UserKeeps DEF Inv, UserStep
<1>2. disturbed' \subseteq Markets
  BY DEF Inv, UserStep
<1>. QED  BY <1>1, <1>2 DEF Inv, VaultKept

\* Every step keeps the invariant.
LEMMA InvariantStep == Inv /\ [Next]_vars => Inv'
<1>. SUFFICES ASSUME Inv, [Next]_vars PROVE Inv'
  OBVIOUS
<1>1. Expiring \subseteq Markets /\ SettlementPrices \subseteq Nat /\ BatchSizes \subseteq Nat
  BY SettlementAssumption
<1>2. CASE UNCHANGED vars
  BY <1>2 DEF Inv, vars, GoodVault, AccountsExact, TradersExact, Caches, CachesExact,
              ReservesExact, LockedOf, Listed, HoldersListed, ListedHold
<1>3. CASE UserStep
  BY <1>3, UserStepKeeps
<1>4. ASSUME NEW m \in Expiring, NEW price \in SettlementPrices, SettleMarket(m, price)
      PROVE  Inv'
  BY <1>1, <1>4, SettleMarketKeeps
<1>5. ASSUME NEW m \in Expiring, NEW price \in SettlementPrices, InitBatchSettlement(m, price)
      PROVE  Inv'
  BY <1>1, <1>5, InitBatchKeeps
<1>6. ASSUME NEW m \in Expiring, NEW n \in BatchSizes, BatchCalculateTotals(m, n)
      PROVE  Inv'
  BY <1>1, <1>6, CalculateKeeps
<1>7. ASSUME NEW m \in Expiring, FinalizeHaircutCalculation(m) PROVE Inv'
  BY <1>1, <1>7, FinalizeHaircutKeeps
<1>8. ASSUME NEW m \in Expiring, NEW n \in BatchSizes, BatchApplySettlements(m, n)
      PROVE  Inv'
  BY <1>1, <1>8, ApplyBatchKeeps
<1>9. ASSUME NEW m \in Expiring, FinalizeBatchSettlement(m) PROVE Inv'
  BY <1>1, <1>9, FinalizeBatchKeeps
<1>. QED  BY <1>2, <1>3, <1>4, <1>5, <1>6, <1>7, <1>8, <1>9 DEF Next, SettlementNext

\* So it holds of every behaviour.
LEMMA InvariantHolds == Spec => []Inv
<1>. QED  BY InitIsGood, InvariantStep, PTL DEF Spec

----------------------------------------------------------------------------
(* What a settlement pays.  Winners get shares, rounded down, of what the  *)
(* losers can pay; nobody is counted or settled twice, and nobody with a   *)
(* position is left out.                                                   *)

\* Gains, user by user.
GainOf(accounts, m, price) == [u \in Users |-> Gain(accounts[u], m, price)]

\* Profits, at the scale of the haircut.
ProfitOfEach(accounts, m, price, scale) ==
  [u \in Users |-> Profit(accounts[u], m, price, scale)]

\* Debits.
DebitOf(accounts, m, price) == [u \in Users |-> Debit(accounts[u], m, price)]

\* The totals of the settlement are their sums.
LEMMA TotalsAreSums ==
  ASSUME NEW U, NEW m, NEW price, NEW scale
  PROVE  /\ Gains(U, m, price) = SumFunctionOnSet(GainOf(acct, m, price), U)
         /\ Profits(U, m, price, scale) =
              SumFunctionOnSet(ProfitOfEach(acct, m, price, scale), U)
         /\ Debits(U, m, price) = SumFunctionOnSet(DebitOf(acct, m, price), U)
BY DEF Gains, Profits, Debits, GainOf, ProfitOfEach, DebitOf

\* Accounts, with exact indices.
GoodAccounts(accounts) ==
  /\ \A u \in Users : accounts[u] \in AccountRecords
  /\ \A u \in Users : Exact(accounts[u].positions, accounts[u].index)

\* The terms of the totals are natural numbers.
LEMMA TermsAreNat ==
  ASSUME NEW accounts, GoodAccounts(accounts), NEW m \in Markets,
         NEW price \in Nat, NEW scale \in Nat, NEW U \in SUBSET Users
  PROVE  /\ IsFiniteSet(U)
         /\ \A u \in Users : /\ GainOf(accounts, m, price)[u] \in Nat
                             /\ ProfitOfEach(accounts, m, price, scale)[u] \in Nat
                             /\ DebitOf(accounts, m, price)[u] \in Nat
         /\ Ints(GainOf(accounts, m, price), U)
         /\ Ints(ProfitOfEach(accounts, m, price, scale), U)
         /\ Ints(DebitOf(accounts, m, price), U)
<1>1. IsFiniteSet(U)
  BY VaultAssumption, FS_Subset
<1>2. \A u \in Users : /\ Gain(accounts[u], m, price) \in Nat
                       /\ Profit(accounts[u], m, price, scale) \in Nat
                       /\ Debit(accounts[u], m, price) \in Nat
  BY SharesAreNat DEF GoodAccounts
<1>3. \A u \in Users : /\ GainOf(accounts, m, price)[u] \in Nat
                       /\ ProfitOfEach(accounts, m, price, scale)[u] \in Nat
                       /\ DebitOf(accounts, m, price)[u] \in Nat
  BY <1>2 DEF GainOf, ProfitOfEach, DebitOf
<1>. QED  BY <1>1, <1>3 DEF Ints

\* So are the accounts of a good vault.
LEMMA AccountsAreGood ==
  ASSUME GoodVault
  PROVE  GoodAccounts(acct)
BY AccountIsTyped DEF GoodAccounts

\* A factor can be dropped from both sides.
LEMMA Cancel ==
  ASSUME NEW r \in Nat \ {0}, NEW p \in Nat, NEW c \in Nat, r * p <= r * c
  PROVE  p <= c
<1>1. ASSUME p >= c + 1 PROVE FALSE
  <2>1. r * p >= r * (c + 1)
    BY <1>1
  <2>2. r * (c + 1) = r * c + r
    OBVIOUS
  <2>3. r * p \in Nat /\ r * c \in Nat
    OBVIOUS
  <2>. QED  BY <2>1, <2>2, <2>3
<1>. QED  BY <1>1

\* A quotient is no more than the exact one.
LEMMA DivTimes ==
  ASSUME NEW a \in Nat, NEW b \in Nat \ {0}
  PROVE  b * (a \div b) <= a
OBVIOUS

\* The scale hands out no more than the capacity.
LEMMA ScaleIsCovered ==
  ASSUME NEW l \in Nat, NEW c \in Nat
  PROVE  ScaleFor(l, c) * l <= Ray * c
<1>1. Ray \in Nat
  BY SettlementAssumption
<1>2. CASE l > c
  <2>1. c * Ray \in Nat /\ l \in Nat \ {0} /\ c * Ray = Ray * c
    BY <1>1, <1>2
  <2>2. l * ((c * Ray) \div l) <= c * Ray /\ (c * Ray) \div l \in Nat
    BY <2>1, DivTimes, DivIsNat
  <2>3. ScaleFor(l, c) = (c * Ray) \div l
    BY <1>2 DEF ScaleFor
  <2>4. ScaleFor(l, c) * l = l * ScaleFor(l, c)
    BY <2>2, <2>3
  <2>. QED  BY <2>1, <2>2, <2>3, <2>4
<1>3. CASE l <= c
  <2>1. ScaleFor(l, c) = Ray
    BY <1>3 DEF ScaleFor
  <2>2. Ray * l <= Ray * c
    BY <1>1, <1>3
  <2>. QED  BY <2>1, <2>2
<1>. QED  BY <1>2, <1>3

\* At the scale for their gains and a capacity, the profits of users add up to
\* no more than the capacity.
LEMMA ProfitsAreCovered ==
  ASSUME GoodVault, NEW U \in SUBSET Users, NEW m \in Markets, NEW price \in Nat,
         NEW c \in Nat
  PROVE  Profits(U, m, price, ScaleFor(Gains(U, m, price), c)) <= c
<1>. DEFINE l == Gains(U, m, price)
            scale == ScaleFor(l, c)
            p == ProfitOfEach(acct, m, price, scale)
            g == GainOf(acct, m, price)
            total == Profits(U, m, price, scale)
<1>1. l \in Nat
  BY SumsAreNat, 0 \in Nat
<1>2. scale \in Nat
  <2>. HIDE DEF l
  <2>. QED  BY <1>1, ScaleIsNat
<1>3. /\ IsFiniteSet(U) /\ \A u \in U : p[u] \in Nat /\ g[u] \in Nat
      /\ total \in Nat
      /\ l = SumFunctionOnSet(g, U) /\ total = SumFunctionOnSet(p, U)
  <2>. HIDE DEF scale
  <2>. QED  BY <1>2, AccountsAreGood, TermsAreNat, SumsAreNat, TotalsAreSums
<1>4. Ray \in Nat \ {0}
  BY SettlementAssumption
<1>5. \A u \in U : Ray * p[u] <= scale * g[u]
  <2>1. ASSUME NEW u \in U PROVE Ray * p[u] <= scale * g[u]
    <3>1. p[u] = (g[u] * scale) \div Ray
      BY DEF ProfitOfEach, GainOf, Profit
    <3>2. g[u] \in Nat
      BY <1>3
    <3>. HIDE DEF p, g, scale
    <3>3. g[u] * scale \in Nat /\ g[u] * scale = scale * g[u]
      BY <1>2, <3>2
    <3>. QED  BY <1>4, <3>1, <3>3, DivTimes
  <2>. QED  BY <2>1
<1>6. scale * l <= Ray * c
  <2>. HIDE DEF l
  <2>. QED  BY <1>1, ScaleIsCovered
<1>. HIDE DEF p, g, l, scale, total
<1>7. SharesOn(U, p, g, scale, Ray)
  BY <1>3, <1>5 DEF SharesOn
<1>8. Ray * total <= scale * l
  BY <1>2, <1>3, <1>4, <1>7, SumOfShares
<1>9. Ray * total <= Ray * c
  <2>1. Ray * total \in Nat /\ scale * l \in Nat /\ Ray * c \in Nat
    BY <1>1, <1>2, <1>3, <1>4
  <2>. QED  BY <1>6, <1>8, <2>1
<1>10. total <= c
  BY <1>3, <1>4, <1>9, Cancel
<1>. QED  BY <1>10 DEF total, scale, l

\* With the same positions, gains are the same, and more funds pay more.
LEMMA MoreFundsPayMore ==
  ASSUME NEW a \in AccountRecords, NEW b \in AccountRecords,
         Exact(a.positions, a.index), NEW m \in Markets, NEW price \in Nat, NEW scale,
         b.positions = a.positions, Balance(b) >= Balance(a)
  PROVE  /\ HasPosition(b, m) <=> HasPosition(a, m)
         /\ Gain(b, m, price) = Gain(a, m, price)
         /\ Profit(b, m, price, scale) = Profit(a, m, price, scale)
         /\ Debit(a, m, price) <= Debit(b, m, price)
<1>1. HasPosition(b, m) <=> HasPosition(a, m)
  BY DEF HasPosition
<1>2. PositionIn(b, m) = PositionIn(a, m)
  BY DEF PositionIn
<1>3. Delta(b, m, price) = Delta(a, m, price)
  BY <1>2 DEF Delta
<1>4. Gain(b, m, price) = Gain(a, m, price) /\ LossOf(b, m, price) = LossOf(a, m, price)
  BY <1>1, <1>3 DEF Gain, LossOf
<1>5. Debit(a, m, price) <= Debit(b, m, price)
  <2>1. LossOf(a, m, price) \in Nat
    BY SharesAreNat, 0 \in Nat
  <2>2. Balance(a) \in Nat /\ Balance(b) \in Nat
    <3>1. /\ a.collateral \in Nat /\ a.credit \in Nat
          /\ b.collateral \in Nat /\ b.credit \in Nat
      BY DEF AccountRecords
    <3>. QED  BY <3>1 DEF Balance
  <2>3. HasPosition(a, m) => PositionIn(a, m).margin \in Nat
    BY PositionInIsIndexed DEF Held, PositionRecords
  <2>. QED  BY <1>1, <1>2, <1>4, <2>1, <2>2, <2>3 DEF Debit, Lesser
<1>. QED  BY <1>1, <1>4, <1>5 DEF Profit

----------------------------------------------------------------------------
(* The invariant of the totals. *)

\* The users the calculation has counted.
CountedUsers(m) == {traders[m][i] : i \in 1 .. batch[m].cursor}

\* The totals are those of the users counted; debits may grow while others are
\* counted, since a loser may deposit.
CountIsExact(m) ==
  /\ batch[m].cursor <= Len(traders[m])
  /\ batch[m].liabilities = Gains(CountedUsers(m), m, batch[m].price)
  /\ batch[m].capacity <= Debits(CountedUsers(m), m, batch[m].price)
  /\ batch[m].profit = 0 /\ batch[m].loss = 0

\* Once the scale is fixed: what was paid and what is left to pay is covered by
\* what was taken and what is left to take, and whoever has a position is
\* further on in the list.
CoveredSoFar(m) ==
  /\ batch[m].profit + Profits(Users, m, batch[m].price, batch[m].scale)
       <= batch[m].loss + Debits(Users, m, batch[m].price)
  /\ \A v \in Users : HasPosition(acct[v], m) =>
       \E i \in DOMAIN traders[m] : i > batch[m].cursor /\ traders[m][i] = v

\* After the settlement: what SettlementIsCovered says.
CoveredInTheEnd(m) ==
  /\ payout[m].profit <= payout[m].loss
  /\ \A v \in Users : ~HasPosition(acct[v], m)

\* What holds of a market whose settlement nobody disturbed.
Undisturbed(m) ==
  /\ batch[m].phase = "calculating" => CountIsExact(m)
  /\ batch[m].phase \in {"haircutDone", "applying"} => CoveredSoFar(m)
  /\ m \in settled => CoveredInTheEnd(m)

\* The second part of the inductive invariant.
Covers ==
  /\ payout \in [Markets -> [profit : Nat, loss : Nat]]
  /\ \A m \in settled : ~Settling(m)
  /\ \A m \in Markets \ disturbed : Undisturbed(m)

\* With exact indices, the index says who has a position.
LEMMA HoldersAreIndexed ==
  ASSUME NEW accounts, GoodAccounts(accounts), NEW v \in Users, NEW m \in Markets
  PROVE  HasPosition(accounts[v], m) <=> accounts[v].index[m] # 0
BY PositionInIsIndexed DEF GoodAccounts

\* No account has other positions or less money than before.
Richer(before, after) ==
  \A v \in Users : /\ after[v].positions = before[v].positions
                   /\ Balance(after[v]) >= Balance(before[v])

\* When no account changes, that is so.
LEMMA NobodyLoses ==
  ASSUME GoodVault, acct' = acct
  PROVE  GoodAccounts(acct') /\ Richer(acct, acct')
<1>1. \A v \in Users : Balance(acct[v]) \in Nat
  BY AccountIsTyped DEF Balance, AccountRecords
<1>2. \A v \in Users : Balance(acct[v]) >= Balance(acct[v])
  BY <1>1
<1>. QED  BY <1>2, AccountsAreGood DEF Richer, GoodAccounts

\* With the same positions and no less money, the sums of gains and profits stay,
\* and that of debits may grow.
LEMMA SumsStay ==
  ASSUME NEW before, NEW after, GoodAccounts(before), GoodAccounts(after),
         Richer(before, after), NEW m \in Markets, NEW price \in Nat, NEW scale \in Nat,
         NEW U \in SUBSET Users
  PROVE  /\ SumFunctionOnSet(GainOf(after, m, price), U) =
              SumFunctionOnSet(GainOf(before, m, price), U)
         /\ SumFunctionOnSet(ProfitOfEach(after, m, price, scale), U) =
              SumFunctionOnSet(ProfitOfEach(before, m, price, scale), U)
         /\ SumFunctionOnSet(DebitOf(before, m, price), U) <=
              SumFunctionOnSet(DebitOf(after, m, price), U)
<1>. DEFINE g(accounts) == GainOf(accounts, m, price)
            p(accounts) == ProfitOfEach(accounts, m, price, scale)
            d(accounts) == DebitOf(accounts, m, price)
<1>1. /\ IsFiniteSet(U) /\ Ints(g(before), U) /\ Ints(g(after), U)
      /\ Ints(p(before), U) /\ Ints(p(after), U) /\ Ints(d(before), U) /\ Ints(d(after), U)
  BY TermsAreNat
<1>2. \A u \in U : /\ g(after)[u] = g(before)[u] /\ p(after)[u] = p(before)[u]
                   /\ d(before)[u] <= d(after)[u]
  <2>1. ASSUME NEW u \in U
        PROVE  /\ Gain(after[u], m, price) = Gain(before[u], m, price)
               /\ Profit(after[u], m, price, scale) = Profit(before[u], m, price, scale)
               /\ Debit(before[u], m, price) <= Debit(after[u], m, price)
    BY MoreFundsPayMore DEF GoodAccounts, Richer
  <2>. QED  BY <2>1 DEF GainOf, ProfitOfEach, DebitOf
<1>. HIDE DEF g, p, d
<1>3. SumFunctionOnSet(g(after), U) = SumFunctionOnSet(g(before), U)
  BY <1>1, <1>2, SumCongruence
<1>4. SumFunctionOnSet(p(after), U) = SumFunctionOnSet(p(before), U)
  BY <1>1, <1>2, SumCongruence
<1>5. SumFunctionOnSet(d(before), U) <= SumFunctionOnSet(d(after), U)
  BY <1>1, <1>2, SumAtMost DEF AtMostOn
<1>. QED  BY <1>3, <1>4, <1>5 DEF g, p, d

\* The users counted are users.
LEMMA CountedAreUsers ==
  ASSUME Inv, NEW m \in Markets, batch[m].cursor <= Len(traders[m])
  PROVE  CountedUsers(m) \in SUBSET Users
<1>1. traders[m] \in Seq(Users) /\ batch[m].cursor \in Nat
  BY BatchOf DEF Inv, GoodVault
<1>. QED  BY <1>1 DEF CountedUsers

\* What becomes of the totals of k in a step that leaves its list and its
\* settlement alone and takes nothing from anybody.
LEMMA StaysUndisturbed ==
  ASSUME Inv, GoodAccounts(acct'), NEW k \in Markets, Undisturbed(k), Richer(acct, acct'),
         traders'[k] = traders[k], batch'[k] = batch[k], payout'[k] = payout[k],
         k \in settled' => k \in settled
  PROVE  Undisturbed(k)'
<1>. DEFINE price == batch[k].price
            scale == batch[k].scale
<1>1. /\ GoodAccounts(acct) /\ price \in Nat /\ scale \in Nat /\ batch[k].liabilities \in Nat
      /\ batch[k].capacity \in Nat /\ batch[k].profit \in Nat /\ batch[k].loss \in Nat
  BY AccountsAreGood, BatchOf DEF Inv
<1>2. \A v \in Users : HasPosition(acct'[v], k) <=> HasPosition(acct[v], k)
  BY DEF Richer, HasPosition
<1>3. ASSUME NEW U \in SUBSET Users
      PROVE  /\ Gains(U, k, price) = SumFunctionOnSet(GainOf(acct, k, price), U)
             /\ Debits(U, k, price) <= SumFunctionOnSet(DebitOf(acct', k, price), U)
             /\ Profits(U, k, price, scale) =
                  SumFunctionOnSet(ProfitOfEach(acct', k, price, scale), U)
             /\ Gains(U, k, price) = SumFunctionOnSet(GainOf(acct', k, price), U)
             /\ Debits(U, k, price) \in Nat
             /\ SumFunctionOnSet(DebitOf(acct', k, price), U) \in Int
  <2>. HIDE DEF price, scale
  <2>1. Debits(U, k, price) \in Nat
    BY <1>1, SumsAreNat DEF Inv
  <2>2. SumFunctionOnSet(DebitOf(acct', k, price), U) \in Int
    BY <1>1, TermsAreNat, SumIsInt
  <2>. QED  BY <1>1, <2>1, <2>2, SumsStay, TotalsAreSums
<1>4. ASSUME CountIsExact(k) PROVE CountIsExact(k)'
  <2>1. CountedUsers(k)' = CountedUsers(k)
    BY DEF CountedUsers
  <2>. DEFINE U == CountedUsers(k)
  <2>2. U \in SUBSET Users
    BY <1>4, CountedAreUsers DEF CountIsExact
  <2>3. /\ Gains(CountedUsers(k), k, batch[k].price)' =
             SumFunctionOnSet(GainOf(acct', k, price), U)
        /\ Debits(CountedUsers(k), k, batch[k].price)' =
             SumFunctionOnSet(DebitOf(acct', k, price), U)
    BY <2>1 DEF Gains, Debits, GainOf, DebitOf
  <2>4. batch[k].liabilities = Gains(U, k, price) /\ batch[k].capacity <= Debits(U, k, price)
    BY <1>4 DEF CountIsExact
  <2>. HIDE DEF U
  <2>5. /\ batch[k].liabilities = SumFunctionOnSet(GainOf(acct', k, price), U)
        /\ batch[k].capacity <= SumFunctionOnSet(DebitOf(acct', k, price), U)
    BY <1>1, <1>3, <2>2, <2>4
  <2>. HIDE DEF price
  <2>. QED  BY <1>4, <2>3, <2>5 DEF CountIsExact
<1>5. ASSUME CoveredSoFar(k) PROVE CoveredSoFar(k)'
  <2>1. /\ Profits(Users, k, batch[k].price, batch[k].scale)' =
             SumFunctionOnSet(ProfitOfEach(acct', k, price, scale), Users)
        /\ Debits(Users, k, batch[k].price)' =
             SumFunctionOnSet(DebitOf(acct', k, price), Users)
    BY DEF Profits, Debits, ProfitOfEach, DebitOf
  <2>2. batch[k].profit + Profits(Users, k, price, scale)
          <= batch[k].loss + Debits(Users, k, price)
    BY <1>5 DEF CoveredSoFar
  <2>3. Profits(Users, k, price, scale) \in Nat
    <3>. HIDE DEF price, scale
    <3>. QED  BY <1>1, SumsAreNat DEF Inv
  <2>4. batch[k].profit + SumFunctionOnSet(ProfitOfEach(acct', k, price, scale), Users)
          <= batch[k].loss + SumFunctionOnSet(DebitOf(acct', k, price), Users)
    <3>. HIDE DEF price, scale
    <3>. QED  BY <1>1, <1>3, <2>2, <2>3
  <2>5. \A v \in Users : HasPosition(acct'[v], k) =>
          \E i \in DOMAIN traders'[k] : i > batch'[k].cursor /\ traders'[k][i] = v
    BY <1>2, <1>5 DEF CoveredSoFar
  <2>. QED  BY <2>1, <2>4, <2>5 DEF CoveredSoFar
<1>6. CoveredInTheEnd(k) => CoveredInTheEnd(k)'
  BY <1>2 DEF CoveredInTheEnd
<1>. QED  BY <1>4, <1>5, <1>6 DEF Undisturbed

\* A market that is not being settled only needs its holders and its payout to
\* stay.
LEMMA RestingStaysUndisturbed ==
  ASSUME NEW k \in Markets, Undisturbed(k), ~Settling(k), batch'[k] = batch[k],
         payout'[k] = payout[k], k \in settled' => k \in settled,
         k \in settled => \A v \in Users : HasPosition(acct'[v], k) => HasPosition(acct[v], k)
  PROVE  Undisturbed(k)'
BY DEF Undisturbed, Settling, CoveredInTheEnd

----------------------------------------------------------------------------
(* Every step keeps the totals covered. *)

\* A step of the batch settlement of m that leaves accounts and lists alone.
LEMMA BatchStepCovers ==
  ASSUME Inv, Covers, NEW m \in Markets \ settled, NEW r, batch' = [batch EXCEPT ![m] = r],
         UNCHANGED <<acct, traders, settled, payout, disturbed>>,
         m \notin disturbed => Undisturbed(m)'
  PROVE  Covers'
<1>1. /\ batch \in [Markets -> BatchRecords] /\ settled \subseteq Markets
      /\ GoodAccounts(acct') /\ Richer(acct, acct')
  BY BatchOf, NobodyLoses DEF Inv, GoodVault
<1>2. \A k \in Markets \ {m} : batch'[k] = batch[k]
  BY <1>1
<1>3. \A k \in settled' : ~Settling(k)'
  BY <1>1, <1>2 DEF Covers, Settling
<1>4. ASSUME NEW k \in Markets \ disturbed', k # m PROVE Undisturbed(k)'
  <2>1. Undisturbed(k)
    BY <1>4 DEF Covers
  <2>. QED  BY <1>1, <1>2, <1>4, <2>1, StaysUndisturbed
<1>. QED  BY <1>3, <1>4 DEF Covers

\* At the start of the calculation nobody is counted.
LEMMA InitBatchCovers ==
  ASSUME Inv, Covers, NEW m \in Markets, NEW price \in Nat, InitBatchSettlement(m, price)
  PROVE  Covers'
<1>. DEFINE r == [NoBatch EXCEPT !.phase = "calculating", !.price = price, !.scale = Ray]
<1>1. /\ m \in Markets \ settled /\ batch' = [batch EXCEPT ![m] = r]
      /\ UNCHANGED <<acct, traders, settled, payout, disturbed>>
  BY DEF InitBatchSettlement, ledgerVars
<1>2. /\ r.phase = "calculating" /\ r.cursor = 0 /\ r.liabilities = 0 /\ r.capacity = 0
      /\ r.profit = 0 /\ r.loss = 0
  BY DEF NoBatch
<1>. HIDE DEF r
<1>3. batch'[m] = r
  BY <1>1, BatchOf
<1>4. CountedUsers(m)' = {}
  BY <1>2, <1>3 DEF CountedUsers
<1>5. /\ Gains(CountedUsers(m), m, batch[m].price)' = 0
      /\ Debits(CountedUsers(m), m, batch[m].price)' = 0
  BY <1>4, SumOfNothing DEF Gains, Debits
<1>6. traders'[m] \in Seq(Users)
  BY <1>1 DEF Inv, GoodVault
<1>7. Undisturbed(m)'
  BY <1>1, <1>2, <1>3, <1>5, <1>6 DEF Undisturbed, CountIsExact
<1>. QED  BY <1>1, <1>7, BatchStepCovers

\* The users of the next batch were not counted before: nobody is on the list
\* twice.
LEMMA CountedGrows ==
  ASSUME Inv, NEW m \in Markets \ settled, NEW n \in Nat,
         batch[m].cursor <= Len(traders[m])
  PROVE  /\ CountedUsers(m) \in SUBSET Users /\ BatchUsers(m, n) \in SUBSET Users
         /\ CountedUsers(m) \cap BatchUsers(m, n) = {}
         /\ {traders[m][i] : i \in 1 .. BatchEnd(m, n)} = CountedUsers(m) \cup BatchUsers(m, n)
         /\ BatchEnd(m, n) <= Len(traders[m]) /\ BatchEnd(m, n) \in Nat
<1>. DEFINE list == traders[m]
            cursor == batch[m].cursor
            end == BatchEnd(m, n)
<1>1. list \in Seq(Users) /\ cursor \in Nat /\ TradersExact(list, traderIndex[m])
  BY BatchOf DEF Inv, GoodVault
<1>2. cursor <= end /\ end <= Len(list) /\ end \in Nat
  BY <1>1 DEF BatchEnd, Lesser
<1>3. \A i, j \in 1 .. Len(list) : list[i] = list[j] => i = j
  <2>1. SUFFICES ASSUME NEW i \in 1 .. Len(list), NEW j \in 1 .. Len(list), list[i] = list[j]
                 PROVE  i = j
    OBVIOUS
  <2>. DEFINE u == list[i]
              places == {k \in DOMAIN list : list[k] = u}
  <2>2. u \in Users /\ i \in places /\ j \in places
    BY <1>1, <2>1
  <2>3. places = IF traderIndex[m][u] = 0 THEN {} ELSE {traderIndex[m][u]}
    BY <1>1, <2>2 DEF TradersExact
  <2>. QED  BY <2>2, <2>3
<1>4. /\ CountedUsers(m) = {list[i] : i \in 1 .. cursor}
      /\ BatchUsers(m, n) = {list[i] : i \in cursor + 1 .. end}
  BY DEF CountedUsers, BatchUsers
<1>. HIDE DEF list, cursor, end
<1>5. CountedUsers(m) \in SUBSET Users /\ BatchUsers(m, n) \in SUBSET Users
  BY <1>1, <1>2, <1>4
<1>6. CountedUsers(m) \cap BatchUsers(m, n) = {}
  BY <1>1, <1>2, <1>3, <1>4
<1>7. {list[i] : i \in 1 .. end} = CountedUsers(m) \cup BatchUsers(m, n)
  <2>1. \A i \in 1 .. end : i \in 1 .. cursor \/ i \in cursor + 1 .. end
    BY <1>1, <1>2
  <2>2. \A i \in (1 .. cursor) \cup (cursor + 1 .. end) : i \in 1 .. end
    BY <1>1, <1>2
  <2>. QED  BY <1>4, <2>1, <2>2
<1>. QED  BY <1>2, <1>5, <1>6, <1>7 DEF list, end

\* Then the totals are those of both.
LEMMA TotalsGrow ==
  ASSUME GoodVault, NEW U \in SUBSET Users, NEW W \in SUBSET Users, U \cap W = {},
         NEW m \in Markets, NEW price \in Nat
  PROVE  /\ Gains(U \cup W, m, price) = Gains(U, m, price) + Gains(W, m, price)
         /\ Debits(U \cup W, m, price) = Debits(U, m, price) + Debits(W, m, price)
<1>. DEFINE g == GainOf(acct, m, price)
            d == DebitOf(acct, m, price)
<1>1. U \cup W \in SUBSET Users
  OBVIOUS
<1>2. IsFiniteSet(U \cup W) /\ Ints(g, U \cup W) /\ Ints(d, U \cup W)
  BY <1>1, AccountsAreGood, TermsAreNat, 0 \in Nat
<1>. HIDE DEF g, d
<1>3. SumFunctionOnSet(g, U \cup W) = SumFunctionOnSet(g, U) + SumFunctionOnSet(g, W)
  BY <1>2, SumUnion
<1>4. SumFunctionOnSet(d, U \cup W) = SumFunctionOnSet(d, U) + SumFunctionOnSet(d, W)
  BY <1>2, SumUnion
<1>. QED  BY <1>3, <1>4, TotalsAreSums DEF g, d

\* So the calculation stays exact.
LEMMA CalculateCovers ==
  ASSUME Inv, Covers, NEW m \in Markets, NEW n \in Nat, BatchCalculateTotals(m, n)
  PROVE  Covers'
<1>. DEFINE U == BatchUsers(m, n)
            F == CountedUsers(m)
            old == batch[m]
            end == BatchEnd(m, n)
            price == old.price
            r == [old EXCEPT !.cursor = end, !.liabilities = @ + Gains(U, m, price),
                             !.capacity = @ + Debits(U, m, price)]
<1>1. old \in BatchRecords /\ price \in Nat /\ old.capacity \in Nat /\ old.phase = "calculating"
  BY BatchOf DEF BatchCalculateTotals
<1>2. /\ m \in Markets \ settled
      /\ UNCHANGED <<acct, traders, settled, payout, disturbed>>
  BY DEF BatchCalculateTotals, ledgerVars, Covers, Settling
<1>3. batch' = [batch EXCEPT ![m] = r]
  <2>1. batch' = [batch EXCEPT ![m].cursor = end, ![m].liabilities = @ + Gains(U, m, price),
                               ![m].capacity = @ + Debits(U, m, price)]
    BY DEF BatchCalculateTotals
  <2>. HIDE DEF U, end, price
  <2>. QED  BY <1>1, <2>1, BatchOf
<1>4. ASSUME m \notin disturbed PROVE Undisturbed(m)'
  <2>1. CountIsExact(m)
    BY <1>1, <1>2, <1>4 DEF Covers, Undisturbed
  <2>2. /\ old.cursor <= Len(traders[m]) /\ old.liabilities = Gains(F, m, price)
        /\ old.capacity <= Debits(F, m, price) /\ old.profit = 0 /\ old.loss = 0
    BY <2>1 DEF CountIsExact
  <2>3. /\ F \in SUBSET Users /\ U \in SUBSET Users /\ F \cap U = {}
        /\ {traders[m][i] : i \in 1 .. end} = F \cup U
        /\ end <= Len(traders[m]) /\ end \in Nat
    BY <1>2, <2>2, CountedGrows
  <2>4. /\ batch'[m] = r /\ r.phase = "calculating" /\ r.cursor = end /\ r.price = price
        /\ r.liabilities = old.liabilities + Gains(U, m, price)
        /\ r.capacity = old.capacity + Debits(U, m, price)
        /\ r.profit = 0 /\ r.loss = 0
    <3>1. batch'[m] = r
      BY <1>3, BatchOf
    <3>. HIDE DEF U, end, old
    <3>. QED  BY <1>1, <2>2, <3>1 DEF BatchRecords
  <2>5. CountedUsers(m)' = F \cup U
    <3>1. CountedUsers(m)' = {traders[m][i] : i \in 1 .. end}
      <4>. HIDE DEF r, end
      <4>. QED  BY <1>2, <2>4 DEF CountedUsers
    <3>. QED  BY <2>3, <3>1
  <2>6. /\ Gains(CountedUsers(m), m, batch[m].price)' = Gains(F \cup U, m, price)
        /\ Debits(CountedUsers(m), m, batch[m].price)' = Debits(F \cup U, m, price)
    <3>. HIDE DEF F, U, price, r
    <3>. QED  BY <1>2, <2>4, <2>5 DEF Gains, Debits
  <2>. HIDE DEF F, U, r, old, price, end
  <2>7. /\ Gains(F \cup U, m, price) = Gains(F, m, price) + Gains(U, m, price)
        /\ Debits(F \cup U, m, price) = Debits(F, m, price) + Debits(U, m, price)
    <3>1. GoodVault
      BY DEF Inv
    <3>2. F \in SUBSET Users /\ U \in SUBSET Users /\ F \cap U = {} /\ price \in Nat
      BY <1>1, <2>3
    <3>. QED  BY <3>1, <3>2, TotalsGrow
  <2>8. Debits(F, m, price) \in Nat /\ Debits(U, m, price) \in Nat
    BY <1>1, <2>3, SumsAreNat, 0 \in Nat DEF Inv
  <2>9. /\ r.liabilities = Gains(F \cup U, m, price)
        /\ r.capacity <= Debits(F \cup U, m, price)
    BY <1>1, <2>2, <2>4, <2>7, <2>8
  <2>10. CountIsExact(m)'
    BY <1>2, <2>3, <2>4, <2>6, <2>9 DEF CountIsExact
  <2>. QED  BY <1>2, <2>4, <2>10 DEF Undisturbed
<1>. HIDE DEF r
<1>. QED  BY <1>2, <1>3, <1>4, BatchStepCovers

\* Whoever has a position in a market that is not settled is on its list, until
\* settlements are applied.
LEMMA HoldersOnList ==
  ASSUME Inv, NEW m \in Markets \ settled, batch[m].phase # "applying", NEW v \in Users,
         HasPosition(acct[v], m)
  PROVE  \E i \in DOMAIN traders[m] : traders[m][i] = v
<1>1. Listed(m) /\ TradersExact(traders[m], traderIndex[m]) /\ GoodVault
  BY DEF Inv, GoodVault
<1>2. traderIndex[m][v] # 0
  BY <1>1, AccountsAreGood, HoldersAreIndexed DEF Listed, HoldersListed
<1>3. {i \in DOMAIN traders[m] : traders[m][i] = v} = {traderIndex[m][v]}
  BY <1>1, <1>2 DEF TradersExact
<1>. QED  BY <1>3

\* Users without a position add nothing to the totals.
LEMMA HoldersMakeTotals ==
  ASSUME GoodVault, NEW U \in SUBSET Users, NEW m \in Markets, NEW price \in Nat,
         \A v \in Users \ U : ~HasPosition(acct[v], m)
  PROVE  /\ Gains(Users, m, price) = Gains(U, m, price)
         /\ Debits(Users, m, price) = Debits(U, m, price)
<1>. DEFINE g == GainOf(acct, m, price)
            d == DebitOf(acct, m, price)
<1>1. IsFiniteSet(Users) /\ Ints(g, Users) /\ Ints(d, Users)
  BY AccountsAreGood, TermsAreNat, 0 \in Nat
<1>2. \A v \in Users \ U : g[v] = 0 /\ d[v] = 0
  BY DEF GainOf, DebitOf, Gain, Debit
<1>. HIDE DEF g, d
<1>3. SumFunctionOnSet(g, Users) = SumFunctionOnSet(g, U)
  BY <1>1, <1>2, SumInside
<1>4. SumFunctionOnSet(d, Users) = SumFunctionOnSet(d, U)
  BY <1>1, <1>2, SumInside
<1>. QED  BY <1>3, <1>4, TotalsAreSums DEF g, d

\* When everybody on the list is counted, the scale for the totals covers all.
LEMMA FinalizeHaircutCovers ==
  ASSUME Inv, Covers, NEW m \in Markets, FinalizeHaircutCalculation(m)
  PROVE  Covers'
<1>. DEFINE old == batch[m]
            price == old.price
            scale == ScaleFor(old.liabilities, old.capacity)
            F == CountedUsers(m)
            r == [old EXCEPT !.phase = "haircutDone", !.cursor = 0, !.scale = scale]
<1>1. /\ old \in BatchRecords /\ price \in Nat /\ old.capacity \in Nat /\ old.liabilities \in Nat
      /\ old.cursor \in Nat /\ old.phase = "calculating" /\ old.cursor >= Len(traders[m])
      /\ scale \in Nat
  BY BatchOf, ScaleIsNat DEF FinalizeHaircutCalculation
<1>2. /\ m \in Markets \ settled
      /\ UNCHANGED <<acct, traders, settled, payout, disturbed>>
  BY DEF FinalizeHaircutCalculation, ledgerVars, Covers, Settling
<1>3. batch' = [batch EXCEPT ![m] = r]
  <2>1. batch' = [batch EXCEPT ![m].phase = "haircutDone", ![m].cursor = 0, ![m].scale = scale]
    BY DEF FinalizeHaircutCalculation
  <2>. HIDE DEF scale
  <2>. QED  BY <1>1, <2>1, BatchOf
<1>4. ASSUME m \notin disturbed PROVE Undisturbed(m)'
  <2>1. CountIsExact(m)
    BY <1>1, <1>2, <1>4 DEF Covers, Undisturbed
  <2>2. /\ old.cursor = Len(traders[m]) /\ old.liabilities = Gains(F, m, price)
        /\ old.capacity <= Debits(F, m, price) /\ old.profit = 0 /\ old.loss = 0
        /\ F \in SUBSET Users
    <3>1. Len(traders[m]) \in Nat
      BY DEF Inv, GoodVault
    <3>. QED  BY <1>1, <2>1, <3>1, CountedAreUsers DEF CountIsExact
  <2>3. \A v \in Users : HasPosition(acct[v], m) =>
          \E i \in DOMAIN traders[m] : traders[m][i] = v
    BY <1>1, <1>2, HoldersOnList
  <2>4. \A v \in Users \ F : ~HasPosition(acct[v], m)
    <3>1. DOMAIN traders[m] = 1 .. old.cursor
      BY <2>2 DEF Inv, GoodVault
    <3>. QED  BY <2>3, <3>1 DEF CountedUsers
  <2>5. /\ batch'[m] = r /\ r.phase = "haircutDone" /\ r.cursor = 0 /\ r.price = price
        /\ r.scale = scale /\ r.profit = 0 /\ r.loss = 0
    <3>1. batch'[m] = r
      BY <1>3, BatchOf
    <3>. HIDE DEF scale, old
    <3>. QED  BY <1>1, <2>2, <3>1 DEF BatchRecords
  <2>6. \A v \in Users : HasPosition(acct[v], m) =>
          \E i \in DOMAIN traders[m] : i > 0 /\ traders[m][i] = v
    BY <2>3 DEF Inv, GoodVault
  <2>. HIDE DEF F, r
  <2>7. /\ Gains(Users, m, price) = Gains(F, m, price)
        /\ Debits(Users, m, price) = Debits(F, m, price)
    BY <1>1, <2>2, <2>4, HoldersMakeTotals DEF Inv
  <2>8. Profits(Users, m, price, scale) <= old.capacity
    <3>1. scale = ScaleFor(Gains(Users, m, price), old.capacity)
      BY <2>2, <2>7
    <3>. HIDE DEF old, price, scale
    <3>. QED  BY <1>1, <3>1, ProfitsAreCovered DEF Inv
  <2>9. Profits(Users, m, price, scale) \in Nat /\ Debits(Users, m, price) \in Nat
    <3>. HIDE DEF scale
    <3>. QED  BY <1>1, SumsAreNat DEF Inv
  <2>10. Profits(Users, m, price, scale) <= Debits(Users, m, price)
    BY <1>1, <2>2, <2>7, <2>8, <2>9
  <2>11. /\ Profits(Users, m, batch[m].price, batch[m].scale)' = Profits(Users, m, price, scale)
         /\ Debits(Users, m, batch[m].price)' = Debits(Users, m, price)
    <3>. HIDE DEF price, scale
    <3>. QED  BY <1>2, <2>5 DEF Profits, Debits
  <2>12. CoveredSoFar(m)'
    <3>. HIDE DEF price, scale
    <3>. QED  BY <1>2, <2>5, <2>6, <2>9, <2>10, <2>11 DEF CoveredSoFar
  <2>. QED  BY <1>2, <2>5, <2>12 DEF Undisturbed
<1>. HIDE DEF r
<1>. QED  BY <1>2, <1>3, <1>4, BatchStepCovers

\* A settlement of m leaves markets alone that are not being settled.
LEMMA OthersRest ==
  ASSUME Inv, Inv', Covers, NEW m \in Markets, NEW k \in Markets \ {m},
         k \notin disturbed, ~Settling(k), batch'[k] = batch[k], payout'[k] = payout[k],
         k \in settled' => k \in settled,
         \A v \in Users : acct'[v].index[k] = 0 <=> acct[v].index[k] = 0
  PROVE  Undisturbed(k)'
<1>1. Undisturbed(k)
  BY DEF Covers
<1>2. GoodAccounts(acct) /\ GoodAccounts(acct')
  BY AccountsAreGood DEF Inv, GoodVault, GoodAccounts, AccountsExact, Accounts
<1>3. \A v \in Users : HasPosition(acct'[v], k) => HasPosition(acct[v], k)
  BY <1>2, HoldersAreIndexed
<1>. QED  BY <1>1, <1>3, RestingStaysUndisturbed

\* Settling users takes their shares out of the totals.
LEMMA SettledTotals ==
  ASSUME Inv, Inv', NEW U \in SUBSET Users, NEW m \in Markets, NEW price \in Nat,
         NEW scale \in Nat, ApplySettlement(U, m, price, scale)
  PROVE  /\ \A v \in U : ~HasPosition(acct'[v], m)
         /\ \A v \in Users \ U : acct'[v] = acct[v]
         /\ SumFunctionOnSet(ProfitOfEach(acct', m, price, scale), Users) =
              Profits(Users, m, price, scale) - Profits(U, m, price, scale)
         /\ SumFunctionOnSet(DebitOf(acct', m, price), Users) =
              Debits(Users, m, price) - Debits(U, m, price)
<1>. DEFINE p(accounts) == ProfitOfEach(accounts, m, price, scale)
            d(accounts) == DebitOf(accounts, m, price)
<1>1. GoodAccounts(acct) /\ GoodAccounts(acct')
  BY AccountsAreGood DEF Inv, GoodVault, GoodAccounts, AccountsExact, Accounts
<1>2. \A v \in Users \ U : acct'[v] = acct[v]
  BY DEF ApplySettlement, Accounts
<1>3. \A v \in U : ~HasPosition(acct'[v], m)
  <2>1. Settled(U, m, price, scale)
    BY ApplyingKeeps DEF Inv
  <2>. QED  BY <1>1, <2>1, HoldersAreIndexed DEF Settled
<1>4. ASSUME NEW v \in U PROVE p(acct')[v] = 0 /\ d(acct')[v] = 0
  <2>1. Gain(acct'[v], m, price) = 0 /\ Debit(acct'[v], m, price) = 0
    BY <1>3 DEF Gain, Debit
  <2>2. 0 * scale = 0 /\ 0 \div Ray = 0
    BY SettlementAssumption
  <2>. QED  BY <2>1, <2>2 DEF ProfitOfEach, DebitOf, Profit
<1>5. \A v \in Users \ U : p(acct')[v] = p(acct)[v] /\ d(acct')[v] = d(acct)[v]
  BY <1>2 DEF ProfitOfEach, DebitOf
<1>6. IsFiniteSet(Users) /\ Ints(p(acct), Users) /\ Ints(d(acct), Users)
  BY <1>1, TermsAreNat
<1>. HIDE DEF p, d
<1>7. SumFunctionOnSet(p(acct'), Users) =
        SumFunctionOnSet(p(acct), Users) - SumFunctionOnSet(p(acct), U)
  BY <1>4, <1>5, <1>6, SumCleared DEF ClearedOn
<1>8. SumFunctionOnSet(d(acct'), Users) =
        SumFunctionOnSet(d(acct), Users) - SumFunctionOnSet(d(acct), U)
  BY <1>4, <1>5, <1>6, SumCleared DEF ClearedOn
<1>. QED  BY <1>2, <1>3, <1>7, <1>8, TotalsAreSums DEF p, d

\* Applying a batch moves its shares from what is left to what was paid.
LEMMA ApplyBatchCovers ==
  ASSUME Inv, Inv', Covers, NEW m \in Markets, NEW n \in Nat, BatchApplySettlements(m, n)
  PROVE  Covers'
<1>. DEFINE U == BatchUsers(m, n)
            old == batch[m]
            price == old.price
            scale == old.scale
            end == BatchEnd(m, n)
            r == [old EXCEPT !.phase = "applying", !.cursor = end,
                             !.profit = @ + Profits(U, m, price, scale),
                             !.loss = @ + Debits(U, m, price)]
<1>1. /\ old \in BatchRecords /\ price \in Nat /\ scale \in Nat /\ old.cursor \in Nat
      /\ old.profit \in Nat /\ old.loss \in Nat
      /\ old.phase \in {"haircutDone", "applying"}
      /\ batch \in [Markets -> BatchRecords]
  BY BatchOf DEF BatchApplySettlements
<1>2. end \in Nat /\ U \in SUBSET Users /\ U = {traders[m][i] : i \in old.cursor + 1 .. end}
  BY BatchUsersAreUsers DEF BatchUsers
<1>3. /\ ApplySettlement(U, m, price, scale)
      /\ disturbed' = disturbed \union {k \in Markets \ {m} : Settling(k)}
      /\ UNCHANGED <<traders, settled, payout>>
  BY DEF BatchApplySettlements
<1>4. batch' = [batch EXCEPT ![m] = r]
  <2>1. batch' = [batch EXCEPT ![m].phase = "applying", ![m].cursor = end,
                               ![m].profit = @ + Profits(U, m, price, scale),
                               ![m].loss = @ + Debits(U, m, price)]
    BY DEF BatchApplySettlements
  <2>. HIDE DEF U, end, price, scale
  <2>. QED  BY <1>1, <2>1
<1>5. m \notin settled /\ settled \subseteq Markets
  BY <1>1 DEF Covers, Settling, Inv, GoodVault
<1>6. /\ batch'[m] = r /\ r.phase = "applying" /\ r.cursor = end /\ r.price = price
      /\ r.scale = scale
      /\ r.profit = old.profit + Profits(U, m, price, scale)
      /\ r.loss = old.loss + Debits(U, m, price)
  <2>1. batch'[m] = r
    BY <1>1, <1>4
  <2>. HIDE DEF U, end, old
  <2>. QED  BY <1>1, <2>1 DEF BatchRecords
<1>. HIDE DEF r
<1>7. \A k \in Markets \ {m} : batch'[k] = batch[k]
  BY <1>1, <1>4
<1>. HIDE DEF U, price, scale
<1>8. ASSUME NEW k \in Markets \ disturbed', k # m PROVE Undisturbed(k)'
  <2>1. k \notin disturbed /\ ~Settling(k)
    BY <1>3, <1>8
  <2>2. Settled(U, m, price, scale)
    BY <1>1, <1>2, <1>3, ApplyingKeeps DEF Inv
  <2>3. \A v \in Users : acct'[v].index[k] = 0 <=> acct[v].index[k] = 0
    BY <1>8, <2>2 DEF Settled
  <2>. QED  BY <1>3, <1>7, <1>8, <2>1, <2>3, OthersRest
<1>9. ASSUME m \notin disturbed PROVE Undisturbed(m)'
  <2>1. CoveredSoFar(m)
    BY <1>1, <1>9 DEF Covers, Undisturbed
  <2>2. /\ \A v \in U : ~HasPosition(acct'[v], m)
        /\ \A v \in Users \ U : acct'[v] = acct[v]
        /\ SumFunctionOnSet(ProfitOfEach(acct', m, price, scale), Users) =
             Profits(Users, m, price, scale) - Profits(U, m, price, scale)
        /\ SumFunctionOnSet(DebitOf(acct', m, price), Users) =
             Debits(Users, m, price) - Debits(U, m, price)
    BY <1>1, <1>2, <1>3, SettledTotals
  <2>3. /\ Profits(Users, m, price, scale) \in Nat /\ Profits(U, m, price, scale) \in Nat
        /\ Debits(Users, m, price) \in Nat /\ Debits(U, m, price) \in Nat
    BY <1>1, <1>2, SumsAreNat DEF Inv
  <2>4. old.profit + Profits(Users, m, price, scale) <= old.loss + Debits(Users, m, price)
    BY <2>1 DEF CoveredSoFar, price, scale
  <2>5. /\ Profits(Users, m, batch[m].price, batch[m].scale)' =
             SumFunctionOnSet(ProfitOfEach(acct', m, price, scale), Users)
        /\ Debits(Users, m, batch[m].price)' =
             SumFunctionOnSet(DebitOf(acct', m, price), Users)
    BY <1>6 DEF Profits, Debits, ProfitOfEach, DebitOf
  <2>6. r.profit + SumFunctionOnSet(ProfitOfEach(acct', m, price, scale), Users)
          <= r.loss + SumFunctionOnSet(DebitOf(acct', m, price), Users)
    BY <1>1, <1>6, <2>2, <2>3, <2>4
  <2>7. ASSUME NEW v \in Users, HasPosition(acct'[v], m)
        PROVE  \E i \in DOMAIN traders[m] : i > end /\ traders[m][i] = v
    <3>1. v \notin U /\ HasPosition(acct[v], m)
      BY <2>2, <2>7
    <3>2. PICK i \in DOMAIN traders[m] : i > old.cursor /\ traders[m][i] = v
      BY <2>1, <3>1 DEF CoveredSoFar
    <3>3. i \in Nat
      BY DEF Inv, GoodVault
    <3>4. i \notin old.cursor + 1 .. end
      BY <1>2, <3>1, <3>2
    <3>. QED  BY <1>1, <1>2, <3>2, <3>3, <3>4
  <2>8. CoveredSoFar(m)'
    BY <1>3, <1>6, <2>5, <2>6, <2>7 DEF CoveredSoFar
  <2>. QED  BY <1>3, <1>5, <1>6, <2>8 DEF Undisturbed
<1>10. \A k \in settled' : ~Settling(k)'
  BY <1>3, <1>5, <1>7 DEF Covers, Settling
<1>11. \A k \in Markets \ disturbed' : Undisturbed(k)'
  BY <1>3, <1>8, <1>9
<1>. QED  BY <1>3, <1>10, <1>11 DEF Covers

\* Settling a market at once pays the profits of its list from the debits of its
\* list, which holds everybody with a position.
LEMMA SettleMarketCovers ==
  ASSUME Inv, Inv', Covers, NEW m \in Markets, NEW price \in Nat, SettleMarket(m, price)
  PROVE  Covers'
<1>. DEFINE U == Elements(traders[m])
            scale == ScaleFor(Gains(U, m, price), Debits(U, m, price))
            profit == Profits(U, m, price, scale)
            loss == Debits(U, m, price)
<1>1. /\ m \in Markets \ settled /\ ~Settling(m)
      /\ ApplySettlement(U, m, price, scale)
      /\ settled' = settled \union {m}
      /\ payout' = [payout EXCEPT ![m] = [profit |-> profit, loss |-> loss]]
      /\ disturbed' = disturbed \union {k \in Markets \ {m} : Settling(k)}
      /\ batch' = batch
  BY DEF SettleMarket
<1>2. U \in SUBSET Users
  BY DEF Elements, Inv, GoodVault
<1>3. Gains(U, m, price) \in Nat /\ loss \in Nat
  <2>. HIDE DEF U
  <2>. QED  BY <1>2, SumsAreNat, 0 \in Nat DEF Inv
<1>4. scale \in Nat
  <2>. HIDE DEF U
  <2>. QED  BY <1>3, ScaleIsNat
<1>5. profit \in Nat
  <2>. HIDE DEF U, scale
  <2>. QED  BY <1>2, <1>4, SumsAreNat DEF Inv
<1>6. profit <= loss
  <2>. HIDE DEF U
  <2>. QED  BY <1>2, <1>3, ProfitsAreCovered DEF Inv
<1>7. batch[m].phase # "applying"
  BY <1>1 DEF Settling
<1>8. \A v \in Users : HasPosition(acct[v], m) => v \in U
  BY <1>1, <1>7, HoldersOnList DEF Elements
<1>. HIDE DEF U, scale, profit, loss
<1>9. /\ payout' \in [Markets -> [profit : Nat, loss : Nat]]
      /\ payout'[m].profit = profit /\ payout'[m].loss = loss
      /\ \A k \in Markets \ {m} : payout'[k] = payout[k]
  BY <1>1, <1>3, <1>5 DEF Covers
<1>10. ASSUME NEW k \in Markets \ disturbed', k # m PROVE Undisturbed(k)'
  <2>1. k \notin disturbed /\ ~Settling(k)
    BY <1>1, <1>10
  <2>2. Settled(U, m, price, scale)
    BY <1>1, <1>2, <1>4, ApplyingKeeps DEF Inv
  <2>3. \A v \in Users : acct'[v].index[k] = 0 <=> acct[v].index[k] = 0
    BY <1>10, <2>2 DEF Settled
  <2>. QED  BY <1>1, <1>9, <1>10, <2>1, <2>3, OthersRest
<1>11. Undisturbed(m)'
  <2>1. /\ \A v \in U : ~HasPosition(acct'[v], m)
        /\ \A v \in Users \ U : acct'[v] = acct[v]
    BY <1>1, <1>2, <1>4, SettledTotals
  <2>2. \A v \in Users : ~HasPosition(acct'[v], m)
    BY <1>8, <2>1
  <2>3. CoveredInTheEnd(m)'
    BY <1>6, <1>9, <2>2 DEF CoveredInTheEnd
  <2>. QED  BY <1>1, <2>3 DEF Undisturbed, Settling
<1>12. \A k \in settled' : ~Settling(k)'
  BY <1>1 DEF Covers, Settling
<1>13. \A k \in Markets \ disturbed' : Undisturbed(k)'
  BY <1>10, <1>11
<1>. QED  BY <1>9, <1>12, <1>13 DEF Covers

\* When the batches are through the list, nothing is left to pay.
LEMMA FinalizeBatchCovers ==
  ASSUME Inv, Inv', Covers, NEW m \in Markets, FinalizeBatchSettlement(m)
  PROVE  Covers'
<1>. DEFINE old == batch[m]
            price == old.price
            scale == old.scale
<1>1. /\ old.phase = "applying" /\ old.cursor >= Len(traders[m])
      /\ settled' = settled \union {m}
      /\ batch' = [batch EXCEPT ![m].phase = "complete"]
      /\ payout' = [payout EXCEPT ![m] = [profit |-> old.profit, loss |-> old.loss]]
      /\ traders' = [traders EXCEPT ![m] = <<>>]
      /\ UNCHANGED <<acct, disturbed>>
  BY DEF FinalizeBatchSettlement
<1>2. /\ old \in BatchRecords /\ price \in Nat /\ scale \in Nat
      /\ old.profit \in Nat /\ old.loss \in Nat /\ old.cursor \in Nat
      /\ batch \in [Markets -> BatchRecords] /\ traders \in [Markets -> Seq(Users)]
  BY BatchOf DEF Inv, GoodVault
<1>3. /\ batch'[m].phase = "complete"
      /\ \A k \in Markets \ {m} : batch'[k] = batch[k] /\ traders'[k] = traders[k]
  BY <1>1, <1>2 DEF BatchRecords
<1>4. /\ payout' \in [Markets -> [profit : Nat, loss : Nat]]
      /\ payout'[m].profit = old.profit /\ payout'[m].loss = old.loss
      /\ \A k \in Markets \ {m} : payout'[k] = payout[k]
  BY <1>1, <1>2 DEF Covers
<1>5. ASSUME m \notin disturbed PROVE CoveredInTheEnd(m)'
  <2>1. CoveredSoFar(m)
    BY <1>1, <1>5 DEF Covers, Undisturbed
  <2>2. \A i \in DOMAIN traders[m] : ~(i > old.cursor)
    BY <1>1, <1>2
  <2>3. \A v \in Users : ~HasPosition(acct[v], m)
    BY <2>1, <2>2 DEF CoveredSoFar
  <2>4. Debits(Users, m, price) = Debits({}, m, price)
    BY <1>2, <2>3, HoldersMakeTotals DEF Inv
  <2>5. Debits({}, m, price) = 0
    BY SumOfNothing DEF Debits
  <2>6. Profits(Users, m, price, scale) \in Nat
    <3>. HIDE DEF price, scale
    <3>. QED  BY <1>2, SumsAreNat DEF Inv
  <2>7. old.profit + Profits(Users, m, price, scale) <= old.loss + Debits(Users, m, price)
    BY <2>1 DEF CoveredSoFar
  <2>. HIDE DEF price, scale
  <2>8. old.profit <= old.loss
    BY <1>2, <2>4, <2>5, <2>6, <2>7
  <2>. QED  BY <1>1, <1>4, <2>3, <2>8 DEF CoveredInTheEnd
<1>6. ASSUME NEW k \in Markets \ disturbed', k # m PROVE Undisturbed(k)'
  <2>1. Undisturbed(k)
    BY <1>1, <1>6 DEF Covers
  <2>2. GoodAccounts(acct') /\ Richer(acct, acct')
    BY <1>1, NobodyLoses DEF Inv
  <2>. QED  BY <1>1, <1>3, <1>4, <1>6, <2>1, <2>2, StaysUndisturbed
<1>7. m \notin disturbed => Undisturbed(m)'
  BY <1>3, <1>5 DEF Undisturbed
<1>8. \A k \in settled' : ~Settling(k)'
  BY <1>1, <1>3 DEF Covers, Settling, Inv, GoodVault
<1>9. \A k \in Markets \ disturbed' : Undisturbed(k)'
  BY <1>1, <1>6, <1>7
<1>. QED  BY <1>4, <1>8, <1>9 DEF Covers

\* What users do leaves the totals alone, or disturbs the settlement.
LEMMA UserStepCovers ==
  ASSUME Inv, Inv', Covers, UserStep
  PROVE  Covers'
<1>1. UserNext /\ batch' = batch /\ payout' = payout
  BY DEF UserStep
<1>2. VaultKept
  BY <1>1, UserKeeps DEF Inv
<1>3. /\ settled' = settled /\ settled \subseteq Markets
      /\ \A k \in settled, v \in Users : acct'[v].index[k] = 0 <=> acct[v].index[k] = 0
  BY <1>2 DEF VaultKept, Inv, GoodVault
<1>4. GoodAccounts(acct) /\ GoodAccounts(acct')
  BY AccountsAreGood DEF Inv, GoodVault, GoodAccounts, AccountsExact, Accounts
<1>5. \A k \in settled' : ~Settling(k)'
  BY <1>1, <1>3 DEF Covers, Settling
<1>6. CASE Richer(acct, acct')
  <2>1. disturbed' = disturbed
    BY <1>6 DEF UserStep, Richer
  <2>2. UNCHANGED traders
    BY <1>1, <1>6, UserKeepsLists DEF Inv, Richer
  <2>3. ASSUME NEW k \in Markets \ disturbed' PROVE Undisturbed(k)'
    <3>1. Undisturbed(k)
      BY <2>1, <2>3 DEF Covers
    <3>. QED  BY <1>1, <1>3, <1>4, <1>6, <2>2, <2>3, <3>1, StaysUndisturbed
  <2>. QED  BY <1>1, <1>5, <2>3 DEF Covers
<1>7. CASE ~Richer(acct, acct')
  <2>1. disturbed' = disturbed \union {m \in Markets : Settling(m)}
    BY <1>7 DEF UserStep, Richer
  <2>2. ASSUME NEW k \in Markets \ disturbed' PROVE Undisturbed(k)'
    <3>1. Undisturbed(k) /\ ~Settling(k)
      BY <2>1, <2>2 DEF Covers
    <3>2. k \in settled => \A v \in Users : HasPosition(acct'[v], k) => HasPosition(acct[v], k)
      BY <1>3, <1>4, HoldersAreIndexed
    <3>. QED  BY <1>1, <1>3, <2>2, <3>1, <3>2, RestingStaysUndisturbed
  <2>. QED  BY <1>1, <1>5, <2>2 DEF Covers
<1>. QED  BY <1>6, <1>7

\* The two parts of the invariant together are inductive.
LEMMA CoversInductive == Inv /\ Covers /\ [Next]_vars /\ Inv' => Covers'
<1>. SUFFICES ASSUME Inv, Covers, [Next]_vars, Inv' PROVE Covers'
  OBVIOUS
<1>1. Expiring \subseteq Markets /\ SettlementPrices \subseteq Nat /\ BatchSizes \subseteq Nat
  BY SettlementAssumption
<1>2. CASE UNCHANGED vars
  <2>1. /\ acct' = acct /\ traders' = traders /\ batch' = batch /\ payout' = payout
        /\ settled' = settled /\ disturbed' = disturbed
    BY <1>2 DEF vars
  <2>2. GoodAccounts(acct') /\ Richer(acct, acct')
    BY <2>1, NobodyLoses DEF Inv
  <2>3. \A k \in Markets \ disturbed' : Undisturbed(k)'
    BY <2>1, <2>2, StaysUndisturbed DEF Covers
  <2>. QED  BY <2>1, <2>3 DEF Covers, Settling
<1>3. CASE UserStep
  BY <1>3, UserStepCovers
<1>4. ASSUME NEW m \in Expiring, NEW price \in SettlementPrices, SettleMarket(m, price)
      PROVE  Covers'
  BY <1>1, <1>4, SettleMarketCovers
<1>5. ASSUME NEW m \in Expiring, NEW price \in SettlementPrices, InitBatchSettlement(m, price)
      PROVE  Covers'
  BY <1>1, <1>5, InitBatchCovers
<1>6. ASSUME NEW m \in Expiring, NEW n \in BatchSizes, BatchCalculateTotals(m, n)
      PROVE  Covers'
  BY <1>1, <1>6, CalculateCovers
<1>7. ASSUME NEW m \in Expiring, FinalizeHaircutCalculation(m) PROVE Covers'
  BY <1>1, <1>7, FinalizeHaircutCovers
<1>8. ASSUME NEW m \in Expiring, NEW n \in BatchSizes, BatchApplySettlements(m, n)
      PROVE  Covers'
  BY <1>1, <1>8, ApplyBatchCovers
<1>9. ASSUME NEW m \in Expiring, FinalizeBatchSettlement(m) PROVE Covers'
  BY <1>1, <1>9, FinalizeBatchCovers
<1>. QED  BY <1>2, <1>3, <1>4, <1>5, <1>6, <1>7, <1>8, <1>9 DEF Next, SettlementNext

\* At the start nothing is settled or being settled.
LEMMA InitCovers == Init => Covers
<1>. SUFFICES ASSUME Init PROVE Covers
  OBVIOUS
<1>1. settled = {} /\ \A m \in Markets : batch[m].phase = "none"
  BY DEF Init, LedgerInit, NoBatch
<1>2. payout \in [Markets -> [profit : Nat, loss : Nat]]
  BY DEF Init
<1>. QED  BY <1>1, <1>2 DEF Covers, Undisturbed

----------------------------------------------------------------------------
(* Theorems. *)

\* Every variable keeps its range: no balance, margin or reserve goes below
\* zero.
THEOREM TypeCorrect == Spec => []TypeOK
<1>1. Inv => TypeOK
  <2>. SUFFICES ASSUME Inv PROVE TypeOK
    OBVIOUS
  <2>1. ASSUME NEW u \in Accounts
        PROVE  LET a == acct[u]
               IN /\ {a.collateral, a.credit, a.locked, a.reserved, a.socialized} \subseteq Nat
                  /\ a.pnl \in Int
                  /\ \A i \in DOMAIN a.positions :
                       a.positions[i] \in PositionRecords /\ a.positions[i].size # 0
                  /\ a.index \in [Markets -> Nat]
                  /\ a.orders \in [Orders -> Nat]
    <3>1. acct[u] \in AccountRecords
      BY DEF Inv, GoodVault
    <3>2. acct[u].positions \in Seq(Held)
      BY <3>1 DEF AccountRecords
    <3>3. \A i \in DOMAIN acct[u].positions : acct[u].positions[i] \in Held
      BY <3>2
    <3>. QED  BY <3>1, <3>3 DEF AccountRecords, Held
  <2>2. \A m \in Markets : Elements(traders[m]) \subseteq Users
    BY DEF Inv, GoodVault, Elements
  <2>3. \A m \in Markets : batch[m].phase \in Phases
    BY DEF Inv, BatchRecords
  <2>. QED  BY <2>1, <2>2, <2>3 DEF Inv, GoodVault, TypeOK
<1>. QED  BY <1>1, InvariantHolds, PTL

\* However trades open, shrink, flip and close positions, and settlements remove
\* them, the index of an account names the slot of each market's position, and
\* no market has two.
THEOREM IndexNamesSlots == Spec => []IndexIsExact
<1>1. Inv => IndexIsExact
  BY DEF Inv, GoodVault, AccountsExact, Exact, IndexIsExact, Accounts
<1>. QED  BY <1>1, InvariantHolds, PTL

\* The cached margin and the cached reserves of each account, and the vault's
\* total, are the sums of what they stand for, in every behaviour and for any
\* number of users, orders and markets.
THEOREM CachesAreSums == Spec => []MarginCachesAreExact
<1>1. Inv => MarginCachesAreExact
  BY DEF Inv, Caches, CachesExact, ReservesExact, LockedOf, MarginCachesAreExact
<1>. QED  BY <1>1, InvariantHolds, PTL

\* Until a settlement of the market is applied, its list of traders, which the
\* batches walk through, names those who hold a position there.
THEOREM ListsNameHolders == Spec => []TradersAreListed
<1>1. Inv => TradersAreListed
  <2>. SUFFICES ASSUME Inv, NEW m \in Markets \ settled, batch[m].phase # "applying",
                       NEW u \in Users
                PROVE  {i \in DOMAIN traders[m] : traders[m][i] = u} =
                         IF HasPosition(acct[u], m) THEN {traderIndex[m][u]} ELSE {}
    BY DEF TradersAreListed
  <2>1. TradersExact(traders[m], traderIndex[m]) /\ Listed(m)
    BY DEF Inv, GoodVault
  <2>2. HasPosition(acct[u], m) <=> acct[u].index[m] # 0
    BY AccountIsTyped, PositionInIsIndexed DEF Inv
  <2>3. HasPosition(acct[u], m) <=> traderIndex[m][u] # 0
    BY <2>1, <2>2 DEF Listed, HoldersListed, ListedHold
  <2>. QED  BY <2>1, <2>3 DEF TradersExact
<1>. QED  BY <1>1, InvariantHolds, PTL

\* A settlement that nobody disturbs pays winners no more than it took from
\* losers, rounding included, and leaves no position in the market: at once or in
\* batches of any sizes, and whatever was deposited or reserved meanwhile.
THEOREM SettlementPaysFromLosses == Spec => []SettlementIsCovered
<1>1. Inv /\ Covers => SettlementIsCovered
  <2>. SUFFICES ASSUME Inv, Covers, NEW m \in settled \ disturbed PROVE CoveredInTheEnd(m)
    BY DEF SettlementIsCovered, CoveredInTheEnd
  <2>. QED  BY DEF Inv, GoodVault, Covers, Undisturbed
<1>2. Spec => []Inv
  BY InvariantHolds
<1>3. Spec /\ []Inv => []Covers
  BY InitCovers, CoversInductive, PTL DEF Spec
<1>. QED  BY <1>1, <1>2, <1>3, PTL
=============================================================================
