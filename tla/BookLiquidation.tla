-------------------------- MODULE BookLiquidation --------------------------
(***************************************************************************)
(* OBLiquidationFacet.sol crosses the same book as OrderBook with code of  *)
(* its own, written before levels were linked: it finds the next level in  *)
(* the arrays of prices, which nothing fills any more, keeps no pointers   *)
(* back and no indexes, and leaves an emptied level in the list of prices. *)
(***************************************************************************)
EXTENDS OrderBook, Sequences

\* _removeOrderFromLevel of the liquidation facet.
UnlinkLiquidated(b, id) ==
  LET o == b.orders[id]
      level == b.levels[o.side][o.price]
      total == Minus(level.total, o.amount)
      isFirst == level.first = id
      Before[x \in 0 .. MaxOrders] ==
        IF b.orders[x].next = id THEN x ELSE Before[b.orders[x].next]
      prev == Before[level.first]
      relinked == IF isFirst
                  THEN [level EXCEPT !.total = total, !.first = o.next,
                                     !.last = IF @ = id THEN 0 ELSE @]
                  ELSE [level EXCEPT !.total = total, !.last = IF @ = id THEN prev ELSE @]
      b2 == [b EXCEPT !.levels[o.side][o.price] = IF total = 0 THEN NoLevel ELSE relinked]
  IN IF isFirst THEN b2 ELSE [b2 EXCEPT !.orders[prev].next = o.next]

\* _removeOrderFromUserList of the liquidation facet: by search, the indexes
\* stay as they are.
UnlistLiquidated(b, t, id) ==
  LET list == b.listed[t]
      at == CHOOSE i \in DOMAIN list : list[i] = id
      moved == [list EXCEPT ![at] = list[Len(list)]]
  IN IF \E i \in DOMAIN list : list[i] = id
     THEN [b EXCEPT !.listed[t] = SubSeq(moved, 1, Len(list) - 1)] ELSE b

FillLiquidated(b, id, amount) ==
  LET left == b.orders[id].amount - amount
      b2 == TakeFromLevel(b, id, amount)
      gone == UnlinkLiquidated([b2 EXCEPT !.orders[id].amount = 0], id)
  IN IF left > 0 THEN Resize(b2, id, left)
     ELSE [UnlistLiquidated(gone, b.orders[id].trader, id)
             EXCEPT !.reserved[id] = 0, !.orders[id] = NoOrder]

\* _matchBuyOrder and _matchSellOrder of the liquidation facet: there is
\* never a next level.
SweepBest(b, side, limit, amount) ==
  LET maker == Other(side)
      price == b.best[maker]
      chain == Chain(b, b.levels[maker][price].first)
      Meeting(m, id) ==
        LET fill == Min2(m.left, m.book.orders[id].amount) IN
        IF m.left = 0 THEN m
        ELSE [book |-> FillLiquidated(m.book, id, fill), left |-> m.left - fill]
      Met[i \in 0 .. MaxOrders] ==
        IF i = 0 THEN [book |-> b, left |-> amount] ELSE Meeting(Met[i - 1], chain[i])
      met == Met[Len(chain)]
  IN IF ~Accepts(side, limit, price) \/ ~LevelExists(b, maker, price)
     THEN [book |-> b, left |-> amount]
     ELSE IF LevelExists(met.book, maker, price) THEN met
     ELSE [met EXCEPT !.book.best[maker] = 0]

\* _executeLiquidationMarketOrder: within the slippage, and at any price if
\* that fills nothing.
Liquidate(side, limit, amount) ==
  LET best == book.best[Other(side)]
      swept == SweepBest(book, side, limit, amount)
  IN /\ ~settled
     /\ best # 0
     /\ Commit(IF swept.left = amount THEN SweepBest(book, side, best, amount).book
                                      ELSE swept.book)
     /\ UNCHANGED settled

NextWithLiquidation ==
  \/ Next
  \/ \E side \in Sides, limit \in Prices, amount \in Amounts : Liquidate(side, limit, amount)

SpecWithLiquidation == Init /\ [][NextWithLiquidation]_vars

----------------------------------------------------------------------------
(* Properties. *)

\* An open market with resting orders on a side has a best price for it, if
\* need be after the repair every order starts with: market orders are not
\* turned away while there is somebody to trade with.
LiquidityIsFound ==
  ~settled => \A side \in Sides :
    (\E id \in Resting(book) : book.orders[id].side = side)
      => Refresh(book, side).best[side] # 0
=============================================================================
