----------------------------- MODULE OrderBook -----------------------------
(***************************************************************************)
(* The order book of one market: OBOrderPlacementFacet.sol with            *)
(* OrderBookMatchingLib.sol, and what settlement and its clean-up do to    *)
(* the book.  Each side is a sorted, doubly linked list of price levels,   *)
(* each level a doubly linked list of orders, oldest first; the best       *)
(* prices are cached, and each trader has an indexed list of orders.       *)
(* PriorityBook is the promise.                                            *)
(*                                                                         *)
(* Every order is a margin order (all entry points pass true).  What a     *)
(* fill does to positions is VaultLedger's subject; a revert of the trade  *)
(* or of a reservation undoes the whole call, so it is no step.            *)
(***************************************************************************)
EXTENDS Integers, FiniteSets, Sequences, Functions

CONSTANTS
  Traders,
  NULL,         \* the zero address
  SidesOf,      \* the sides each trader places orders on
  Prices,
  Amounts,
  MaxMatches,   \* MAX_MATCHES_PER_ORDER, 50 in the code
  BuyMargin,    \* margin per unit of notional, in half units: 2 is 100 %
  MaxOrders     \* bound: ids ever given

ASSUME BookAssumption ==
  /\ Prices \subseteq Nat \ {0} /\ IsFiniteSet(Prices) /\ Amounts \subseteq Nat \ {0}
  /\ MaxMatches \in Nat \ {0} /\ BuyMargin \in Nat \ {0} /\ MaxOrders \in Nat
  /\ NULL \notin Traders
  /\ SidesOf \in [Traders -> SUBSET {"buy", "sell"}]

VARIABLES
  book,    \* the storage of the diamond, see Storage
  settled  \* CoreVault.marketSettled

vars == <<book, settled>>

Sides == {"buy", "sell"}
Ids == 1 .. MaxOrders
Prices0 == Prices \cup {0}

Other(side) == IF side = "buy" THEN "sell" ELSE "buy"
Ahead(side, p, q) == IF side = "buy" THEN p > q ELSE p < q
Accepts(side, limit, p) == p = limit \/ Ahead(Other(side), p, limit)

Min2(a, b) == IF a < b THEN a ELSE b
Minus(a, b) == IF a > b THEN a - b ELSE 0

NoOrder == [trader |-> NULL, side |-> "buy", price |-> 0, amount |-> 0,
            margin |-> 0, next |-> 0, prev |-> 0]
NoLevel == [total |-> 0, first |-> 0, last |-> 0, exists |-> FALSE]

Orders == [trader: Traders \cup {NULL}, side: Sides, price: Prices0, amount: Nat,
           margin: Nat, next: 0 .. MaxOrders, prev: 0 .. MaxOrders]
Levels == [total: Nat, first: 0 .. MaxOrders, last: 0 .. MaxOrders, exists: BOOLEAN]

Storage ==
  [orders: [0 .. MaxOrders -> Orders],
   levels: [Sides -> [Prices -> Levels]],
   next: [Sides -> [Prices -> Prices0]],  \* buyPriceNext, sellPriceNext
   prev: [Sides -> [Prices -> Prices0]],
   head: [Sides -> Prices0],              \* buyPriceHead, sellPriceHead
   best: [Sides -> Prices0],              \* bestBid, bestAsk
   listed: [Traders -> Seq(Ids)],         \* userOrders
   index: [Traders -> [Ids -> Nat]],      \* userOrderIndex, 0 is absent
   reserved: [Ids -> Nat],                \* margin reserved in the vault
   nextId: 1 .. MaxOrders + 1,
   ok: BOOLEAN]                           \* FALSE while a call is to revert

Init ==
  /\ book = [orders |-> [id \in 0 .. MaxOrders |-> NoOrder],
             levels |-> [side \in Sides |-> [p \in Prices |-> NoLevel]],
             next |-> [side \in Sides |-> [p \in Prices |-> 0]],
             prev |-> [side \in Sides |-> [p \in Prices |-> 0]],
             head |-> [side \in Sides |-> 0],
             best |-> [side \in Sides |-> 0],
             listed |-> [t \in Traders |-> <<>>],
             index |-> [t \in Traders |-> [id \in Ids |-> 0]],
             reserved |-> [id \in Ids |-> 0],
             nextId |-> 1,
             ok |-> TRUE]
  /\ settled = FALSE

----------------------------------------------------------------------------
(* The list of price levels.  The arrays buyPrices and sellPrices, which    *)
(* several loops fall back to, are never filled any more: they are empty.   *)

LevelExists(b, side, p) == b.levels[side][p].exists

\* The first live level from p on, following the pointers.
LiveFrom(b, side, p) ==
  LET Live[q \in Prices0] ==
        IF q = 0 THEN 0
        ELSE IF LevelExists(b, side, q) THEN q ELSE Live[b.next[side][q]]
  IN Live[p]

\* Every price reached from p.
Linked(b, side, p) ==
  LET From[q \in Prices0] == IF q = 0 THEN <<>> ELSE <<q>> \o From[b.next[side][q]]
  IN From[p]

\* The one of some prices that is served first.
Foremost(side, ps) == CHOOSE p \in ps : \A q \in ps : p = q \/ Ahead(side, p, q)

FindNewBest(b, side) == LiveFrom(b, side, b.head[side])

\* getNextSellPrice and getPrevBuyPrice.
NextPrice(b, side, p) ==
  LET live == LiveFrom(b, side, b.next[side][p])
      rest == {q \in Range(Linked(b, side, b.head[side])) :
                 LevelExists(b, side, q) /\ Ahead(side, p, q)}
  IN IF live # 0 THEN live
     ELSE IF rest = {} THEN 0
     ELSE Foremost(side, rest)

InsertPrice(b, side, p) ==
  LET head == b.head[side]
      After[q \in Prices] ==   \* the listed price to insert p after
        IF b.next[side][q] = 0 \/ ~Ahead(side, b.next[side][q], p)
        THEN q ELSE After[b.next[side][q]]
      at == After[head]
      then == b.next[side][at]
  IN IF head = 0 THEN [b EXCEPT !.head[side] = p]
     ELSE IF Ahead(side, p, head)
     THEN [b EXCEPT !.next[side][p] = head, !.prev[side][head] = p, !.head[side] = p]
     ELSE [b EXCEPT !.next[side] = [@ EXCEPT ![at] = p, ![p] = then],
                    !.prev[side] = [q \in Prices |-> IF q = p THEN at
                                                     ELSE IF q = then THEN p ELSE @[q]]]

\* Mutant: the list is relinked in one direction only.
RemovePriceForward(b, side, p) ==
  LET before == b.prev[side][p]
      after == b.next[side][p]
  IN [b EXCEPT !.next[side] = [q \in Prices |-> IF q = p THEN 0
                                                ELSE IF q = before THEN after ELSE @[q]],
               !.prev[side][p] = 0,
               !.head[side] = IF before = 0 THEN after ELSE @]

RemovePrice(b, side, p) ==
  LET before == b.prev[side][p]
      after == b.next[side][p]
  IN [b EXCEPT !.next[side] = [q \in Prices |-> IF q = p THEN 0
                                                ELSE IF q = before THEN after ELSE @[q]],
               !.prev[side] = [q \in Prices |-> IF q = p THEN 0
                                                ELSE IF q = after THEN before ELSE @[q]],
               !.head[side] = IF before = 0 THEN after ELSE @]

----------------------------------------------------------------------------
(* The orders of a level and of a trader. *)

\* The ids from id on, following the pointers.
Chain(b, id) ==
  LET From[x \in 0 .. MaxOrders] == IF x = 0 THEN <<>> ELSE <<x>> \o From[b.orders[x].next]
  IN From[id]

\* The order before id on its level.  An order without a predecessor that is
\* not the first one is looked for from the first one.
Predecessor(b, id) ==
  LET o == b.orders[id]
      first == b.levels[o.side][o.price].first
      Before[x \in 0 .. MaxOrders] ==
        IF x = 0 \/ b.orders[x].next = id THEN x ELSE Before[b.orders[x].next]
  IN IF o.prev = 0 /\ first # id THEN Before[first] ELSE o.prev

\* removeOrderFromLevel.
UnlinkOrder(b, id) ==
  LET o == b.orders[id]
      level == b.levels[o.side][o.price]
      total == Minus(level.total, o.amount)
      prev == Predecessor(b, id)
      relinked == [total |-> total,
                   first |-> IF prev = 0 THEN o.next ELSE level.first,
                   last |-> IF o.next = 0 THEN prev ELSE level.last,
                   exists |-> level.exists]
  IN [b EXCEPT
        !.orders = [x \in DOMAIN b.orders |->
           [b.orders[x] EXCEPT
              !.next = IF x = id THEN 0 ELSE IF x = prev /\ x # 0 THEN o.next ELSE @,
              !.prev = IF x = id THEN 0 ELSE IF x = o.next /\ x # 0 THEN prev ELSE @]],
        !.levels[o.side][o.price] = IF total = 0 THEN NoLevel ELSE relinked]

\* An empty level leaves the list of prices.
DropIfEmpty(b, side, p) ==
  IF b.levels[side][p].total = 0 THEN RemovePrice(b, side, p) ELSE b

\* _removeOrderFromLevel.
RemoveFromLevel(b, id) ==
  DropIfEmpty(UnlinkOrder(b, id), b.orders[id].side, b.orders[id].price)

ReplaceBest(b, side, p) ==
  IF p = b.best[side] /\ ~LevelExists(b, side, p)
  THEN [b EXCEPT !.best[side] = FindNewBest(b, side)] ELSE b

\* _removeFromBuyBook and _removeFromSellBook.
RemoveFromBook(b, id) ==
  ReplaceBest(RemoveFromLevel(b, id), b.orders[id].side, b.orders[id].price)

ImproveBest(b, side, p) ==
  IF b.best[side] = 0 \/ Ahead(side, p, b.best[side])
  THEN [b EXCEPT !.best[side] = p] ELSE b

\* _addToBuyBook and _addToSellBook.
AddToBook(b, id) ==
  LET o == b.orders[id]
      side == o.side
      price == o.price
      level == b.levels[side][price]
      fresh == [total |-> o.amount, first |-> id, last |-> id, exists |-> TRUE]
      b2 == IF ~level.exists
            THEN InsertPrice([b EXCEPT !.levels[side][price] = fresh], side, price)
            ELSE [b EXCEPT !.orders[level.last].next = id, !.orders[id].prev = level.last,
                           !.levels[side][price].last = id,
                           !.levels[side][price].total = @ + o.amount]
  IN ImproveBest(b2, side, price)

ListOrder(b, t, id) ==
  [b EXCEPT !.listed[t] = Append(@, id), !.index[t][id] = Len(b.listed[t]) + 1]

\* Mutant: the index of the entry that was moved is not updated.
UnlistForgettingMoved(b, t, id) ==
  LET at == b.index[t][id]
      last == Len(b.listed[t])
  IN IF at = 0 \/ at > last THEN b
     ELSE [b EXCEPT !.listed[t] = SubSeq([@ EXCEPT ![at] = b.listed[t][last]], 1, last - 1),
                    !.index[t][id] = 0]

\* removeOrderFromUserList: the last entry takes the place of the removed
\* one.  An index beyond the list makes the call revert.
UnlistOrder(b, t, id) ==
  LET at == b.index[t][id]
      last == Len(b.listed[t])
      moved == IF last = 0 THEN 0 ELSE b.listed[t][last]
  IN IF at = 0 THEN b
     ELSE IF at > last THEN [b EXCEPT !.ok = FALSE]
     ELSE [b EXCEPT !.listed[t] = SubSeq([@ EXCEPT ![at] = moved], 1, last - 1),
                    !.index[t] = [[@ EXCEPT ![moved] = at] EXCEPT ![id] = 0]]

MarginRequired(amount, price, side) ==
  amount * price * (IF side = "buy" THEN BuyMargin ELSE 3)

\* unreserveMargin, the order leaves the list of its trader and is deleted.
DeleteOrder(b, id) ==
  LET b2 == UnlistOrder([b EXCEPT !.reserved[id] = 0], b.orders[id].trader, id)
  IN [b2 EXCEPT !.orders[id] = NoOrder]

\* Mutant: what the order needs less is not given back.
ResizeOrderOnly(b, id, amount) ==
  LET margin == MarginRequired(amount, b.orders[id].price, b.orders[id].side) IN
  [b EXCEPT !.orders[id].amount = amount, !.orders[id].margin = margin]

\* releaseExcessMargin sets the reservation to what the order still needs.
Resize(b, id, amount) ==
  LET margin == MarginRequired(amount, b.orders[id].price, b.orders[id].side) IN
  [b EXCEPT !.orders[id].amount = amount, !.orders[id].margin = margin, !.reserved[id] = margin]

----------------------------------------------------------------------------
(* Matching: _matchBuyOrder and _matchSellOrder.                            *)

\* _refreshBestAsk and _refreshBestBid: a best price of 0 is set to the head
\* of the list, if that is a live level.
Refresh(b, side) ==
  LET head == b.head[side] IN
  IF b.best[side] = 0 /\ head # 0 /\ LevelExists(b, side, head)
     /\ b.levels[side][head].total > 0 /\ b.levels[side][head].first # 0
  THEN [b EXCEPT !.best[side] = head] ELSE b

TakeFromLevel(b, id, amount) == [b EXCEPT
  !.levels[b.orders[id].side][b.orders[id].price].total = Minus(@, amount)]

\* The resting order is the taker's own: it is cancelled, not matched.
CancelOwn(b, id) ==
  DeleteOrder(RemoveFromLevel(TakeFromLevel(b, id, b.orders[id].amount), id), id)

\* Mutant: a filled order is taken off its level with its old amount, which
\* the level has lost already.
FillTwice(b, id, amount) ==
  LET left == b.orders[id].amount - amount
      b2 == TakeFromLevel(b, id, amount)
  IN IF left = 0 THEN DeleteOrder(RemoveFromLevel(b2, id), id) ELSE Resize(b2, id, left)

Fill(b, id, amount) ==
  LET left == b.orders[id].amount - amount
      b2 == TakeFromLevel(b, id, amount)
  IN IF left = 0 THEN DeleteOrder(RemoveFromLevel([b2 EXCEPT !.orders[id].amount = 0], id), id)
     ELSE Resize(b2, id, left)

\* Mutant: the resting order gives all the taker wants, as often as it wants.
MeetUnbounded(m, id, trader) ==
  IF m.left = 0 THEN m
  ELSE IF m.book.orders[id].trader = trader THEN [m EXCEPT !.book = CancelOwn(@, id)]
  ELSE [m EXCEPT !.book = Fill(@, id, m.left), !.left = 0, !.fills = @ + 1]

\* Mutant: the number of fills is not limited.
MeetWithoutLimit(m, id, trader) ==
  LET fill == Min2(m.left, m.book.orders[id].amount) IN
  IF m.left = 0 THEN m
  ELSE IF m.book.orders[id].trader = trader THEN [m EXCEPT !.book = CancelOwn(@, id)]
  ELSE [m EXCEPT !.book = Fill(@, id, fill), !.left = @ - fill, !.fills = @ + 1]

\* One turn of the inner loop; the state of the matching is
\* [book, price (the level), left (of the taker), fills].
Meet(m, id, trader) ==
  LET fill == Min2(m.left, m.book.orders[id].amount) IN
  IF m.left = 0 \/ m.fills = MaxMatches THEN m
  ELSE IF m.book.orders[id].trader = trader THEN [m EXCEPT !.book = CancelOwn(@, id)]
  ELSE [m EXCEPT !.book = Fill(@, id, fill), !.left = @ - fill, !.fills = @ + 1]

\* The inner loop.
MeetAll(m, chain, trader) ==
  LET met[i \in 0 .. Len(chain)] == IF i = 0 THEN m ELSE Meet(met[i - 1], chain[i], trader)
  IN met[Len(chain)]

\* Mutant: the pointer is read after the level has been unlinked.
NextLevelUncached(before, after, maker, price) == after.next[maker][price]

\* The pointer to the next level is read before the inner loop can unlink
\* this one; only without one the list is searched.
NextLevel(before, after, maker, price) ==
  LET cached == before.next[maker][price]
  IN IF cached # 0 THEN cached ELSE NextPrice(after, maker, price)

\* met is the state when the orders of the level have been met, then the
\* price to go on with.
LeaveLevel(met, maker, then) ==
  [met EXCEPT !.price = then,
              !.book.best[maker] = IF @ = met.price /\ ~LevelExists(met.book, maker, met.price)
                                   THEN then ELSE @]

\* One turn of the outer loop.
VisitLevel(m, trader, side, limit) ==
  LET maker == Other(side)
      chain == Chain(m.book, m.book.levels[maker][m.price].first)
      met == MeetAll(m, chain, trader)
  IN IF m.left = 0 \/ m.price = 0 \/ ~Accepts(side, limit, m.price) THEN m
     ELSE IF ~LevelExists(m.book, maker, m.price)
     THEN [m EXCEPT !.price = NextPrice(m.book, maker, m.price)]
     ELSE LeaveLevel(met, maker, NextLevel(m.book, met.book, maker, m.price))

\* No level is visited twice, except once more when it is found dead.
Match(b, trader, side, limit, amount) ==
  LET b2 == Refresh(b, Other(side))
      start == [book |-> b2, price |-> b2.best[Other(side)], left |-> amount, fills |-> 0]
      n == 2 * Cardinality(Prices)
      visited[i \in 0 .. n] ==
        IF i = 0 THEN start ELSE VisitLevel(visited[i - 1], trader, side, limit)
  IN visited[n]

\* What is left of order o rests; of a filled order nothing stays reserved.
Rest(b, id, o) ==
  LET margin == MarginRequired(o.amount, o.price, o.side)
      rested == [b EXCEPT !.orders[id] = [o EXCEPT !.margin = margin], !.reserved[id] = margin]
  IN IF o.amount > 0 THEN AddToBook(ListOrder(rested, o.trader, id), id)
     ELSE [b EXCEPT !.reserved[id] = 0]

RestAfter(m, id, o) == Rest(m.book, id, [o EXCEPT !.amount = m.left])

\* _placeLimitOrder, which gives the order the next id.
PlaceLimitOrder(b, trader, side, price, amount) ==
  RestAfter(Match([b EXCEPT !.nextId = @ + 1,
                            !.reserved[b.nextId] = MarginRequired(amount, price, side)],
                  trader, side, price, amount),
            b.nextId,
            [NoOrder EXCEPT !.trader = trader, !.side = side, !.price = price])

CancelOrderIn(b, id) == DeleteOrder(RemoveFromBook(b, id), id)

----------------------------------------------------------------------------
(* The calls. *)

\* A call that has reverted leaves no trace.
Commit(b) == book' = b /\ book'.ok

Resting(b) == {id \in Ids : b.orders[id].trader # NULL}

\* marketActive; the challenge window is a matter of MarketLifecycle.
MarketActive == ~settled /\ book.nextId <= MaxOrders

PlaceMarginLimitOrder(t, side, price, amount) ==
  /\ MarketActive
  /\ Commit(PlaceLimitOrder(book, t, side, price, amount))
  /\ UNCHANGED settled

\* The limit of a market order follows from the best price and the slippage
\* the caller allows; what is left is dropped.
PlaceMarginMarketOrder(t, side, limit, amount) ==
  LET b == Refresh(book, Other(side)) IN
  /\ MarketActive
  /\ b.best[Other(side)] # 0
  /\ Accepts(side, limit, b.best[Other(side)])
  /\ Commit(Match([b EXCEPT !.nextId = @ + 1], t, side, limit, amount).book)
  /\ UNCHANGED settled

\* cancelOrder by the trader, adminCancelOrder by the owner.
CancelOrder(id) ==
  /\ id \in Resting(book)
  /\ Commit(CancelOrderIn(book, id))
  /\ UNCHANGED settled

ModifyOrder(id, price, amount) ==
  /\ MarketActive
  /\ id \in Resting(book)
  /\ Commit(PlaceLimitOrder(CancelOrderIn(book, id), book.orders[id].trader,
                            book.orders[id].side, price, amount))
  /\ UNCHANGED settled

\* The orders of a level, then those of all levels of a side.
CancelChain(b, chain) ==
  LET cancelled[i \in 0 .. Len(chain)] ==
        IF i = 0 THEN b ELSE CancelOrderIn(cancelled[i - 1], chain[i])
  IN cancelled[Len(chain)]

CancelSide(b, side) ==
  LET prices == Linked(b, side, b.head[side])
      cancelled[i \in 0 .. Len(prices)] ==
        IF i = 0 THEN b
        ELSE IF LevelExists(b, side, prices[i])
        THEN CancelChain(cancelled[i - 1], Chain(b, b.levels[side][prices[i]].first))
        ELSE cancelled[i - 1]
  IN cancelled[Len(prices)]

AdminCancelAllRestingOrders ==
  /\ Resting(book) # {}
  /\ Commit(CancelSide(CancelSide(book, "buy"), "sell"))
  /\ UNCHANGED settled

\* OBSettlementFacet.settleMarket walks the arrays of prices, which are
\* empty, and forgets the best prices.
SettleMarket ==
  /\ ~settled
  /\ book' = [book EXCEPT !.best = [side \in Sides |-> 0]]
  /\ settled' = TRUE

\* cleanupSettledMarket: the heads and the best prices, not the levels.
CleanupSettledMarket ==
  /\ settled
  /\ book' = [book EXCEPT !.best = [side \in Sides |-> 0], !.head = [side \in Sides |-> 0]]
  /\ UNCHANGED settled

Next ==
  \/ \E t \in Traders : \E side \in SidesOf[t] : \E price \in Prices, amount \in Amounts :
       \/ PlaceMarginLimitOrder(t, side, price, amount)
       \/ PlaceMarginMarketOrder(t, side, price, amount)
  \/ \E id \in Ids :
       \/ CancelOrder(id)
       \/ \E price \in Prices, amount \in Amounts : ModifyOrder(id, price, amount)
  \/ AdminCancelAllRestingOrders
  \/ SettleMarket
  \/ CleanupSettledMarket

Spec == Init /\ [][Next]_vars

----------------------------------------------------------------------------
(* Properties. *)

\* Every field has the range the storage layout gives it, and no call that
\* must revert has been committed.
TypeOK == book \in Storage /\ book.ok /\ settled \in BOOLEAN

Live(b, side) == {p \in Prices : LevelExists(b, side, p)}

\* The queue of one side: level by level, each along its pointers.
QueueOf(b, side) ==
  LET From[ps \in SUBSET Prices] ==
        IF ps = {} THEN <<>>
        ELSE LET p == Foremost(side, ps)
             IN Chain(b, b.levels[side][p].first) \o From[ps \ {p}]
      ids == From[Live(b, side)]
  IN [i \in DOMAIN ids |-> [id |-> ids[i], trader |-> b.orders[ids[i]].trader,
                            price |-> b.orders[ids[i]].price, amount |-> b.orders[ids[i]].amount]]

Promise == INSTANCE PriorityBook WITH
  lastId <- book.nextId - 1, queue <- [side \in Sides |-> QueueOf(book, side)]

\* Matching, cancelling and modifying over linked lists, cached pointers and
\* cached best prices treat the orders as two queues in price-time priority.
ImplementsPriorityBook == Promise!Spec

\* A level lists exactly the resting orders of its price, once each, with
\* its pointers inverse to each other, and its total is their sum.
LevelsAreExact ==
  \A side \in Sides, p \in Prices :
    LET level == book.levels[side][p]
        ids == {id \in Resting(book) :
                  book.orders[id].side = side /\ book.orders[id].price = p}
        chain == Chain(book, level.first)
    IN /\ Range(chain) = ids /\ IsInjective(chain)
       /\ level.exists = (ids # {})
       /\ level.total = SumFunctionOnSet([id \in Ids |-> book.orders[id].amount], ids)
       /\ level.last = IF chain = <<>> THEN 0 ELSE chain[Len(chain)]
       /\ \A i \in DOMAIN chain :
            book.orders[chain[i]].prev = IF i = 1 THEN 0 ELSE chain[i - 1]

\* While the market is open the list of prices holds exactly the live levels,
\* sorted both ways, and the cached best price is the first of them.
PricesAreLinked ==
  ~settled => \A side \in Sides :
    LET list == Linked(book, side, book.head[side]) IN
    /\ Range(list) = Live(book, side)
    /\ \A i, j \in DOMAIN list : i < j => Ahead(side, list[i], list[j])
    /\ \A i \in DOMAIN list : book.prev[side][list[i]] = IF i = 1 THEN 0 ELSE list[i - 1]
    /\ book.best[side] = IF list = <<>> THEN 0 ELSE list[1]

\* The list of a trader holds exactly the trader's resting orders, and the
\* index, by which orders are removed, gives the place of each.
UserListsAreExact ==
  \A t \in Traders :
    LET list == book.listed[t] IN
    /\ Range(list) = {id \in Resting(book) : book.orders[id].trader = t}
    /\ \A id \in Ids : IF id \in Range(list)
                       THEN book.index[t][id] \in DOMAIN list /\ list[book.index[t][id]] = id
                       ELSE book.index[t][id] = 0
    /\ IsInjective(list)

\* Margin is reserved for the resting orders, for what is left of each, and
\* for nothing else: also after fills, modifications and the settlement.
ReservationsMatchOrders ==
  \A id \in Ids :
    LET o == book.orders[id] IN
    book.reserved[id] = IF id \in Resting(book) THEN MarginRequired(o.amount, o.price, o.side) ELSE 0

Crossed(b) ==
  \E i, j \in Resting(b) :
    /\ b.orders[i].side = "buy" /\ b.orders[j].side = "sell"
    /\ b.orders[i].trader # b.orders[j].trader
    /\ b.orders[i].price >= b.orders[j].price

\* Buyers and sellers who would trade rest in the book side by side only
\* after an order that used up its matches.
CrossedOnlyByTheLimit ==
  [][Crossed(book') /\ ~Crossed(book)
       => Cardinality({id \in Resting(book) : book'.orders[id].amount < book.orders[id].amount})
            >= MaxMatches]_vars
=============================================================================
