---------------------------- MODULE PriorityBook ----------------------------
(***************************************************************************)
(* What the order book promises, without its linked lists: two queues of   *)
(* resting orders in price-time priority.  An incoming order takes from    *)
(* the front of the other queue, at most MaxMatches orders, never its own  *)
(* trader's (those are cancelled on the way), and what a limit order has   *)
(* left queues up behind the orders of its price.                          *)
(*                                                                         *)
(* The operators take and return both queues, so that Next can say that    *)
(* the new ones are an outcome of the old ones.                            *)
(***************************************************************************)
EXTENDS Integers, Sequences, Functions

CONSTANTS
  Traders,
  Prices,
  Amounts,     \* the sizes an order is placed with
  MaxMatches   \* fills of one incoming order at most

VARIABLES
  queue,   \* the resting orders of each side, the best one first
  lastId   \* the orders that came in are numbered

Sides == {"buy", "sell"}

Other(side) == IF side = "buy" THEN "sell" ELSE "buy"

\* On one side of the book, price p is served before price q.
Ahead(side, p, q) == IF side = "buy" THEN p > q ELSE p < q

\* An order of the side with this limit accepts to trade at price p.
Accepts(side, limit, p) == p = limit \/ Ahead(Other(side), p, limit)

\* An incoming order, of which s.left is left, meets the order o of the queue.
Meet(s, o, trader, side, limit) ==
  LET fill == IF s.left < o.amount THEN s.left ELSE o.amount
  IN IF s.left = 0 \/ s.fills = MaxMatches \/ ~Accepts(side, limit, o.price)
     THEN [s EXCEPT !.kept = Append(@, o)]
     ELSE IF o.trader = trader THEN s
     ELSE [kept  |-> IF fill = o.amount THEN s.kept
                     ELSE Append(s.kept, [o EXCEPT !.amount = @ - fill]),
           left  |-> s.left - fill,
           fills |-> s.fills + 1]

\* The orders kept of the queue, the amount left and the fills made.
Take(orders, trader, side, limit, amount) ==
  LET Met[i \in 0 .. Len(orders)] ==
        IF i = 0 THEN [kept |-> <<>>, left |-> amount, fills |-> 0]
        ELSE Meet(Met[i - 1], orders[i], trader, side, limit)
  IN Met[Len(orders)]

\* The orders of the queue that are in S.
Only(orders, S) ==
  LET Chosen[i \in 0 .. Len(orders)] ==
        IF i = 0 THEN <<>>
        ELSE IF orders[i] \in S THEN Append(Chosen[i - 1], orders[i]) ELSE Chosen[i - 1]
  IN Chosen[Len(orders)]

\* Behind the orders of its price, before those of worse prices.
Enqueue(orders, side, o) ==
  LET worse == {r \in Range(orders) : Ahead(side, o.price, r.price)}
  IN Only(orders, Range(orders) \ worse) \o <<o>> \o Only(orders, worse)

Ids(q) == UNION {{o.id : o \in Range(q[side])} : side \in Sides}

Cancelled(q, ids) ==
  [side \in Sides |-> Only(q[side], {o \in Range(q[side]) : o.id \notin ids})]

\* The queues after an order came in; rest tells limit orders from market
\* orders, which leave nothing in the book.
Placed(q, id, trader, side, limit, amount, rest) ==
  LET taken == Take(q[Other(side)], trader, side, limit, amount)
      o == [id |-> id, trader |-> trader, price |-> limit, amount |-> taken.left]
  IN [q EXCEPT ![Other(side)] = taken.kept,
               ![side] = IF rest /\ taken.left > 0 THEN Enqueue(@, side, o) ELSE @]

Init == queue = [side \in Sides |-> <<>>] /\ lastId = 0

\* Orders are cancelled, or one order comes in, perhaps in the place of an
\* older order of its trader on the same side.
Next ==
  LET old == queue
      new == queue'
  IN \/ /\ lastId' = lastId
        /\ \E ids \in SUBSET Ids(old) : new = Cancelled(old, ids)
     \/ /\ lastId' = lastId + 1
        /\ \E side \in Sides, limit \in Prices, amount \in Amounts :
             \/ \E trader \in Traders, rest \in BOOLEAN :
                  new = Placed(old, lastId', trader, side, limit, amount, rest)
             \/ \E o \in Range(old[side]) :
                  new = Placed(Cancelled(old, {o.id}), lastId', o.trader, side,
                               limit, amount, TRUE)

Spec == Init /\ [][Next]_<<queue, lastId>>
=============================================================================
