----------------------------- MODULE VaultLedger -----------------------------
(***************************************************************************)
(* The accounts of Dexetrav5/src/CoreVault.sol: what users own, the        *)
(* margin their positions lock and their orders reserve, with the cached   *)
(* totals that every check reads, and the list of the users with a         *)
(* position in each market, which settlement walks.                        *)
(*                                                                         *)
(* The order book calls it with the matches of an order                    *)
(* (obExecuteTradeBatch).  There is one fee rate for makers and takers and *)
(* one recipient; there is no gas fee.                                     *)
(***************************************************************************)
EXTENDS Positions, FiniteSets, Functions

CONSTANTS
  Users,
  InitialCredit, \* deposited before
  Orders,        \* reservation ids
  FeeRecipient,  \* an account that does not trade
  FeeBps,        \* of the notional, for maker and taker
  Fills,         \* of a market: sequences of [size, price], what an order is matched with
  Amounts,       \* of deposits, withdrawals, top-ups and reservations
  MaxOps,        \* bound: trades and other operations of users
  MaxOthers      \* bound: the other operations among them

FillRecords == [size : Nat \ {0}, price : Nat \ {0}]

ASSUME VaultAssumption ==
  /\ IsFiniteSet(Users) /\ IsFiniteSet(Orders)
  /\ FeeRecipient \notin Users
  /\ InitialCredit \in Nat
  /\ FeeBps \in Nat /\ MaxOps \in Nat /\ MaxOthers \in Nat
  /\ DOMAIN Fills = Markets
  /\ \A m \in Markets : Fills[m] \subseteq Seq(FillRecords) \ {<<>>}
  /\ Amounts \subseteq Nat \ {0}

VARIABLES
  acct,         \* by account, see NewAccount
  totalLocked,  \* totalMarginLocked
  traders,      \* marketPositionUsers
  traderIndex,  \* marketPositionUserIndex
  badDebt,      \* marketBadDebt
  settled,      \* the markets with marketSettled
  net,          \* history: deposits less withdrawals
  ops           \* number of trades and of other operations of users

Accounts == Users \union {FeeRecipient}

ledgerVars == <<acct, totalLocked, traders, traderIndex, badDebt>>

NewAccount ==
  [collateral |-> 0, credit |-> InitialCredit, pnl |-> 0, positions |-> <<>>,
   index |-> [m \in Markets |-> 0], locked |-> 0,
   orders |-> [o \in Orders |-> 0], reserved |-> 0, socialized |-> 0]

LedgerInit ==
  /\ acct = [u \in Accounts |->
              IF u \in Users THEN NewAccount ELSE [NewAccount EXCEPT !.credit = 0]]
  /\ totalLocked = 0
  /\ traders = [m \in Markets |-> <<>>]
  /\ traderIndex = [m \in Markets |-> [u \in Users |-> 0]]
  /\ badDebt = [m \in Markets |-> 0]
  /\ settled = {}
  /\ net = InitialCredit * Cardinality(Users)
  /\ ops = [trades |-> 0, others |-> 0]

UserOp(kind) ==
  /\ kind = "others" => ops.others < MaxOthers
  /\ ops' = [ops EXCEPT ![kind] = @ + 1]

----------------------------------------------------------------------------
(* One account. *)

\* Subtraction that stops at 0, as the code updates its caches.
Less(n, d) == IF n >= d THEN n - d ELSE 0

\* Only a profit counts as money.
ProfitOf(a) == IF a.pnl > 0 THEN ToMoney(a.pnl) ELSE 0

Funds(a) == a.collateral + a.credit + ProfitOf(a)

Available(a) == Less(Funds(a), a.locked + a.reserved)

PositionOf(a, m) ==
  LET i == Slot(a.positions, a.index, m)
  IN IF i = 0 THEN [size |-> 0, entry |-> 0] ELSE a.positions[i]

\* What the cached total of an account's locked margin stands for.
PositionMargins(positions) == SumFunction([i \in DOMAIN positions |-> positions[i].margin])

\* From credit first.
PayFromFunds(a, amount) ==
  LET fromCredit == Lesser(amount, a.credit)
  IN [a EXCEPT !.credit = @ - fromCredit, !.collateral = @ - (amount - fromCredit)]

\* A realised loss is taken from credit and collateral as far as they go.
UncoveredLoss(a, loss) == Less(loss, a.credit + a.collateral)

BookRealized(a, realized) ==
  LET loss == IF realized < 0 THEN -ToMoney(realized) ELSE 0
  IN [PayFromFunds(a, loss - UncoveredLoss(a, loss)) EXCEPT !.pnl = @ + realized]

\* Mutant: released margin stays in the cache.
LockMarginOnly(locked, n) == locked + Less(n.newMargin, n.oldMargin)

\* The user's cached total of locked margin.
LockMargin(locked, n) ==
  Less(locked + Less(n.newMargin, n.oldMargin), Less(n.oldMargin, n.newMargin))

NettingOf(a, pos, m, delta, price) ==
  Netting(a.positions, a.index, m, delta, price,
          RequiredMargin(pos.size, pos.entry, delta, price))

\* A haircut is paid from the profit of the trade, as far as it goes.
NetRealized(n) ==
  IF n.realized > 0
  THEN n.realized - Lesser(n.confiscated, ToMoney(n.realized)) * Unit
  ELSE n.realized

\* The account after updatePositionWithMargin, and the bad debt it records.
AfterLeg(a, n) ==
  [BookRealized(a, NetRealized(n)) EXCEPT
     !.positions = n.positions, !.index = n.index, !.locked = LockMargin(a.locked, n),
     !.socialized = Less(@, n.confiscated)]

LegBadDebt(a, n) ==
  IF n.realized < 0 THEN UncoveredLoss(a, -ToMoney(n.realized)) ELSE 0

----------------------------------------------------------------------------
(* The users with a position in a market: an array and an index into it. *)

AddTrader(list, index, u) ==
  IF index[u] # 0 THEN <<list, index>>
  ELSE <<Append(list, u), [index EXCEPT ![u] = Len(list) + 1]>>

\* Mutant: the index of the user moved into the gap is not updated.
RemoveTraderOnly(list, index, u) ==
  LET i == index[u]
      last == list[Len(list)]
  IN IF i = 0 THEN <<list, index>>
     ELSE <<SubSeq([list EXCEPT ![i] = last], 1, Len(list) - 1),
            [index EXCEPT ![u] = 0]>>

RemoveTrader(list, index, u) ==
  LET i == index[u]
      last == list[Len(list)]
  IN IF i = 0 THEN <<list, index>>
     ELSE <<SubSeq([list EXCEPT ![i] = last], 1, Len(list) - 1),
            [index EXCEPT ![last] = i, ![u] = 0]>>

TrackTrader(list, index, u, n) ==
  IF n.closed THEN RemoveTrader(list, index, u)
  ELSE IF n.opened THEN AddTrader(list, index, u)
  ELSE <<list, index>>

----------------------------------------------------------------------------
(* Operations. *)

CreditExternal(u, amount) ==
  /\ UserOp("others")
  /\ acct' = [acct EXCEPT ![u].credit = @ + amount]
  /\ net' = net + amount
  /\ UNCHANGED <<totalLocked, traders, traderIndex, badDebt, settled>>

\* From realised profit, then from credit; locked margin is not looked at.
DebitExternal(u, amount) ==
  LET a == acct[u]
      fromPnL == Lesser(amount, ProfitOf(a))
  IN /\ UserOp("others")
     /\ a.credit >= amount - fromPnL
     /\ acct' = [acct EXCEPT ![u].pnl = @ - fromPnL * Unit,
                             ![u].credit = @ - (amount - fromPnL)]
     /\ net' = net - amount
     /\ UNCHANGED <<totalLocked, traders, traderIndex, badDebt, settled>>

\* deductFees as the order book calls it: a fee that cannot be paid is dropped.
DeductFees(accounts, u, amount) ==
  LET a == accounts[u]
      fromPnL == Lesser(amount, ProfitOf(a))
      rest == amount - fromPnL
      fromCredit == Lesser(rest, a.credit)
      payer == [PayFromFunds(a, rest) EXCEPT !.pnl = @ - fromPnL * Unit]
  IN IF amount = 0 \/ a.credit + a.collateral < rest THEN accounts
     ELSE [accounts EXCEPT ![u] = payer,
                           ![FeeRecipient].credit = @ + fromCredit,
                           ![FeeRecipient].collateral = @ + (amount - fromCredit)]

\* What a trade of market m changes; ok is FALSE once a check has failed.
LedgerOf(m) ==
  [acct |-> acct, list |-> traders[m], index |-> traderIndex[m],
   locked |-> totalLocked, badDebt |-> badDebt[m], ok |-> TRUE]

\* Fee, solvency check and position update of one side.  Margin was checked when
\* the order was placed; it is not checked again, although a withdrawal may have
\* taken it since.
Leg(ledger, m, u, delta, price, fee) ==
  LET accounts == DeductFees(ledger.acct, u, fee)
      a == accounts[u]
      pos == PositionOf(a, m)
      n == NettingOf(a, pos, m, delta, price)
      tracked == TrackTrader(ledger.list, ledger.index, u, n)
  IN [acct |-> [accounts EXCEPT ![u] = AfterLeg(a, n)],
      list |-> tracked[1], index |-> tracked[2],
      locked |-> ledger.locked + (n.newMargin - n.oldMargin),
      badDebt |-> ledger.badDebt + LegBadDebt(a, n),
      ok |-> ledger.ok /\ PreTradeSolvent(pos.size, pos.entry, delta, price)]

\* In a trade the update of the position is in a try block: it would fail if it
\* made the total negative (a liquidation can leave too little there), and then
\* only the fee stays.
Tried(after, before, u, fee) ==
  IF after.locked >= 0 THEN after
  ELSE [before EXCEPT !.acct = DeductFees(@, u, fee), !.ok = after.ok]

TriedLeg(ledger, m, u, delta, price, fee) ==
  Tried(Leg(ledger, m, u, delta, price, fee), ledger, u, fee)

FeeOf(fill) == (Notional(fill.size, fill.price) * FeeBps) \div Bps

\* What the loop of obExecuteTradeBatch adds to a trade, [ledger, size, notional,
\* fee]: the leg of a maker, and the totals for the leg of the taker.
AfterFill(trade, m, side, fill, maker) ==
  [ledger |-> TriedLeg(trade.ledger, m, maker, -side * fill.size, fill.price, FeeOf(fill)),
   size |-> trade.size + fill.size,
   notional |-> trade.notional + Notional(fill.size, fill.price),
   fee |-> trade.fee + FeeOf(fill)]

AfterFills(m, side, fills, makers) ==
  LET trade[i \in 0 .. Len(fills)] ==
        IF i = 0 THEN [ledger |-> LedgerOf(m), size |-> 0, notional |-> 0, fee |-> 0]
        ELSE AfterFill(trade[i - 1], m, side, fills[i], makers[i])
  IN trade[Len(fills)]

\* The taker once, at the average price, rounded down.
AfterTaker(trade, m, side, taker) ==
  TriedLeg(trade.ledger, m, taker, side * trade.size,
           (trade.notional * Unit) \div trade.size, trade.fee)

\* obExecuteTradeBatch.  side is 1 for a taker who buys.  Fills come in the order
\* of the book, never with the taker's own orders, and a check that fails reverts
\* the whole order.
TradeBatch(m, taker, side, fills, makers) ==
  LET after == AfterTaker(AfterFills(m, side, fills, makers), m, side, taker)
  IN /\ UserOp("trades")
     /\ m \notin settled
     /\ after.ok
     /\ acct' = after.acct
     /\ totalLocked' = after.locked
     /\ traders' = [traders EXCEPT ![m] = after.list]
     /\ traderIndex' = [traderIndex EXCEPT ![m] = after.index]
     /\ badDebt' = [badDebt EXCEPT ![m] = after.badDebt]
     /\ UNCHANGED <<settled, net>>

InBookOrder(fills, side) ==
  \A i, j \in DOMAIN fills : i < j => side * fills[i].price <= side * fills[j].price

TopUpPositionMargin(u, m, amount) ==
  LET a == acct[u]
  IN /\ UserOp("others")
     /\ Available(a) >= amount
     /\ a.index[m] # 0
     /\ acct' = [acct EXCEPT ![u].positions[a.index[m]].margin = @ + amount,
                             ![u].locked = @ + amount]
     /\ totalLocked' = totalLocked + amount
     /\ UNCHANGED <<traders, traderIndex, badDebt, settled, net>>

ReserveMargin(u, o, amount) ==
  /\ UserOp("others")
  /\ Available(acct[u]) >= amount
  /\ acct[u].orders[o] = 0
  /\ acct' = [acct EXCEPT ![u].orders[o] = amount, ![u].reserved = @ + amount]
  /\ UNCHANGED <<totalLocked, traders, traderIndex, badDebt, settled, net>>

UnreserveMargin(u, o) ==
  /\ acct[u].orders[o] # 0
  /\ acct' = [acct EXCEPT ![u].orders[o] = 0,
                          ![u].reserved = Less(@, acct[u].orders[o])]
  /\ UNCHANGED <<totalLocked, traders, traderIndex, badDebt, settled, net, ops>>

\* After a partial fill the order reserves less; more needs free margin.
ReleaseExcessMargin(u, o, amount) ==
  LET current == acct[u].orders[o]
  IN /\ current # 0
     /\ amount # current
     /\ amount > current => Available(acct[u]) >= amount - current
     /\ acct' = [acct EXCEPT ![u].orders[o] = amount,
          ![u].reserved = IF amount > current \/ @ >= current - amount
                          THEN @ + amount - current ELSE @]
     /\ UNCHANGED <<totalLocked, traders, traderIndex, badDebt, settled, net, ops>>

UserNext ==
  \/ /\ ops.trades + ops.others < MaxOps
     /\ \/ \E u \in Users, amount \in Amounts : CreditExternal(u, amount)
        \/ \E u \in Users, amount \in Amounts : DebitExternal(u, amount)
        \/ \E m \in Markets, taker \in Users, side \in {1, -1} :
              \E fills \in {f \in Fills[m] : InBookOrder(f, side)} :
              \E makers \in [DOMAIN fills -> Users \ {taker}] :
                 TradeBatch(m, taker, side, fills, makers)
        \/ \E u \in Users, m \in Markets, amount \in Amounts :
              TopUpPositionMargin(u, m, amount)
        \/ \E u \in Users, o \in Orders, amount \in Amounts : ReserveMargin(u, o, amount)
  \/ \E u \in Users, o \in Orders : UnreserveMargin(u, o)
  \/ \E u \in Users, o \in Orders : \E amount \in 1 .. acct[u].orders[o] + 1 :
       ReleaseExcessMargin(u, o, amount)
=============================================================================
