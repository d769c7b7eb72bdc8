---------------------------- MODULE Liquidations ----------------------------
(***************************************************************************)
(* Dexetrav5/src/LiquidationManager.sol with OBLiquidationFacet.sol: the   *)
(* order book closes a position that has too little equity against resting *)
(* orders, the vault seizes its margin, makers share the penalty, and the  *)
(* loss that is left becomes a haircut of winners or bad debt.             *)
(*                                                                         *)
(* One liquidation is one transaction.  It fills orders of one price level *)
(* only (BookLiquidation shows why), of other traders than its target.  A  *)
(* scan of many traders is several liquidations.  The mark price is        *)
(* whatever the pricing facet says.  Flag and anchor price do not outlive  *)
(* the transaction, and the stored liquidation price is a function of the  *)
(* position (LiquidationPrice), so none of them is a variable.             *)
(***************************************************************************)
EXTENDS BatchSettlement

CONSTANTS
  Known,            \* allKnownUsers: a sequence of all users
  Marks,            \* mark prices
  Forced,           \* sequences of [size, price]: what a liquidation is matched with
  MaintenanceBps,   \* baseMmrBps + penaltyMmrBps, capped
  MaxCandidates,    \* adlMaxCandidates
  MaxLiquidations   \* bound

ASSUME LiquidationAssumption ==
  /\ Known \in Seq(Users)
  /\ Elements(Known) = Users /\ Len(Known) = Cardinality(Users)
  /\ Marks \subseteq Nat \ {0}
  /\ MaintenanceBps \in Nat /\ MaxCandidates \in Nat \ {0} /\ MaxLiquidations \in Nat
  /\ Forced \subseteq Seq(FillRecords) \ {<<>>}
  /\ \A fills \in Forced : \A i \in DOMAIN fills : fills[i].price = fills[1].price

VARIABLES
  sharers,   \* marketUsers: the candidates for a haircut
  pool,      \* collateral and credit of each market's order book
  unpaid,    \* history: trading losses of liquidated positions less what was paid
  count      \* number of liquidations

liqVars == <<sharers, pool, unpaid, count>>

LiqInit ==
  /\ Init
  /\ sharers = [m \in Markets |-> <<>>]
  /\ pool = [m \in Markets |-> [collateral |-> 0, credit |-> 0]]
  /\ unpaid = [m \in Markets |-> 0]
  /\ count = 0

LiquidationPenaltyBps == 1000

----------------------------------------------------------------------------
(* When a position may be liquidated. *)

EquityAt(pos, mark) == pos.margin + ToMoney((mark - pos.entry) * pos.size)

MaintenanceAt(pos, mark) == (Notional(pos.size, mark) * MaintenanceBps) \div Bps

\* Of a short; the one of a long is always stored as 0, and its equity decides.
LiquidationPrice(pos) ==
  ((pos.entry + (pos.margin * Unit) \div Abs(pos.size)) * Bps) \div (Bps + MaintenanceBps)

IsLiquidatable(pos, mark) ==
  IF pos.size < 0 /\ LiquidationPrice(pos) # 0 THEN mark + 1 >= LiquidationPrice(pos)
  ELSE EquityAt(pos, mark) <= MaintenanceAt(pos, mark) + 1

----------------------------------------------------------------------------
(* Socialising a loss.  The state x of a liquidation is [ledger (LedgerOf), *)
(* sharers, pool, unpaid], of its market.                                   *)

\* The elements of s that are in W, in the order of s.
Among(s, W) ==
  LET kept[k \in 0 .. Len(s)] ==
        IF k = 0 THEN <<>>
        ELSE IF s[k] \in W THEN Append(kept[k - 1], s[k]) ELSE kept[k - 1]
  IN kept[Len(s)]

Holders(accounts, m) == {v \in Users : HasPosition(accounts[v], m)}

\* marketUsers is filled when it is empty, and not updated any more.
Sharers(x, m) ==
  IF x.sharers # <<>> THEN x.sharers ELSE Among(Known, Holders(x.ledger.acct, m))

Score(pos, mark) == (mark - pos.entry) * pos.size * Abs(pos.size)

\* Where the highest score is among s[k], s[k + 1], ..., the first of equals.
BestFrom(s, k, score) ==
  CHOOSE i \in k .. Len(s) : \A j \in k .. Len(s) :
    score[s[i]] > score[s[j]] \/ (score[s[i]] = score[s[j]] /\ i <= j)

\* Selection sort, highest scores first.
Ranked(won, score) ==
  LET sorted[k \in 0 .. Len(won)] ==
        IF k = 0 THEN won
        ELSE LET s == sorted[k - 1]
                 best == BestFrom(s, k, score)
             IN [s EXCEPT ![k] = s[best], ![best] = s[k]]
  IN sorted[Len(won)]

\* The winners with the highest scores.
Winners(x, m, target, mark) ==
  LET score == [v \in Holders(x.ledger.acct, m) |->
                  Score(PositionIn(x.ledger.acct[v], m), mark)]
      won == Among(Sharers(x, m), {v \in DOMAIN score \ {target} : score[v] > 0})
  IN SubSeq(Ranked(won, score), 1, Lesser(Len(won), MaxCandidates))

\* What is wanted of winner i, as far as its capacity goes.  s is [shares, left].
Take(s, i, wanted, capacity) ==
  LET n == Lesser(Lesser(wanted, s.left), capacity - s.shares[i])
  IN [shares |-> [s.shares EXCEPT ![i] = @ + n], left |-> s.left - n]

\* Everybody in turn; of winner i wanted[i] is wanted, but no more than is left.
Pass(start, wanted, capacities) ==
  LET passed[i \in 0 .. Len(capacities)] ==
        IF i = 0 THEN start ELSE Take(passed[i - 1], i, wanted[i], capacities[i])
  IN passed[Len(capacities)]

FirstPass(loss, notionals, all, capacities) ==
  Pass([shares |-> [i \in DOMAIN notionals |-> 0], left |-> loss],
       [i \in DOMAIN notionals |-> (loss * notionals[i]) \div all], capacities)

SecondPass(start, capacities) ==
  Pass(start, [i \in DOMAIN capacities |-> start.left], capacities)

\* Mutant: the second pass forgets what the first one has assigned.
AssignTwice(loss, notionals, capacities) ==
  SecondPass([FirstPass(loss, notionals, SumFunction(notionals), capacities)
                EXCEPT !.left = loss], capacities).shares

\* _allocateHaircutsOptimized: in proportion to the notionals as far as the
\* capacities go, then the rest to whoever has capacity left, in order.
Assign(loss, notionals, capacities) ==
  SecondPass(FirstPass(loss, notionals, SumFunction(notionals), capacities), capacities).shares

Haircut(a, m, amount) ==
  LET i == CHOOSE i \in Slots(a.positions, m) : TRUE
  IN IF amount = 0 THEN a
     ELSE [a EXCEPT !.positions[i].haircut = @ + amount,
                    !.positions[i].units = Abs(a.positions[i].size),
                    !.socialized = @ + amount]

\* A winner can take what its equity exceeds the maintenance margin by.
Capacity(pos, mark) == Less(EquityAt(pos, mark), MaintenanceAt(pos, mark))

WithHaircuts(accounts, m, winners, shares) ==
  LET cut[i \in 0 .. Len(winners)] ==
        IF i = 0 THEN accounts
        ELSE [cut[i - 1] EXCEPT ![winners[i]] = Haircut(@, m, shares[i])]
  IN cut[Len(winners)]

ShareOut(x, m, loss, winners, shares) ==
  [x EXCEPT
     !.ledger.acct = WithHaircuts(@, m, winners, shares),
     !.ledger.badDebt = @ + Less(loss, SumFunction(shares)),
     !.sharers = Sharers(x, m)]

Apportion(x, m, loss, winners, mark) ==
  LET held == [i \in DOMAIN winners |-> PositionIn(x.ledger.acct[winners[i]], m)]
      notionals == [i \in DOMAIN winners |-> Notional(held[i].size, mark)]
  IN ShareOut(x, m, loss, winners,
       IF \A i \in DOMAIN winners : notionals[i] = 0 THEN notionals
       ELSE Assign(loss, notionals, [i \in DOMAIN winners |-> Capacity(held[i], mark)]))

\* _socializeLoss: what no winner can take is bad debt.
Socialize(x, m, loss, target, mark) ==
  IF loss = 0 THEN x ELSE Apportion(x, m, loss, Winners(x, m, target, mark), mark)

----------------------------------------------------------------------------
(* The leg of the liquidated trader: updatePositionWithLiquidation. *)

LossAt(pos, n, price) ==
  ((IF pos.size > 0 THEN Less(pos.entry, price) ELSE Less(price, pos.entry)) * n) \div Unit

PenaltyOn(n, price) == (Notional(n, price) * LiquidationPenaltyBps) \div Bps

\* The position after n of it are closed: its margin is set anew, at its entry
\* price and without looking at the market's margin requirement.
Reduced(pos, n) ==
  LET size == IF pos.size > 0 THEN pos.size - n ELSE pos.size + n
  IN [pos EXCEPT !.size = size,
                 !.margin = (Notional(size, pos.entry)
                               * (IF size >= 0 THEN Bps ELSE ShortMarginBps)) \div Bps]

\* The margin the closed part gives up, as far as there is money.
Seized(a, pos, n, price) ==
  Lesser(LossAt(pos, n, price) + PenaltyOn(n, price),
         Lesser(Less(pos.margin, Reduced(pos, n).margin), Balance(a)))

\* Mutant: the penalty goes to the makers whether or not it was seized.
PenaltyUnseized(a, pos, n, price) == PenaltyOn(n, price)

\* What is seized covers the trading loss first.
PenaltyPaid(a, pos, n, price) ==
  Lesser(PenaltyOn(n, price),
         Seized(a, pos, n, price) - Lesser(LossAt(pos, n, price), Seized(a, pos, n, price)))

\* A realised loss is recorded up to the margin of the part closed.
RealizedLiquidating(pos, n, price) ==
  LET raw == (price - pos.entry) * (IF pos.size > 0 THEN n ELSE -n)
      most == ((pos.margin * n) \div Abs(pos.size)) * Unit
  IN IF raw < -most THEN -most ELSE raw

\* Mutant: the index of a closed position is not cleared.
LiquidatedKeepingIndex(a, m, n, price) ==
  LET i == CHOOSE i \in Slots(a.positions, m) : TRUE
      pos == a.positions[i]
  IN [PayFromFunds(a, Seized(a, pos, n, price)) EXCEPT
        !.positions = IF n = Abs(pos.size) THEN RemoveSlot(@, i)
                      ELSE [@ EXCEPT ![i] = Reduced(pos, n)],
        !.pnl = @ + RealizedLiquidating(pos, n, price)]

\* The account after the leg.  The cached total of its margins is not touched.
Liquidated(a, m, n, price) ==
  LET i == CHOOSE i \in Slots(a.positions, m) : TRUE
      pos == a.positions[i]
      closes == n = Abs(pos.size)
  IN [PayFromFunds(a, Seized(a, pos, n, price)) EXCEPT
        !.positions = IF closes THEN RemoveSlot(@, i) ELSE [@ EXCEPT ![i] = Reduced(pos, n)],
        !.index = IF closes THEN ReindexAfterRemoval(a.positions, @, i, i, m) ELSE @,
        !.pnl = @ + RealizedLiquidating(pos, n, price)]

\* The part of an uncovered loss that may be socialised: what the loss at the
\* anchor price would have left.  A full close has deleted the anchor before.
Allowed(pos, n, price, anchor, seized) ==
  LET fair == IF pos.size > 0 THEN (IF price > anchor THEN price ELSE anchor)
                              ELSE Lesser(price, anchor)
      uncovered == Less(LossAt(pos, n, price), seized)
  IN IF n = Abs(pos.size) THEN uncovered
     ELSE Lesser(uncovered, Less(LossAt(pos, n, fair), Lesser(LossAt(pos, n, price), seized)))

LiquidationLeg(x, m, u, n, price, anchor, mark) ==
  LET a == x.ledger.acct[u]
      pos == PositionIn(a, m)
      released == IF n = Abs(pos.size) THEN pos.margin ELSE Less(pos.margin, Reduced(pos, n).margin)
      loss == LossAt(pos, n, price)
      seized == Seized(a, pos, n, price)
      penalty == PenaltyPaid(a, pos, n, price)
      fromCredit == Lesser(Less(Lesser(seized, a.credit), Lesser(loss, seized)), penalty)
      debt == Less(loss, seized) - Allowed(pos, n, price, anchor, seized)
  IN Socialize([x EXCEPT
       !.ledger.acct[u] = Liquidated(a, m, n, price),
       !.ledger.locked = IF released <= @ THEN @ - released ELSE @,
       !.ledger.badDebt = @ + debt,
       !.pool.credit = @ + fromCredit,
       !.pool.collateral = @ + (penalty - fromCredit),
       !.unpaid = @ + Less(loss, seized)],
       m, Allowed(pos, n, price, anchor, seized), u, mark)

----------------------------------------------------------------------------
(* A liquidation. *)

\* payMakerLiquidationReward.
PayMaker(x, v, amount) ==
  LET fromCredit == Lesser(amount, x.pool.credit)
  IN [x EXCEPT !.pool.credit = @ - fromCredit,
               !.pool.collateral = @ - (amount - fromCredit),
               !.ledger.acct[v].credit = @ + fromCredit,
               !.ledger.acct[v].collateral = @ + (amount - fromCredit)]

SizesOf(fills) == [i \in DOMAIN fills |-> fills[i].size]

\* The reward of one maker, for all its fills.
ShareOf(v, reward, makers, fills) ==
  (reward * SumFunctionOnSet(SizesOf(fills), {i \in DOMAIN fills : makers[i] = v}))
    \div SumFunction(SizesOf(fills))

PoolOf(x) == x.pool.collateral + x.pool.credit

RewardShares(x, reward, makers, fills) ==
  LET paid[i \in 0 .. Len(fills)] ==
        IF i = 0 THEN x
        ELSE IF \E j \in 1 .. i - 1 : makers[j] = makers[i] THEN paid[i - 1]
        ELSE PayMaker(paid[i - 1], makers[i], ShareOf(makers[i], reward, makers, fills))
  IN paid[Len(fills)]

RewardFirst(x, makers) == PayMaker(x, makers[1], PoolOf(x))

\* Mutant: what rounding leaves stays with the order book.
RewardSharesOnly(x, makers, fills) == RewardShares(x, PoolOf(x), makers, fills)

\* Mutant: a maker is rewarded for all its fills at each of them.
RewardEachFill(x, makers, fills) ==
  LET paid[i \in 0 .. Len(fills)] ==
        IF i = 0 THEN x
        ELSE PayMaker(paid[i - 1], makers[i], ShareOf(makers[i], PoolOf(x), makers, fills))
  IN paid[Len(fills)]

\* _distributeLiquidationRewards: all the order book has, in proportion to what
\* each maker gave, the rest to the first.  All fills have one price.
Reward(x, makers, fills) ==
  RewardFirst(RewardShares(x, PoolOf(x), makers, fills), makers)

\* The maker's leg; a release of more margin than the total reverts the whole
\* liquidation (the total stays negative then, which LiquidateDirect refuses).
TakenOver(x, m, maker, side, fill) ==
  [x EXCEPT !.ledger =
     IF @.locked < 0 THEN @
     ELSE Leg(@, m, maker, side * fill.size, fill.price, FeeOf(fill))]

\* One fill: the leg of the liquidated trader, then the leg of the maker.
AfterForced(x, m, u, side, fill, maker, anchor, mark) ==
  TakenOver(LiquidationLeg(x, m, u, fill.size, fill.price, anchor, mark), m, maker, side, fill)

SideOf(pos) == IF pos.size > 0 THEN 1 ELSE -1

StartOf(m) ==
  [ledger |-> LedgerOf(m), sharers |-> sharers[m], pool |-> pool[m], unpaid |-> unpaid[m]]

AfterAllForced(m, u, fills, makers, mark, then) ==
  LET filled[i \in 0 .. Len(fills)] ==
        IF i = 0 THEN StartOf(m)
        ELSE AfterForced(filled[i - 1], m, u, SideOf(PositionIn(acct[u], m)), fills[i],
                         makers[i], mark, IF i = 1 THEN mark ELSE then)
  IN filled[Len(fills)]

\* liquidateDirect.  mark is the price at the start, which becomes the anchor;
\* then is the mark price once the first order has been filled.  Each maker
\* pays the fee and gets the position, as in any trade but without the check of
\* solvency.
LiquidateDirect(u, m, fills, makers, mark, then) ==
  LET after == Reward(AfterAllForced(m, u, fills, makers, mark, then), makers, fills)
  IN /\ count < MaxLiquidations
     /\ HasPosition(acct[u], m)
     /\ IsLiquidatable(PositionIn(acct[u], m), mark)
     /\ SumFunction(SizesOf(fills)) <= Abs(PositionIn(acct[u], m).size)
     /\ after.ledger.locked >= 0
     /\ acct' = after.ledger.acct
     /\ totalLocked' = after.ledger.locked
     /\ traders' = [traders EXCEPT ![m] = after.ledger.list]
     /\ traderIndex' = [traderIndex EXCEPT ![m] = after.ledger.index]
     /\ badDebt' = [badDebt EXCEPT ![m] = after.ledger.badDebt]
     /\ sharers' = [sharers EXCEPT ![m] = after.sharers]
     /\ pool' = [pool EXCEPT ![m] = after.pool]
     /\ unpaid' = [unpaid EXCEPT ![m] = after.unpaid]
     /\ count' = count + 1
     /\ disturbed' = disturbed \union {k \in Markets : Settling(k)}
     /\ UNCHANGED <<settled, net, ops, batch, payout>>

LiqNext ==
  \/ \E u \in Users, m \in Markets, fills \in Forced, mark \in Marks :
     \E makers \in [DOMAIN fills -> Users \ {u}],
        then \in IF Len(fills) = 1 THEN {mark} ELSE Marks :
        LiquidateDirect(u, m, fills, makers, mark, then)
  \/ UserStep /\ UNCHANGED liqVars
  \/ \E m \in Expiring, price \in SettlementPrices : SettleMarket(m, price) /\ UNCHANGED liqVars

LiqSpec == LiqInit /\ [][LiqNext]_<<vars, liqVars>>

----------------------------------------------------------------------------
(* Properties. *)

\* Every variable has its type; in particular no pool is overdrawn.
LiqTypeOK ==
  /\ TypeOK
  /\ \A m \in Markets : /\ Elements(sharers[m]) \subseteq Users
                        /\ pool[m] \in [collateral : Nat, credit : Nat]
                        /\ unpaid[m] \in Nat
  /\ count \in 0 .. MaxLiquidations

\* Whatever liquidations leave on it, the list that a settlement walks names
\* every user with a position, exactly once, where its index says.
HoldersAreListed ==
  \A m \in Markets \ settled, u \in Users :
    /\ HasPosition(acct[u], m) => traderIndex[m][u] # 0
    /\ {i \in DOMAIN traders[m] : traders[m][i] = u} =
         IF traderIndex[m][u] = 0 THEN {} ELSE {traderIndex[m][u]}

\* The penalty is seized for the makers: when a liquidation is over the order
\* book keeps nothing of it, and its next makers are not paid for the last ones.
PenaltiesArePaidOut == \A m \in Markets : pool[m] = [collateral |-> 0, credit |-> 0]

HaircutIn(a, m) == IF HasPosition(a, m) THEN PositionIn(a, m).haircut ELSE 0

HaircutsOn(accounts, m, U) ==
  SumFunctionOnSet([u \in Users |-> HaircutIn(accounts[u], m)], U)

SizeIn(a, m) == IF HasPosition(a, m) THEN PositionIn(a, m).size ELSE 0

\* The users whose position a step closes or reduces.
Shrinking(m) ==
  {u \in Users : Closes(SizeIn(acct[u], m), SizeIn(acct'[u], m) - SizeIn(acct[u], m))}

\* Dexetrav5/docs/liquidation/SYSTEM_SUMMARY.md, "Critical Invariants": what a liquidated
\* trader does not pay of the loss is found in haircuts of the others and in bad
\* debt, no more and no less.  (A maker who closes a position confuses the sum.)
UncoveredLossIsShared ==
  [][count' # count => \A m \in Markets : Cardinality(Shrinking(m)) = 1 =>
       unpaid'[m] - unpaid[m] =
         (HaircutsOn(acct', m, Users \ Shrinking(m)) - HaircutsOn(acct, m, Users \ Shrinking(m)))
         + (badDebt'[m] - badDebt[m])]_<<vars, liqVars>>

\* What makers are rewarded with was taken from the liquidated trader: without
\* fees, a liquidation pays out no more money than it seizes.
RewardsAreSeized ==
  [][count' # count =>
       SumFunctionOnSet([u \in Accounts |-> Balance(acct'[u])], Accounts)
         <= SumFunctionOnSet([u \in Accounts |-> Balance(acct[u])], Accounts)]_<<vars, liqVars>>
=============================================================================
