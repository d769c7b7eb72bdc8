--------------------------- MODULE BatchSettlement ---------------------------
(***************************************************************************)
(* Dexetrav5/src/SettlementManager.sol: a market is settled at a price in  *)
(* one transaction, or in batches by anybody who calls the next phase,     *)
(* while the accounts of VaultLedger go on.  Winners are paid what losers  *)
(* can pay, pro rata.                                                      *)
(*                                                                         *)
(* When a market may be settled (the guards of the settlement facets) is   *)
(* the subject of MarketLifecycle: here it may be at any time.             *)
(***************************************************************************)
EXTENDS VaultLedger

CONSTANTS
  Ray,         \* the scale of the haircut, 1e18 in the code
  BatchSizes,
  SettlementPrices,
  Expiring     \* bound: the markets that are settled

ASSUME SettlementAssumption ==
  /\ Ray \in Nat \ {0} /\ BatchSizes \subseteq Nat \ {0}
  /\ SettlementPrices \subseteq Nat \ {0}
  /\ Expiring \subseteq Markets

VARIABLES
  batch,      \* BatchState of each market
  payout,     \* [profit, loss] of the event VaultMarketSettled
  disturbed   \* history: the markets whose batch settlement was interleaved
              \* with an operation on an account it depends on

vars == <<acct, totalLocked, traders, traderIndex, badDebt, settled, net, ops,
          batch, payout, disturbed>>

Phases == {"none", "calculating", "haircutDone", "applying", "complete"}

NoBatch == [phase |-> "none", price |-> 0, cursor |-> 0, liabilities |-> 0,
            capacity |-> 0, scale |-> 0, profit |-> 0, loss |-> 0]

Init ==
  /\ LedgerInit
  /\ batch = [m \in Markets |-> NoBatch]
  /\ payout = [m \in Markets |-> [profit |-> 0, loss |-> 0]]
  /\ disturbed = {}

Settling(m) == batch[m].phase \in {"calculating", "haircutDone", "applying"}

----------------------------------------------------------------------------
(* One user. *)

HasPosition(a, m) == Slots(a.positions, m) # {}

PositionIn(a, m) == a.positions[CHOOSE i \in Slots(a.positions, m) : TRUE]

Delta(a, m, price) ==
  LET pos == PositionIn(a, m)
  IN ToMoney((price - pos.entry) * pos.size) - pos.haircut

Gain(a, m, price) ==
  IF HasPosition(a, m) /\ Delta(a, m, price) > 0 THEN Delta(a, m, price) ELSE 0

LossOf(a, m, price) ==
  IF HasPosition(a, m) /\ Delta(a, m, price) < 0 THEN -Delta(a, m, price) ELSE 0

Balance(a) == a.collateral + a.credit

\* Mutant: a loser pays up to the margin even if less is there.
DebitUpToMargin(a, m, price) ==
  IF ~HasPosition(a, m) THEN 0
  ELSE Lesser(LossOf(a, m, price), PositionIn(a, m).margin)

\* A loser pays at most the position's margin, and what is there.
Debit(a, m, price) ==
  IF ~HasPosition(a, m) THEN 0
  ELSE Lesser(LossOf(a, m, price),
              Lesser(PositionIn(a, m).margin, Balance(a)))

Profit(a, m, price, scale) == (Gain(a, m, price) * scale) \div Ray

\* The account when its position in the market is settled and removed.
SettledAccount(a, m, price, scale) ==
  IF ~HasPosition(a, m) THEN a
  ELSE LET i == CHOOSE i \in Slots(a.positions, m) : TRUE
           paid == PayFromFunds(a, Debit(a, m, price))
       IN [paid EXCEPT
             !.collateral = @ + Profit(a, m, price, scale),
             !.socialized = IF Profit(a, m, price, scale) > 0
                            THEN Less(@, a.positions[i].haircut) ELSE @,
             !.locked = Less(@, a.positions[i].margin),
             !.positions = RemoveSlot(@, i),
             !.index = ReindexAfterRemoval(a.positions, @, i, i, m)]

\* Sums over the users U.
Gains(U, m, price) == SumFunctionOnSet([u \in Users |-> Gain(acct[u], m, price)], U)
Profits(U, m, price, scale) ==
  SumFunctionOnSet([u \in Users |-> Profit(acct[u], m, price, scale)], U)
Debits(U, m, price) == SumFunctionOnSet([u \in Users |-> Debit(acct[u], m, price)], U)
Shortfalls(U, m, price) ==
  SumFunctionOnSet([u \in Users |-> LossOf(acct[u], m, price) - Debit(acct[u], m, price)], U)
Margins(U, m) ==
  SumFunctionOnSet([u \in Users |-> IF HasPosition(acct[u], m) THEN PositionIn(acct[u], m).margin
                           ELSE 0], U)

ScaleFor(liabilities, capacity) ==
  IF liabilities > capacity THEN (capacity * Ray) \div liabilities ELSE Ray

\* The effect on the accounts of settling the users U.
ApplySettlement(U, m, price, scale) ==
  /\ acct' = [u \in Accounts |-> IF u \in U THEN SettledAccount(acct[u], m, price, scale)
                                 ELSE acct[u]]
  /\ totalLocked' = Less(totalLocked, Margins(U, m))
  /\ badDebt' = [badDebt EXCEPT ![m] = @ + Shortfalls(U, m, price)]

----------------------------------------------------------------------------
(* Operations. *)

Elements(list) == {list[i] : i \in DOMAIN list}

\* settleMarket: the users of the list are settled and taken off it.
SettleMarket(m, price) ==
  LET U == Elements(traders[m])
      scale == ScaleFor(Gains(U, m, price), Debits(U, m, price))
  IN /\ m \notin settled
     /\ ~Settling(m)
     /\ ApplySettlement(U, m, price, scale)
     /\ traders' = [traders EXCEPT ![m] = <<>>]
     /\ traderIndex' = [traderIndex EXCEPT ![m] =
          [u \in Users |-> IF u \in U THEN 0 ELSE traderIndex[m][u]]]
     /\ settled' = settled \union {m}
     /\ payout' = [payout EXCEPT ![m] = [profit |-> Profits(U, m, price, scale),
                                         loss |-> Debits(U, m, price)]]
     /\ disturbed' = disturbed \union {k \in Markets \ {m} : Settling(k)}
     /\ UNCHANGED <<net, ops, batch>>

InitBatchSettlement(m, price) ==
  /\ m \notin settled
  /\ batch[m].phase = "none"
  /\ batch' = [batch EXCEPT ![m] =
       [NoBatch EXCEPT !.phase = "calculating", !.price = price, !.scale = Ray]]
  /\ UNCHANGED <<ledgerVars, settled, net, ops, payout, disturbed>>

\* The users between the cursor and the end of the batch, in the list as it
\* is now; the cursor moves back if the list has become shorter.
BatchEnd(m, n) == Lesser(batch[m].cursor + n, Len(traders[m]))
BatchUsers(m, n) == {traders[m][i] : i \in batch[m].cursor + 1 .. BatchEnd(m, n)}

BatchCalculateTotals(m, n) ==
  LET U == BatchUsers(m, n)
      price == batch[m].price
  IN /\ batch[m].phase = "calculating"
     /\ batch' = [batch EXCEPT ![m].cursor = BatchEnd(m, n),
                               ![m].liabilities = @ + Gains(U, m, price),
                               ![m].capacity = @ + Debits(U, m, price)]
     /\ UNCHANGED <<ledgerVars, settled, net, ops, payout, disturbed>>

\* Mutant: the haircut is computed before everybody was counted.
FinalizeHaircutEarly(m) ==
  /\ batch[m].phase = "calculating"
  /\ batch' = [batch EXCEPT ![m].phase = "haircutDone", ![m].cursor = 0,
                 ![m].scale = ScaleFor(batch[m].liabilities, batch[m].capacity)]
  /\ UNCHANGED <<ledgerVars, settled, net, ops, payout, disturbed>>

FinalizeHaircutCalculation(m) ==
  /\ batch[m].phase = "calculating"
  /\ batch[m].cursor >= Len(traders[m])
  /\ batch' = [batch EXCEPT ![m].phase = "haircutDone", ![m].cursor = 0,
                 ![m].scale = ScaleFor(batch[m].liabilities, batch[m].capacity)]
  /\ UNCHANGED <<ledgerVars, settled, net, ops, payout, disturbed>>

\* The users stay on the list.
BatchApplySettlements(m, n) ==
  LET U == BatchUsers(m, n)
      price == batch[m].price
      scale == batch[m].scale
  IN /\ batch[m].phase \in {"haircutDone", "applying"}
     /\ ApplySettlement(U, m, price, scale)
     /\ batch' = [batch EXCEPT ![m].phase = "applying", ![m].cursor = BatchEnd(m, n),
                               ![m].profit = @ + Profits(U, m, price, scale),
                               ![m].loss = @ + Debits(U, m, price)]
     /\ disturbed' = disturbed \union {k \in Markets \ {m} : Settling(k)}
     /\ UNCHANGED <<traders, traderIndex, settled, net, ops, payout>>

\* The list is deleted, its index is not.
FinalizeBatchSettlement(m) ==
  /\ batch[m].phase = "applying"
  /\ batch[m].cursor >= Len(traders[m])
  /\ settled' = settled \union {m}
  /\ batch' = [batch EXCEPT ![m].phase = "complete"]
  /\ payout' = [payout EXCEPT ![m] = [profit |-> batch[m].profit, loss |-> batch[m].loss]]
  /\ traders' = [traders EXCEPT ![m] = <<>>]
  /\ UNCHANGED <<acct, totalLocked, traderIndex, badDebt, net, ops, disturbed>>

\* Deposits and reservations do not disturb a settlement: neither changes a
\* position, and more funds only raise what a loser can pay.
UserStep ==
  /\ UserNext
  /\ disturbed' = IF \A u \in Users : /\ acct'[u].positions = acct[u].positions
                                      /\ Balance(acct'[u]) >= Balance(acct[u])
                  THEN disturbed
                  ELSE disturbed \union {m \in Markets : Settling(m)}
  /\ UNCHANGED <<batch, payout>>

SettlementNext ==
  \/ \E m \in Expiring, price \in SettlementPrices : SettleMarket(m, price)
  \/ \E m \in Expiring, price \in SettlementPrices : InitBatchSettlement(m, price)
  \/ \E m \in Expiring, n \in BatchSizes : BatchCalculateTotals(m, n)
  \/ \E m \in Expiring : FinalizeHaircutCalculation(m)
  \/ \E m \in Expiring, n \in BatchSizes : BatchApplySettlements(m, n)
  \/ \E m \in Expiring : FinalizeBatchSettlement(m)

Next == UserStep \/ SettlementNext

Spec == Init /\ [][Next]_vars

----------------------------------------------------------------------------
(* Properties. *)

\* Every variable has its type; no balance is overdrawn, no position is empty.
TypeOK ==
  /\ \A u \in Accounts :
       LET a == acct[u]
       IN /\ {a.collateral, a.credit, a.locked, a.reserved, a.socialized} \subseteq Nat
          /\ a.pnl \in Int
          /\ \A i \in DOMAIN a.positions :
               a.positions[i] \in PositionRecords /\ a.positions[i].size # 0
          /\ a.index \in [Markets -> Nat]
          /\ a.orders \in [Orders -> Nat]
  /\ totalLocked \in Nat
  /\ \A m \in Markets : Elements(traders[m]) \subseteq Users
  /\ traderIndex \in [Markets -> [Users -> Nat]]
  /\ badDebt \in [Markets -> Nat]
  /\ settled \subseteq Markets /\ disturbed \subseteq Markets
  /\ \A m \in Markets : batch[m].phase \in Phases
  /\ net \in Int

\* The index of a user's positions names the slot of each market's position,
\* across closing, flipping, settling and the swaps they cause; a wrong slot
\* would net a trade into another market's position.
IndexIsExact ==
  \A u \in Users, m \in Markets :
    Slots(acct[u].positions, m) =
      IF acct[u].index[m] = 0 THEN {} ELSE {acct[u].index[m]}

\* The cached totals that every check of available margin reads are the sums
\* they stand for: they never drift, and never stop at 0.
MarginCachesAreExact ==
  /\ \A u \in Users :
       /\ acct[u].locked = PositionMargins(acct[u].positions)
       /\ acct[u].reserved = SumFunctionOnSet(acct[u].orders, Orders)
  /\ totalLocked = SumFunctionOnSet([u \in Users |-> acct[u].locked], Users)

\* Until a settlement is applied, the list it walks holds every user with a
\* position exactly once, whatever trades go on during the calculation.
TradersAreListed ==
  \A m \in Markets : m \notin settled /\ batch[m].phase # "applying" =>
    \A u \in Users :
      {i \in DOMAIN traders[m] : traders[m][i] = u} =
        IF HasPosition(acct[u], m) THEN {traderIndex[m][u]} ELSE {}

\* If nothing interferes with a settlement, it pays winners no more than it
\* took from losers, and leaves no position in the market: whichever way it was
\* done, and however the batches were cut.
SettlementIsCovered ==
  \A m \in settled \ disturbed :
    /\ payout[m].profit <= payout[m].loss
    /\ \A u \in Users : ~HasPosition(acct[u], m)

----------------------------------------------------------------------------
(* What comments and tests of the repository say, and the code does not do. *)

\* AI_TEST_README.md: "Verify PnL is zero-sum across counterparties".  Once
\* nobody holds a position and no debt was left, the users together have what
\* was deposited.
TradingIsZeroSum ==
  /\ settled = {}
  /\ \A u \in Users : acct[u].positions = <<>>
  /\ \A m \in Markets : badDebt[m] = 0
  => SumFunctionOnSet([u \in Accounts |-> Funds(acct[u])], Accounts) = net
=============================================================================
