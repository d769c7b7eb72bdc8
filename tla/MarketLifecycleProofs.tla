----------------------- MODULE MarketLifecycleProofs -----------------------
(***************************************************************************)
(* Theorems about MarketLifecycle, for any accounts, bonds, durations and  *)
(* timestamps.  The bonds do not depend on the clock: IBonds below is      *)
(* inductive whatever the windows do.  That the lifecycle never goes back  *)
(* needs ITiming: a market that was not initialised has no window, and     *)
(* without the owner's controls testing mode is off.  Idempotence of the   *)
(* synchronisation is an equation on every value of the timing fields that *)
(* is not in dev mode.                                                     *)
(***************************************************************************)
EXTENDS MarketLifecycle, TLAPS

\* A proposal that was not made has no bond to be added to.
NoBondBeforeProposal == ~proposal.made => proposal.bond = 0

IBonds == /\ TypeOK /\ NoBondBeforeProposal
          /\ EscrowMatchesBonds /\ BondsAreAccountedFor

----------------------------------------------------------------------------
(* The functions on the timing fields. *)

\* The lower bound of a number is a natural number when the bound is one.
LEMMA AtLeastType ==
  ASSUME NEW low \in Nat, NEW n \in Int
  PROVE  AtLeast(low, n) \in Nat /\ AtLeast(low, n) >= low
BY DEF AtLeast

\* Window lengths and lead times are natural numbers.
LEMMA DurationType ==
  ASSUME NEW l \in Lifecycles
  PROVE  ChallengeDuration(l) \in Nat /\ RolloverLead(l) \in Nat
<1> USE LifecycleAssumption DEF Lifecycles
<1>1. LifecycleDuration(l) \in Nat
  BY DEF LifecycleDuration
<1>2. LifecycleDuration(l) \div 12 \in Nat /\ LifecycleDuration(l) \div DaysPerYear \in Nat
  BY <1>1
<1>3. QED
  BY <1>1, <1>2 DEF ChallengeDuration, RolloverLead, AtLeast

\* A synchronisation keeps the type of the timing fields.
LEMMA SyncType ==
  ASSUME NEW l \in Lifecycles, NEW t \in Nat, NEW s \in BOOLEAN
  PROVE  Sync(l, t, s) \in Lifecycles
<1>1. RolloverWindowStart(l) \in Nat
  BY DurationType DEF RolloverWindowStart, AtLeast, Lifecycles
<1>2. ASSUME NEW m \in Lifecycles, NEW u \in Nat
      PROVE  StartRollover(m, u) \in Lifecycles /\ StartChallenge(m, u) \in Lifecycles
  BY <1>2 DEF StartRollover, StartChallenge, Lifecycles
<1>3. DevSync(l, t, s) \in Lifecycles
  <2>1. AtLeast(l.settlementTimestamp, t) \in Nat
    BY DEF AtLeast, Lifecycles
  <2>2. QED
    BY <1>2, <2>1 DEF DevSync
<1>4. SyncRollover(l, t) \in Lifecycles
  BY <1>1, <1>2 DEF SyncRollover
<1>5. ASSUME NEW m \in Lifecycles
      PROVE  SyncChallenge(m, t) \in Lifecycles /\ SyncSettled(m, t, s) \in Lifecycles
  <2>1. SyncChallenge(m, t) \in Lifecycles
    BY <1>2 DEF SyncChallenge
  <2>2. SyncSettled(m, t, s) \in Lifecycles
    BY DEF SyncSettled, Lifecycles
  <2>3. QED
    BY <2>1, <2>2
<1>6. QED
  BY <1>3, <1>4, <1>5 DEF Sync

----------------------------------------------------------------------------
(* The bonds. *)

\* Every step of the clock, the windows and the controls keeps the type of the
\* timing fields.
LEMMA TimingType ==
  ASSUME TypeOK, TimingNext \/ ControlNext
  PROVE  /\ now' \in Nat /\ lc' \in Lifecycles
         /\ UNCHANGED <<bondVars, settledInVault>>
<1> USE LifecycleAssumption DEF TypeOK, SetLifecycle
<1>r. RolloverWindowStart(lc) \in Nat
  BY DurationType DEF RolloverWindowStart, AtLeast, Lifecycles
<1>1. CASE Tick
  BY <1>1 DEF Tick
<1>2. ASSUME NEW ts \in Timestamps, NEW dev \in DevModes, NEW lead \in Leads,
             NEW window \in Windows, NEW duration \in Leads,
             InitializeLifecycle(ts, dev, lead, window, duration)
      PROVE  now' \in Nat /\ lc' \in Lifecycles /\ UNCHANGED <<bondVars, settledInVault>>
  <2>1. ts \in Nat /\ lead \in Nat /\ window \in Nat /\ duration \in Nat /\ dev \in BOOLEAN
    BY DEF Timestamps
  <2> DEFINE d == IF duration > 0 THEN duration ELSE ts - now
  <2>2. d \in Nat
    BY <1>2, <2>1 DEF InitializeLifecycle
  <2> DEFINE w == IF window > 0 THEN window
                  ELSE AtLeast(MinChallengeDuration, d \div DaysPerYear)
  <2>3. w \in Nat
    <3>1. d \div DaysPerYear \in Int
      BY <2>2
    <3>2. QED
      BY <2>1, <3>1, AtLeastType
  <2> DEFINE r == IF lead > 0 THEN lead ELSE lc.rolloverLead
  <2>4. lc' \in Lifecycles
    <3>1. r \in Nat
      BY <2>1 DEF Lifecycles
    <3>2. lc' = [lc EXCEPT !.settlementTimestamp = ts, !.duration = d, !.dev = dev,
                           !.rolloverLead = r, !.window = w]
      BY <1>2 DEF InitializeLifecycle
    <3> HIDE DEF d, w, r
    <3>3. QED
      BY <2>1, <2>2, <2>3, <3>1, <3>2 DEF Lifecycles
  <2>5. QED
    BY <1>2, <2>4 DEF InitializeLifecycle
<1>3. CASE SyncLifecycle
  BY <1>3, SyncType DEF SyncLifecycle
<1>4. CASE StartRolloverWindow
  BY <1>4, <1>r DEF StartRolloverWindow, StartRollover, Lifecycles
<1>5. CASE StartSettlementChallengeWindow
  BY <1>5 DEF StartSettlementChallengeWindow, StartChallenge, Lifecycles
<1>6. CASE ControlNext
  <2>1. ASSUME NEW enabled \in BOOLEAN,
               SetLifecycleDevMode(enabled) \/ EnableTestingMode(enabled)
        PROVE  now' \in Nat /\ lc' \in Lifecycles /\ UNCHANGED <<bondVars, settledInVault>>
    BY <2>1 DEF SetLifecycleDevMode, EnableTestingMode, Lifecycles
  <2>2. ASSUME NEW lead \in Leads, NEW window \in Windows, SetLeadTimes(lead, window)
        PROVE  now' \in Nat /\ lc' \in Lifecycles /\ UNCHANGED <<bondVars, settledInVault>>
    BY <2>2 DEF SetLeadTimes, Lifecycles
  <2>3. ASSUME NEW ts \in Timestamps, SetSettlementTimestamp(ts)
        PROVE  now' \in Nat /\ lc' \in Lifecycles /\ UNCHANGED <<bondVars, settledInVault>>
    BY <2>3 DEF SetSettlementTimestamp, Lifecycles, Timestamps
  <2>4. CASE ForceStartRolloverWindow
    BY <2>4 DEF ForceStartRolloverWindow, StartRollover, Lifecycles
  <2>5. CASE ForceStartSettlementChallengeWindow
    BY <2>5 DEF ForceStartSettlementChallengeWindow, StartChallenge, Lifecycles
  <2>6. QED
    BY <1>6, <2>1, <2>2, <2>3, <2>4, <2>5 DEF ControlNext
<1>7. QED
  BY <1>1, <1>2, <1>3, <1>4, <1>5, <1>6 DEF TimingNext

\* A step that leaves the bonds alone keeps what is said of them.
LEMMA StutterPreserves ==
  ASSUME IBonds, now' \in Nat, lc' \in Lifecycles, settledInVault' \in BOOLEAN,
         UNCHANGED bondVars
  PROVE  IBonds'
BY DEF IBonds, bondVars, TypeOK, NoBondBeforeProposal, EscrowMatchesBonds,
       BondsAreAccountedFor, StakeOf, LiveChallengeBond

\* A proposal moves its bond from the account to the diamond.
LEMMA ProposePreserves ==
  ASSUME IBonds, NEW a \in Accounts, ProposeSettlementPrice(a)
  PROVE  IBonds'
<1> DEFINE b == IF a \in exempt THEN 0 ELSE bond.amount
<1> USE LifecycleAssumption DEF IBonds, TypeOK, NoBondBeforeProposal
<1>1. b \in Nat
  OBVIOUS
<1>2. /\ balance[a] >= b /\ balance' = [balance EXCEPT ![a] = @ - b]
      /\ escrow' = escrow + b
      /\ proposal' = [made |-> TRUE, by |-> a, bond |-> b]
      /\ ~proposal.made
      /\ UNCHANGED <<now, lc, challenge, bond, exempt, slashed, settledInVault>>
  BY DEF ProposeSettlementPrice, Escrow
<1> HIDE DEF b
<1>3. TypeOK' /\ NoBondBeforeProposal'
  BY <1>1, <1>2
<1>4. EscrowMatchesBonds'
  BY <1>1, <1>2 DEF EscrowMatchesBonds, LiveChallengeBond
<1>5. BondsAreAccountedFor'
  BY <1>1, <1>2 DEF BondsAreAccountedFor, StakeOf, LiveChallengeBond
<1>6. QED
  BY <1>3, <1>4, <1>5

\* So does a challenge, and there is no other live challenge bond.
LEMMA ChallengePreserves ==
  ASSUME IBonds, NEW a \in Accounts, ChallengeSettlement(a)
  PROVE  IBonds'
<1> DEFINE b == IF a \in exempt THEN 0 ELSE bond.amount
<1> USE LifecycleAssumption DEF IBonds, TypeOK, NoBondBeforeProposal
<1>1. b \in Nat
  OBVIOUS
<1>2. /\ balance[a] >= b /\ balance' = [balance EXCEPT ![a] = @ - b]
      /\ escrow' = escrow + b
      /\ challenge' = [challenge EXCEPT !.active = TRUE, !.resolved = FALSE,
                                        !.by = a, !.bond = b]
      /\ ~challenge.active
      /\ UNCHANGED <<now, lc, proposal, bond, exempt, slashed, settledInVault>>
  BY DEF ChallengeSettlement, Escrow
<1> HIDE DEF b
<1>3. TypeOK' /\ NoBondBeforeProposal'
  <2>1. /\ challenge' \in [active : BOOLEAN, resolved : BOOLEAN, won : BOOLEAN,
                           by : Accounts \union {NULL}, bond : Nat]
        /\ challenge'.active => challenge'.by \in Accounts /\ ~challenge'.resolved
    BY <1>1, <1>2
  <2>2. balance' \in [Accounts -> Nat] /\ slashed' \in [Accounts -> Nat] /\ escrow' \in Nat
    BY <1>1, <1>2
  <2>3. QED
    BY <1>1, <1>2, <2>1, <2>2
<1>4. EscrowMatchesBonds'
  BY <1>1, <1>2 DEF EscrowMatchesBonds, LiveChallengeBond
<1>5. BondsAreAccountedFor'
  BY <1>1, <1>2 DEF BondsAreAccountedFor, StakeOf, LiveChallengeBond
<1>6. QED
  BY <1>3, <1>4, <1>5

\* A resolution pays the live bond out once: to the challenger or to the slash
\* recipient.
LEMMA ResolvePreserves ==
  ASSUME IBonds, NEW won \in BOOLEAN, ResolveChallenge(won)
  PROVE  IBonds'
<1> USE LifecycleAssumption DEF IBonds, TypeOK, NoBondBeforeProposal
<1>1. /\ challenge.active /\ challenge.by \in Accounts
      /\ challenge.bond \in Nat /\ challenge.bond <= escrow
      /\ escrow' = escrow - challenge.bond
      /\ challenge' = [challenge EXCEPT !.active = FALSE, !.resolved = TRUE, !.won = won]
      /\ UNCHANGED <<now, lc, proposal, bond, exempt, settledInVault>>
  BY DEF ResolveChallenge, CanResolve
<1>2. \/ /\ balance' = [balance EXCEPT ![challenge.by] = @ + challenge.bond]
         /\ slashed' = slashed
      \/ /\ slashed' = [slashed EXCEPT ![challenge.by] = @ + challenge.bond]
         /\ balance' = balance
  BY DEF ResolveChallenge
<1>3. TypeOK' /\ NoBondBeforeProposal'
  <2>1. /\ challenge' \in [active : BOOLEAN, resolved : BOOLEAN, won : BOOLEAN,
                           by : Accounts \union {NULL}, bond : Nat]
        /\ challenge'.active => challenge'.by \in Accounts /\ ~challenge'.resolved
    BY <1>1, <1>2
  <2>2. balance' \in [Accounts -> Nat] /\ slashed' \in [Accounts -> Nat] /\ escrow' \in Nat
    BY <1>1, <1>2
  <2>3. QED
    BY <1>1, <1>2, <2>1, <2>2
<1>4. EscrowMatchesBonds'
  BY <1>1 DEF EscrowMatchesBonds, LiveChallengeBond
<1>5. BondsAreAccountedFor'
  BY <1>1, <1>2 DEF BondsAreAccountedFor, StakeOf, LiveChallengeBond
<1>6. QED
  BY <1>3, <1>4, <1>5

\* The proposer's bond goes back once: its record is cleared.
LEMMA ReturnPreserves ==
  ASSUME IBonds, ReturnProposalBond
  PROVE  IBonds'
<1> USE LifecycleAssumption DEF IBonds, TypeOK, NoBondBeforeProposal
<1>1. /\ proposal.bond \in Nat /\ proposal.by \in Accounts /\ proposal.bond <= escrow
      /\ proposal.made
      /\ escrow' = escrow - proposal.bond
      /\ balance' = [balance EXCEPT ![proposal.by] = @ + proposal.bond]
      /\ proposal' = [proposal EXCEPT !.bond = 0]
      /\ UNCHANGED <<now, lc, challenge, bond, exempt, slashed, settledInVault>>
  BY DEF ReturnProposalBond
<1>2. TypeOK' /\ NoBondBeforeProposal'
  BY <1>1
<1>3. EscrowMatchesBonds'
  BY <1>1 DEF EscrowMatchesBonds, LiveChallengeBond
<1>4. BondsAreAccountedFor'
  BY <1>1 DEF BondsAreAccountedFor, StakeOf, LiveChallengeBond
<1>5. QED
  BY <1>2, <1>3, <1>4

\* Init establishes the invariant, and every step keeps it.
LEMMA BondsInvariance == Spec => []IBonds
<1>1. Init => IBonds
  <2> SUFFICES ASSUME Init PROVE IBonds
    OBVIOUS
  <2>1. lc \in Lifecycles
    BY DEF Init, Unset, Lifecycles
  <2>2. TypeOK
    <3>1. slashed \in [Accounts -> Nat] /\ balance \in [Accounts -> Nat]
      BY LifecycleAssumption DEF Init
    <3>2. /\ proposal \in [made : BOOLEAN, by : Accounts \union {NULL}, bond : Nat]
          /\ proposal.bond = 0 /\ bond \in [amount : Nat, recipient : BOOLEAN]
      BY DEF Init
    <3>3. /\ challenge \in [active : BOOLEAN, resolved : BOOLEAN, won : BOOLEAN,
                            by : Accounts \union {NULL}, bond : Nat]
          /\ ~challenge.active
      BY DEF Init
    <3>4. now \in Nat /\ escrow \in Nat /\ exempt \subseteq Accounts /\ settledInVault \in BOOLEAN
      BY DEF Init
    <3>5. QED
      BY <2>1, <3>1, <3>2, <3>3, <3>4 DEF TypeOK
  <2>3. NoBondBeforeProposal /\ EscrowMatchesBonds
    BY DEF Init, NoBondBeforeProposal, EscrowMatchesBonds, LiveChallengeBond
  <2>4. BondsAreAccountedFor
    <3> SUFFICES ASSUME NEW a \in Accounts
                 PROVE  balance[a] + StakeOf(a) + slashed[a] = InitialBalance[a]
      BY DEF BondsAreAccountedFor
    <3>1. StakeOf(a) = 0 /\ slashed[a] = 0
      BY DEF Init, StakeOf, LiveChallengeBond
    <3>2. balance[a] = InitialBalance[a] /\ InitialBalance[a] \in Nat
      BY LifecycleAssumption DEF Init
    <3>3. QED
      BY <3>1, <3>2
  <2>5. QED
    BY <2>2, <2>3, <2>4 DEF IBonds
<1>2. IBonds /\ [Next]_vars => IBonds'
  <2> SUFFICES ASSUME IBonds, [Next]_vars PROVE IBonds'
    OBVIOUS
  <2>1. CASE TimingNext \/ ControlNext
    BY <2>1, TimingType, StutterPreserves DEF IBonds, TypeOK
  <2>2. CASE BondNext
    <3>1. ASSUME NEW amount \in BondAmounts, SetChallengeBondConfig(amount)
          PROVE  IBonds'
      BY <3>1, LifecycleAssumption
         DEF SetChallengeBondConfig, IBonds, TypeOK, NoBondBeforeProposal,
             EscrowMatchesBonds, BondsAreAccountedFor, StakeOf, LiveChallengeBond
    <3>2. ASSUME NEW a \in Accounts, NEW on \in BOOLEAN, SetProposalBondExempt(a, on)
          PROVE  IBonds'
      BY <3>2 DEF SetProposalBondExempt, IBonds, TypeOK, NoBondBeforeProposal,
                  EscrowMatchesBonds, BondsAreAccountedFor, StakeOf, LiveChallengeBond
    <3>3. QED
      BY <2>2, <3>1, <3>2, ProposePreserves, ChallengePreserves, ResolvePreserves,
         ReturnPreserves DEF BondNext
  <2>3. CASE SettleMarket
    BY <2>3, StutterPreserves DEF SettleMarket, IBonds, TypeOK
  <2>4. CASE UNCHANGED vars
    BY <2>4, StutterPreserves DEF vars, IBonds, TypeOK
  <2>5. QED
    BY <2>1, <2>2, <2>3, <2>4 DEF Next
<1>3. QED
  BY <1>1, <1>2, PTL DEF Spec

\* TypeOK holds for every number of accounts, bond size and duration.
THEOREM TypeCorrect == Spec => []TypeOK
BY BondsInvariance, PTL DEF IBonds

\* The diamond holds exactly the bonds at stake: no order of proposals,
\* challenges, resolutions and returns makes it owe more than it has.
THEOREM EscrowIsExact == Spec => []EscrowMatchesBonds
BY BondsInvariance, PTL DEF IBonds

\* No account loses a bond, or gets one back twice, whatever the owner does to
\* the bond's size, the exemptions and the clock.
THEOREM BondsAreConserved == Spec => []BondsAreAccountedFor
BY BondsInvariance, PTL DEF IBonds

----------------------------------------------------------------------------
(* The clock and the windows. *)

\* Without the owner's controls testing mode stays off, and a market that was
\* not initialised has no window and is not settled.
ITiming ==
  /\ ~lc.testing
  /\ lc.settlementTimestamp = 0 =>
       ~lc.rolloverStarted /\ ~lc.challengeStarted /\ ~lc.settled

\* What l may become in m without the lifecycle going back: flags stay, an open
\* window keeps its end, and the rollover window its start.
Extends(l, m) ==
  /\ l.settled => m.settled
  /\ l.challengeStarted => m.challengeStarted /\ ChallengeEnd(m) = ChallengeEnd(l)
  /\ l.rolloverStarted => m.rolloverStarted
  /\ RolloverWindowStart(m) = RolloverWindowStart(l)

\* The state computed from an extension, at a later time, is not an earlier one.
LEMMA ExtensionMovesForward ==
  ASSUME NEW l \in Lifecycles, NEW m \in Lifecycles, Extends(l, m),
         NEW t \in Nat, NEW u \in Nat, t <= u,
         NEW s \in BOOLEAN, NEW r \in BOOLEAN, s => r
  PROVE  Rank(LifecycleState(l, t, s)) <= Rank(LifecycleState(m, u, r))
<1>1. /\ ChallengeEnd(l) \in Nat /\ ChallengeEnd(m) \in Nat
      /\ RolloverWindowStart(l) \in Nat /\ RolloverWindowStart(m) \in Nat
  BY DurationType DEF ChallengeEnd, RolloverWindowStart, AtLeast, Lifecycles
<1>2. \A n \in {"Unsettled", "Rollover", "ChallengeWindow", "Settled"} :
        /\ Rank(n) \in 0 .. 3
        /\ n = "Unsettled" => Rank(n) = 0
        /\ n = "Rollover" => Rank(n) = 1
        /\ n = "ChallengeWindow" => Rank(n) = 2
        /\ n = "Settled" => Rank(n) = 3
  BY DEF Rank
<1> DEFINE before == LifecycleState(l, t, s)
           after == LifecycleState(m, u, r)
<1>3. before \in {"Unsettled", "Rollover", "ChallengeWindow", "Settled"}
  BY DEF LifecycleState
<1>4. after \in {"Unsettled", "Rollover", "ChallengeWindow", "Settled"}
  BY DEF LifecycleState
<1>5. before = "Settled" => after = "Settled"
  BY <1>1 DEF LifecycleState, Extends
<1>6. before = "ChallengeWindow" => after \in {"ChallengeWindow", "Settled"}
  BY <1>1 DEF LifecycleState, Extends
<1>7. before = "Rollover" => after \in {"Rollover", "ChallengeWindow", "Settled"}
  BY <1>1 DEF LifecycleState, Extends
<1> HIDE DEF before, after
<1>8. Rank(before) <= Rank(after)
  BY <1>2, <1>3, <1>4, <1>5, <1>6, <1>7
<1>9. QED
  BY <1>8 DEF before, after

\* Opening a window that was not open extends the timing fields.
LEMMA StartExtends ==
  ASSUME NEW l \in Lifecycles, NEW start \in Nat
  PROVE  /\ Extends(l, StartRollover(l, start))
         /\ ~l.challengeStarted => Extends(l, StartChallenge(l, start))
<1> DEFINE m == StartRollover(l, start)
           n == StartChallenge(l, start)
<1>1. /\ LifecycleDuration(m) = LifecycleDuration(l)
      /\ LifecycleDuration(n) = LifecycleDuration(l)
  BY DEF LifecycleDuration, StartRollover, StartChallenge, Lifecycles
<1>2. /\ ChallengeDuration(m) = ChallengeDuration(l)
      /\ RolloverLead(m) = RolloverLead(l) /\ RolloverLead(n) = RolloverLead(l)
  BY <1>1 DEF ChallengeDuration, RolloverLead, StartRollover, StartChallenge, Lifecycles
<1>3. QED
  BY <1>2 DEF Extends, ChallengeEnd, RolloverWindowStart, StartRollover, StartChallenge,
              Lifecycles

\* So does recording that the market is settled.
LEMMA SettledExtends ==
  ASSUME NEW l \in Lifecycles
  PROVE  Extends(l, [l EXCEPT !.settled = TRUE])
<1> DEFINE m == [l EXCEPT !.settled = TRUE]
<1>1. LifecycleDuration(m) = LifecycleDuration(l)
  BY DEF LifecycleDuration, Lifecycles
<1>2. ChallengeDuration(m) = ChallengeDuration(l) /\ RolloverLead(m) = RolloverLead(l)
  BY <1>1 DEF ChallengeDuration, RolloverLead, Lifecycles
<1>3. QED
  BY <1>2 DEF Extends, ChallengeEnd, RolloverWindowStart, Lifecycles

\* Extension is reflexive and transitive.
LEMMA ExtendsOrder ==
  ASSUME NEW l, NEW m, NEW n
  PROVE  Extends(l, l) /\ (Extends(l, m) /\ Extends(m, n) => Extends(l, n))
BY DEF Extends

\* A synchronisation extends the timing fields, in both modes.
LEMMA SyncExtends ==
  ASSUME NEW l \in Lifecycles, NEW t \in Nat, NEW s \in BOOLEAN
  PROVE  Extends(l, Sync(l, t, s))
<1>1. RolloverWindowStart(l) \in Nat
  BY DurationType DEF RolloverWindowStart, AtLeast, Lifecycles
<1>2. CASE l.dev
  <2>1. AtLeast(l.settlementTimestamp, t) \in Nat
    BY DEF AtLeast, Lifecycles
  <2>2. LifecycleState(l, t, s) = "Rollover" => ~l.challengeStarted
    BY DEF LifecycleState
  <2>3. QED
    BY <1>2, <2>1, <2>2, StartExtends, ExtendsOrder DEF Sync, DevSync
<1>3. CASE ~l.dev
  <2> DEFINE m == SyncRollover(l, t)
             n == SyncChallenge(m, t)
  <2>1. Extends(l, m) /\ m \in Lifecycles
    BY <1>1, StartExtends, ExtendsOrder DEF SyncRollover, StartRollover, Lifecycles
  <2> HIDE DEF m
  <2>2. Extends(m, n) /\ n \in Lifecycles
    BY <2>1, StartExtends, ExtendsOrder DEF SyncChallenge, StartChallenge, Lifecycles
  <2> HIDE DEF n
  <2>3. Extends(n, SyncSettled(n, t, s))
    BY <2>2, SettledExtends, ExtendsOrder DEF SyncSettled
  <2>4. Extends(l, SyncSettled(n, t, s))
    BY <2>1, <2>2, <2>3, ExtendsOrder
  <2>5. QED
    BY <1>3, <2>4 DEF Sync, m, n
<1>4. QED
  BY <1>2, <1>3

\* Without the controls, a step of the clock and the windows extends the timing
\* fields, or initialises a market that had none.
LEMMA TimingStep ==
  ASSUME Controls = {}, TypeOK, ITiming, [Next]_vars
  PROVE  /\ Extends(lc, lc') \/ (lc.settlementTimestamp = 0 /\ now' = now)
         /\ now <= now' /\ (settledInVault => settledInVault')
         /\ ITiming'
<1> USE LifecycleAssumption DEF TypeOK, SetLifecycle
<1> DEFINE Goal == /\ Extends(lc, lc') \/ (lc.settlementTimestamp = 0 /\ now' = now)
                   /\ now <= now' /\ (settledInVault => settledInVault')
                   /\ ITiming'
<1>1. ASSUME lc' = lc, now <= now', settledInVault => settledInVault' PROVE Goal
  BY <1>1, ExtendsOrder DEF ITiming
<1>2. CASE Tick
  BY <1>1, <1>2 DEF Tick
<1>3. ASSUME NEW ts \in Timestamps, NEW dev \in DevModes, NEW lead \in Leads,
             NEW window \in Windows, NEW duration \in Leads,
             InitializeLifecycle(ts, dev, lead, window, duration)
      PROVE  Goal
  BY <1>3 DEF InitializeLifecycle, ITiming, Lifecycles, Timestamps
<1>4. CASE SyncLifecycle
  <2>1. Extends(lc, lc')
    BY <1>4, SyncExtends DEF SyncLifecycle
  <2>2. /\ lc'.testing = lc.testing
        /\ lc'.settlementTimestamp = lc.settlementTimestamp
    <3>1. ASSUME NEW m \in Lifecycles, NEW u
          PROVE  /\ StartRollover(m, u).testing = m.testing
                 /\ StartRollover(m, u).settlementTimestamp = m.settlementTimestamp
                 /\ StartChallenge(m, u).testing = m.testing
                 /\ StartChallenge(m, u).settlementTimestamp = m.settlementTimestamp
      BY DEF StartRollover, StartChallenge, Lifecycles
    <3>2. CASE lc.dev
      BY <1>4, <3>1, <3>2 DEF SyncLifecycle, Sync, DevSync
    <3>3. CASE ~lc.dev
      <4> DEFINE m == SyncRollover(lc, now)
                 n == SyncChallenge(m, now)
      <4>0. RolloverWindowStart(lc) \in Nat
        BY DurationType DEF RolloverWindowStart, AtLeast, Lifecycles
      <4>1. /\ m \in Lifecycles /\ m.testing = lc.testing
            /\ m.settlementTimestamp = lc.settlementTimestamp
        BY <4>0 DEF SyncRollover, StartRollover, Lifecycles
      <4> HIDE DEF m
      <4>2. /\ n \in Lifecycles /\ n.testing = m.testing
            /\ n.settlementTimestamp = m.settlementTimestamp
        BY <4>1 DEF SyncChallenge, StartChallenge, Lifecycles
      <4> HIDE DEF n
      <4>3. lc' = SyncSettled(n, now, settledInVault)
        BY <1>4, <3>3 DEF SyncLifecycle, Sync, m, n
      <4>4. QED
        BY <4>1, <4>2, <4>3 DEF SyncSettled, Lifecycles
    <3>4. QED
      BY <3>2, <3>3
  <2>3. QED
    BY <1>4, <2>1, <2>2 DEF SyncLifecycle, ITiming
<1>5. CASE StartRolloverWindow
  <2>1. RolloverWindowStart(lc) \in Nat
    BY DurationType DEF RolloverWindowStart, AtLeast, Lifecycles
  <2>2. Extends(lc, lc')
    BY <1>5, <2>1, StartExtends DEF StartRolloverWindow
  <2>3. QED
    BY <1>5, <2>2 DEF StartRolloverWindow, StartRollover, ITiming, Lifecycles
<1>6. CASE StartSettlementChallengeWindow
  <2>1. Extends(lc, lc')
    BY <1>6, StartExtends DEF StartSettlementChallengeWindow
  <2>2. QED
    BY <1>6, <2>1 DEF StartSettlementChallengeWindow, StartChallenge, ITiming, Lifecycles
<1>7. ControlNext => FALSE
  BY DEF ControlNext, ITiming, SetLifecycleDevMode, EnableTestingMode, SetLeadTimes,
         SetSettlementTimestamp, ForceStartRolloverWindow,
         ForceStartSettlementChallengeWindow
<1>8. CASE BondNext
  <2>1. UNCHANGED <<now, lc, settledInVault>>
    BY <1>8 DEF BondNext, ProposeSettlementPrice, ChallengeSettlement, ResolveChallenge,
                ReturnProposalBond, SetChallengeBondConfig, SetProposalBondExempt
  <2>2. QED
    BY <1>1, <2>1
<1>9. CASE SettleMarket
  BY <1>1, <1>9 DEF SettleMarket
<1>10. CASE UNCHANGED vars
  BY <1>1, <1>10 DEF vars
<1>11. QED
  BY <1>2, <1>3, <1>4, <1>5, <1>6, <1>7, <1>8, <1>9, <1>10 DEF Next, TimingNext

\* A market that was not initialised is Unsettled, unless the vault settled it.
LEMMA UnsetState ==
  ASSUME TypeOK, ITiming, lc.settlementTimestamp = 0
  PROVE  LifecycleState(lc, now, settledInVault)
           = IF settledInVault THEN "Settled" ELSE "Unsettled"
<1>1. RolloverLead(lc) \in Nat
  BY DurationType DEF TypeOK
<1>2. RolloverWindowStart(lc) = 0
  BY <1>1 DEF RolloverWindowStart, AtLeast
<1>3. QED
  BY <1>2 DEF LifecycleState, ITiming, TypeOK

\* Without the owner's controls, in live mode and in dev mode, the state shown
\* to users never goes back, however late or often anybody synchronises.
THEOREM NeverGoesBack ==
  ASSUME Controls = {}
  PROVE  Spec => LifecycleMovesForward
<1>1. Init => ITiming
  BY DEF Init, Unset, ITiming
<1>2. TypeOK /\ ITiming /\ [Next]_vars => ITiming'
  BY TimingStep
<1>3. TypeOK /\ TypeOK' /\ ITiming /\ [Next]_vars =>
        Rank(LifecycleState(lc, now, settledInVault))
          <= Rank(LifecycleState(lc', now', settledInVault'))
  <2> SUFFICES ASSUME TypeOK, TypeOK', ITiming, [Next]_vars
               PROVE  Rank(LifecycleState(lc, now, settledInVault))
                        <= Rank(LifecycleState(lc', now', settledInVault'))
    OBVIOUS
  <2>1. CASE Extends(lc, lc')
    BY <2>1, TimingStep, ExtensionMovesForward DEF TypeOK
  <2>2. CASE lc.settlementTimestamp = 0
    <3>1. LifecycleState(lc', now', settledInVault')
            \in {"Unsettled", "Rollover", "ChallengeWindow", "Settled"}
      BY DEF LifecycleState
    <3>2. settledInVault => LifecycleState(lc', now', settledInVault') = "Settled"
      BY TimingStep DEF LifecycleState
    <3>3. QED
      BY <2>2, <3>1, <3>2, UnsetState DEF Rank, TypeOK
  <2>3. QED
    BY <2>1, <2>2, TimingStep
<1>4. QED
  BY <1>1, <1>2, <1>3, TypeCorrect, PTL DEF Spec, LifecycleMovesForward

----------------------------------------------------------------------------
(* The synchronisation outside dev mode. *)

\* Whether a window is due does not depend on which windows have started.
SameClock(l, m) ==
  /\ m.dev = l.dev /\ m.settlementTimestamp = l.settlementTimestamp
  /\ RolloverWindowStart(m) = RolloverWindowStart(l)
  /\ ChallengeDuration(m) = ChallengeDuration(l)

\* No stage changes when the others are due.
LEMMA StagesKeepClock ==
  ASSUME NEW l \in Lifecycles, NEW t \in Nat
  PROVE  /\ SameClock(l, StartRollover(l, t)) /\ SameClock(l, StartChallenge(l, t))
         /\ SameClock(l, [l EXCEPT !.settled = TRUE])
BY DEF Lifecycles, SameClock, StartRollover, StartChallenge, RolloverWindowStart,
       RolloverLead, ChallengeDuration, LifecycleDuration, AtLeast

\* Outside dev mode each stage that is due is reached in one call, which leaves the
\* mode alone.
LEMMA SyncTwice ==
  ASSUME NEW l \in Lifecycles, NEW t \in Nat, NEW s \in BOOLEAN, ~l.dev
  PROVE  Sync(Sync(l, t, s), t, s) = Sync(l, t, s) /\ ~Sync(l, t, s).dev
<1> DEFINE a == SyncRollover(l, t)
           b == SyncChallenge(a, t)
           c == SyncSettled(b, t, s)
<1>1. RolloverWindowStart(l) \in Nat
  BY DurationType DEF RolloverWindowStart, AtLeast, Lifecycles
<1>2. /\ a \in Lifecycles /\ SameClock(l, a)
      /\ SyncRollover(a, t) = a
  <2>1. CASE a = l
    BY <2>1 DEF SameClock
  <2>2. CASE a = StartRollover(l, RolloverWindowStart(l))
    <3>1. a \in Lifecycles /\ a.rolloverStarted
      BY <1>1, <2>2 DEF StartRollover, Lifecycles
    <3>2. SameClock(l, a)
      BY <1>1, <2>2, StagesKeepClock
    <3> QED BY <3>1, <3>2 DEF SyncRollover
  <2> QED BY <2>1, <2>2 DEF SyncRollover
<1> HIDE DEF a
<1>3. /\ b \in Lifecycles /\ SameClock(a, b)
      /\ b.rolloverStarted = a.rolloverStarted
      /\ SyncChallenge(b, t) = b
  <2>1. CASE b = a
    BY <1>2, <2>1 DEF SameClock
  <2>2. CASE b = StartChallenge(a, t)
    <3>1. /\ b \in Lifecycles /\ b.challengeStarted
          /\ b.rolloverStarted = a.rolloverStarted
      BY <1>2, <2>2 DEF StartChallenge, Lifecycles
    <3>2. SameClock(a, b)
      BY <1>2, <2>2, StagesKeepClock
    <3> QED BY <3>1, <3>2 DEF SyncChallenge
  <2> QED BY <2>1, <2>2 DEF SyncChallenge
<1> HIDE DEF b
<1>4. /\ c \in Lifecycles /\ SameClock(b, c)
      /\ c.rolloverStarted = b.rolloverStarted
      /\ c.challengeStarted = b.challengeStarted /\ c.challengeStart = b.challengeStart
      /\ SyncSettled(c, t, s) = c
  <2>1. CASE c = b
    BY <1>3, <2>1 DEF SameClock
  <2>2. CASE c = [b EXCEPT !.settled = TRUE]
    <3>1. /\ c \in Lifecycles /\ c.settled
          /\ c.rolloverStarted = b.rolloverStarted
          /\ c.challengeStarted = b.challengeStarted /\ c.challengeStart = b.challengeStart
          /\ [c EXCEPT !.settled = TRUE] = c
      BY <1>3, <2>2 DEF Lifecycles
    <3>2. SameClock(b, c)
      BY <1>3, <2>2, StagesKeepClock
    <3> QED BY <3>1, <3>2 DEF SyncSettled
  <2> QED BY <2>1, <2>2 DEF SyncSettled
<1> HIDE DEF c
<1>5. SyncRollover(c, t) = c
  <2>1. SyncRollover(a, t) = a => a.rolloverStarted \/ RolloverWindowStart(a) = 0 \/ ~(t >= RolloverWindowStart(a))
    BY <1>2 DEF SyncRollover, StartRollover, Lifecycles
  <2> QED BY <1>2, <1>3, <1>4, <2>1 DEF SyncRollover, SameClock
<1>6. SyncChallenge(c, t) = c
  <2>1. SyncChallenge(b, t) = b => b.challengeStarted \/ ~(t >= b.settlementTimestamp)
    BY <1>3 DEF SyncChallenge, StartChallenge, Lifecycles
  <2> QED BY <1>3, <1>4, <2>1 DEF SyncChallenge, SameClock
<1>7. Sync(l, t, s) = c
  BY DEF Sync, a, b, c
<1>8. ~c.dev
  BY <1>2, <1>3, <1>4 DEF SameClock
<1> QED BY <1>4, <1>5, <1>6, <1>7, <1>8 DEF Sync

\* The market is not, and without the controls never gets, in dev mode.
NotDev == ~lc.dev

\* Without dev mode, anybody may call syncLifecycle as often as they like: a
\* second call at the same time changes nothing.
THEOREM SyncTwiceIsOnce ==
  ASSUME DevModes = {FALSE}, Controls = {}
  PROVE  Spec => []SyncIsIdempotent
<1>1. Init => NotDev
  BY DEF Init, Unset, NotDev
<1>2. TypeOK /\ NotDev /\ [Next]_vars => NotDev'
  <2> SUFFICES ASSUME TypeOK, ~lc.dev, [Next]_vars
               PROVE  ~lc'.dev
    BY DEF NotDev
  <2>1. ASSUME NEW start
        PROVE  ~StartRollover(lc, start).dev /\ ~StartChallenge(lc, start).dev
    BY DEF StartRollover, StartChallenge, TypeOK, Lifecycles
  <2>2. ASSUME NEW ts \in Timestamps, NEW dev \in DevModes, NEW lead \in Leads,
               NEW window \in Windows, NEW duration \in Leads,
               InitializeLifecycle(ts, dev, lead, window, duration)
        PROVE  ~lc'.dev
    BY <2>2 DEF InitializeLifecycle, SetLifecycle, TypeOK, Lifecycles
  <2>3. CASE SyncLifecycle
    BY <2>3, SyncTwice DEF SyncLifecycle, SetLifecycle, TypeOK
  <2>4. CASE StartRolloverWindow \/ StartSettlementChallengeWindow
    BY <2>1, <2>4 DEF StartRolloverWindow, StartSettlementChallengeWindow, SetLifecycle
  <2>5. CASE ControlNext
    <3>1. ASSUME NEW enabled \in BOOLEAN
          PROVE  /\ ~SetLifecycleDevMode(enabled)
                 /\ ~EnableTestingMode(enabled)
      BY DEF SetLifecycleDevMode, EnableTestingMode
    <3>2. ASSUME NEW lead \in Leads, NEW window \in Windows, SetLeadTimes(lead, window)
          PROVE  ~lc'.dev
      BY <3>2 DEF SetLeadTimes, SetLifecycle, TypeOK, Lifecycles
    <3>3. ASSUME NEW ts \in Timestamps, SetSettlementTimestamp(ts)
          PROVE  ~lc'.dev
      BY <3>3 DEF SetSettlementTimestamp, SetLifecycle, TypeOK, Lifecycles
    <3>4. CASE ForceStartRolloverWindow \/ ForceStartSettlementChallengeWindow
      BY <2>1, <3>4
      DEF ForceStartRolloverWindow, ForceStartSettlementChallengeWindow, SetLifecycle
    <3> QED BY <2>5, <3>1, <3>2, <3>3, <3>4 DEF ControlNext
  <2>6. CASE BondNext
    BY <2>6 DEF BondNext, ProposeSettlementPrice, ChallengeSettlement, ResolveChallenge,
                ReturnProposalBond, SetChallengeBondConfig, SetProposalBondExempt
  <2>7. CASE Tick \/ SettleMarket \/ UNCHANGED vars
    BY <2>7 DEF Tick, SettleMarket, vars
  <2> QED
    BY <2>2, <2>3, <2>4, <2>5, <2>6, <2>7 DEF Next, TimingNext
<1>3. TypeOK /\ NotDev => SyncIsIdempotent
  <2> SUFFICES ASSUME TypeOK, ~lc.dev
               PROVE  SyncIsIdempotent
    BY DEF NotDev
  <2>1. lc \in Lifecycles /\ now \in Nat /\ settledInVault \in BOOLEAN
    BY DEF TypeOK
  <2>2. Sync(Sync(lc, now, settledInVault), now, settledInVault) = Sync(lc, now, settledInVault)
    BY <2>1, SyncTwice
  <2> QED BY <2>2 DEF SyncIsIdempotent
<1> QED BY <1>1, <1>2, <1>3, TypeCorrect, PTL DEF Spec
=============================================================================
