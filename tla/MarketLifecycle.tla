-------------------------- MODULE MarketLifecycle --------------------------
(***************************************************************************)
(* The life of one market diamond: MarketLifecycleFacet (windows, price    *)
(* proposal, settlement challenge and their bonds), the two gates the      *)
(* order-book facets derive from it (may orders be placed? may the market  *)
(* be settled?) and the part of CoreVault that holds the bonds.            *)
(*                                                                         *)
(* Prices, events, evidence and lineage are left out.  Callers are left    *)
(* out too: an owner-only operation is one that may happen at any time.    *)
(* Time is block.timestamp in units of MinChallengeDuration; two actions   *)
(* may share a timestamp, as transactions of a block do.                   *)
(***************************************************************************)
EXTENDS Integers

CONSTANTS Accounts,        \* who may propose and challenge
          NULL,
          InitialBalance,  \* collateral each account has available
          BondAmounts,     \* bonds the owner may configure
          Year,            \* 365 days, the duration when none is stored
          DaysPerYear, MinChallengeDuration, DefaultChallengeLead,
          Leads, Windows,  \* explicit lead times and window lengths, 0 for none
          DevModes,        \* values of devMode at initialisation
          Controls,        \* the owner's testing controls in use
          MaxTime          \* bound: timestamps considered

ASSUME LifecycleAssumption ==
  /\ NULL \notin Accounts
  /\ InitialBalance \in [Accounts -> Nat]
  /\ {Year, DaysPerYear, MinChallengeDuration, DefaultChallengeLead} \subseteq Nat \ {0}
  /\ BondAmounts \subseteq Nat /\ Leads \subseteq Nat /\ Windows \subseteq Nat
  /\ DevModes \subseteq BOOLEAN
  /\ Controls \subseteq {"dev", "testing"}
  /\ MaxTime \in Nat

VARIABLES now,        \* block.timestamp
          lc,         \* the timing fields of MarketLifecycleStorage.State
          proposal,   \* the settlement price proposal and its bond
          challenge,  \* the settlement challenge and its bond
          bond,       \* challengeBondAmount, and is challengeSlashRecipient set?
          exempt,     \* proposalBondExempt
          balance,    \* available collateral of each account in CoreVault
          escrow,     \* the diamond's own collateral in CoreVault
          slashed,    \* what the slash recipient received, by challenger
          settledInVault  \* CoreVault.marketSettled

bondVars == <<proposal, challenge, bond, exempt, balance, escrow, slashed>>
vars == <<now, lc, bondVars, settledInVault>>

----------------------------------------------------------------------------
(* The views of the facet, on a state l of the timing fields. *)

LifecycleDuration(l) == IF l.duration # 0 THEN l.duration ELSE Year

AtLeast(low, n) == IF n < low THEN low ELSE n

RolloverLead(l) ==
  IF l.testing /\ l.rolloverOverride # 0 THEN l.rolloverOverride
  ELSE IF l.rolloverLead # 0 THEN l.rolloverLead
  ELSE AtLeast(1, LifecycleDuration(l) \div 12)

ChallengeDuration(l) ==
  IF l.testing /\ l.challengeOverride # 0 THEN l.challengeOverride
  ELSE IF l.dev THEN DefaultChallengeLead
  ELSE IF l.window # 0 THEN l.window
  ELSE AtLeast(MinChallengeDuration, LifecycleDuration(l) \div DaysPerYear)

\* 0 when the lead reaches back before time 0.
RolloverWindowStart(l) ==
  AtLeast(0, l.settlementTimestamp - RolloverLead(l))

ChallengeEnd(l) == l.challengeStart + ChallengeDuration(l)

LifecycleState(l, t, settled) ==
  IF l.settled \/ settled THEN "Settled"
  ELSE IF l.challengeStarted
  THEN IF t >= ChallengeEnd(l) THEN "Settled" ELSE "ChallengeWindow"
  ELSE IF \/ l.rolloverStarted
          \/ (RolloverWindowStart(l) # 0 /\ t >= RolloverWindowStart(l))
  THEN "Rollover" ELSE "Unsettled"

CurrentState == LifecycleState(lc, now, settledInVault)

\* isInSettlementChallengeWindow
InChallengeWindow ==
  /\ lc.challengeStarted
  /\ CurrentState # "Settled"
  /\ ~challenge.resolved
  /\ now >= lc.challengeStart /\ now < ChallengeEnd(lc)

\* _isPastSettlementTimestamp of the settlement facets.
PastSettlementTimestamp ==
  lc.dev \/ lc.settlementTimestamp = 0 \/ now >= lc.settlementTimestamp

----------------------------------------------------------------------------
(* syncLifecycle, as a function from the timing fields to the next ones. *)

StartRollover(l, start) == [l EXCEPT !.rolloverStarted = TRUE, !.rolloverStart = start]
StartChallenge(l, start) == [l EXCEPT !.challengeStarted = TRUE, !.challengeStart = start]

\* In dev mode each call advances one stage.  The stage after ChallengeWindow
\* is reached by the clock alone: see DevSyncReverts.
DevSync(l, t, settled) ==
  CASE LifecycleState(l, t, settled) = "Unsettled" -> StartRollover(l, t)
    [] LifecycleState(l, t, settled) = "Rollover" ->
         StartChallenge(l, AtLeast(l.settlementTimestamp, t))
    [] OTHER -> l

\* "LC: challenge window active": the branch asks for the end of a window that
\* LifecycleState has just found open.
DevSyncReverts(l, t, settled) ==
  l.dev /\ LifecycleState(l, t, settled) = "ChallengeWindow"

SyncRollover(l, t) ==
  IF ~l.rolloverStarted /\ RolloverWindowStart(l) # 0 /\ t >= RolloverWindowStart(l)
  THEN StartRollover(l, RolloverWindowStart(l)) ELSE l

\* Mutant: a window that has started is started again.
SyncChallengeAgain(l, t) ==
  IF t >= l.settlementTimestamp THEN StartChallenge(l, t) ELSE l

SyncChallenge(l, t) ==
  IF ~l.challengeStarted /\ t >= l.settlementTimestamp
  THEN StartChallenge(l, t) ELSE l

\* Mutant: only the vault's settlement is recorded, not the end of the window.
SyncSettledByVault(l, t, settled) ==
  IF settled THEN [l EXCEPT !.settled = TRUE] ELSE l

SyncSettled(l, t, settled) ==
  IF settled \/ (l.challengeStarted /\ t >= ChallengeEnd(l))
  THEN [l EXCEPT !.settled = TRUE] ELSE l

\* Mutant: one stage per call, as in dev mode.
SyncOneStage(l, t, settled) ==
  IF l.dev THEN DevSync(l, t, settled)
  ELSE IF SyncRollover(l, t) # l THEN SyncRollover(l, t)
  ELSE IF SyncChallenge(l, t) # l THEN SyncChallenge(l, t)
  ELSE SyncSettled(l, t, settled)

Sync(l, t, settled) ==
  IF l.dev THEN DevSync(l, t, settled)
           ELSE SyncSettled(SyncChallenge(SyncRollover(l, t), t), t, settled)

----------------------------------------------------------------------------
Unset ==
  [settlementTimestamp |-> 0, duration |-> 0, window |-> 0, rolloverLead |-> 0,
   rolloverStarted |-> FALSE, rolloverStart |-> 0,
   challengeStarted |-> FALSE, challengeStart |-> 0,
   settled |-> FALSE, dev |-> FALSE,
   testing |-> FALSE, rolloverOverride |-> 0, challengeOverride |-> 0]

Init ==
  /\ now = 1
  /\ lc = Unset
  /\ proposal = [made |-> FALSE, by |-> NULL, bond |-> 0]
  /\ challenge = [active |-> FALSE, resolved |-> FALSE, won |-> FALSE,
                  by |-> NULL, bond |-> 0]
  /\ bond = [amount |-> 0, recipient |-> FALSE]
  /\ exempt = {}
  /\ balance = InitialBalance
  /\ escrow = 0
  /\ slashed = [a \in Accounts |-> 0]
  /\ settledInVault = FALSE

Tick ==
  /\ now < MaxTime
  /\ now' = now + 1
  /\ UNCHANGED <<lc, bondVars, settledInVault>>

SetLifecycle(l) ==
  /\ lc' = l
  /\ UNCHANGED <<now, bondVars, settledInVault>>

\* _initializeLifecycle; an explicit duration is that of a rollover parent.
InitializeLifecycle(ts, dev, lead, window, duration) ==
  /\ ts > now
  /\ lc.settlementTimestamp = 0
  /\ LET d == IF duration > 0 THEN duration ELSE ts - now IN
     SetLifecycle([lc EXCEPT
       !.settlementTimestamp = ts, !.duration = d, !.dev = dev,
       !.rolloverLead = IF lead > 0 THEN lead ELSE @,
       !.window = IF window > 0 THEN window
                  ELSE AtLeast(MinChallengeDuration, d \div DaysPerYear)])

SyncLifecycle ==
  /\ lc.settlementTimestamp > 0
  /\ ~DevSyncReverts(lc, now, settledInVault)
  /\ SetLifecycle(Sync(lc, now, settledInVault))

StartRolloverWindow ==
  /\ lc.settlementTimestamp > 0 /\ ~lc.rolloverStarted
  /\ now >= RolloverWindowStart(lc)
  /\ SetLifecycle(StartRollover(lc, RolloverWindowStart(lc)))

StartSettlementChallengeWindow ==
  /\ lc.settlementTimestamp > 0 /\ ~lc.challengeStarted
  /\ now >= lc.settlementTimestamp
  /\ SetLifecycle(StartChallenge(lc, now))

\* The owner's controls.  setLifecycleDevMode is not tied to testingMode.
SetLifecycleDevMode(enabled) ==
  /\ "dev" \in Controls
  /\ SetLifecycle([lc EXCEPT !.dev = enabled])

EnableTestingMode(enabled) ==
  /\ "testing" \in Controls
  /\ SetLifecycle([lc EXCEPT !.testing = enabled])

SetLeadTimes(lead, window) ==
  /\ lc.testing
  /\ SetLifecycle([lc EXCEPT !.rolloverOverride = lead, !.challengeOverride = window])

SetSettlementTimestamp(ts) ==
  /\ lc.testing /\ ts > now
  /\ SetLifecycle([lc EXCEPT !.settlementTimestamp = ts])

ForceStartRolloverWindow ==
  /\ lc.testing /\ lc.settlementTimestamp > 0 /\ ~lc.rolloverStarted
  /\ SetLifecycle(StartRollover(lc, now))

ForceStartSettlementChallengeWindow ==
  /\ lc.testing /\ lc.settlementTimestamp > 0 /\ ~lc.challengeStarted
  /\ SetLifecycle(StartChallenge(lc, now))

----------------------------------------------------------------------------
(* Proposal, challenge and their bonds. *)

\* The three require()s proposals and challenges share.
WindowAccepts ==
  /\ lc.challengeStarted
  /\ ~lc.settled
  /\ now < ChallengeEnd(lc)

\* CoreVault.deductFees from a to the diamond; not called for a zero bond.
Escrow(a, amount) ==
  /\ balance[a] >= amount
  /\ balance' = [balance EXCEPT ![a] = @ - amount]
  /\ escrow' = escrow + amount

ProposeSettlementPrice(a) ==
  /\ WindowAccepts
  /\ ~proposal.made
  /\ LET b == IF a \in exempt THEN 0 ELSE bond.amount IN
     /\ Escrow(a, b)
     /\ proposal' = [made |-> TRUE, by |-> a, bond |-> b]
  /\ UNCHANGED <<now, lc, challenge, bond, exempt, slashed, settledInVault>>

\* challengeSettlement, and challengeSettlementFor on behalf of a.
ChallengeSettlement(a) ==
  /\ WindowAccepts
  /\ ~challenge.active
  /\ a \in exempt \/ bond.amount > 0
  /\ LET b == IF a \in exempt THEN 0 ELSE bond.amount IN
     /\ Escrow(a, b)
     /\ challenge' = [challenge EXCEPT !.active = TRUE, !.resolved = FALSE,
                                       !.by = a, !.bond = b]
  /\ UNCHANGED <<now, lc, proposal, bond, exempt, slashed, settledInVault>>

\* deductFees requires a positive amount, also from resolveChallenge.
CanResolve(won) ==
  /\ challenge.active /\ ~challenge.resolved
  /\ won \/ bond.recipient
  /\ 0 < challenge.bond /\ challenge.bond <= escrow

\* Mutant: challengeActive is not cleared.
ResolveStaysActive(won) ==
  /\ CanResolve(won)
  /\ escrow' = escrow - challenge.bond
  /\ IF won THEN /\ balance' = [balance EXCEPT ![challenge.by] = @ + challenge.bond]
                 /\ UNCHANGED slashed
            ELSE /\ slashed' = [slashed EXCEPT ![challenge.by] = @ + challenge.bond]
                 /\ UNCHANGED balance
  /\ challenge' = [challenge EXCEPT !.resolved = TRUE, !.won = won]
  /\ UNCHANGED <<now, lc, proposal, bond, exempt, settledInVault>>

\* Mutant: the bond is paid at its current size, not as it was posted.
ResolveAtCurrentBond(won) ==
  /\ CanResolve(won)
  /\ escrow' = escrow - challenge.bond
  /\ IF won THEN /\ balance' = [balance EXCEPT ![challenge.by] = @ + bond.amount]
                 /\ UNCHANGED slashed
            ELSE /\ slashed' = [slashed EXCEPT ![challenge.by] = @ + bond.amount]
                 /\ UNCHANGED balance
  /\ challenge' = [challenge EXCEPT !.active = FALSE, !.resolved = TRUE, !.won = won]
  /\ UNCHANGED <<now, lc, proposal, bond, exempt, settledInVault>>

ResolveChallenge(won) ==
  /\ CanResolve(won)
  /\ escrow' = escrow - challenge.bond
  /\ IF won THEN /\ balance' = [balance EXCEPT ![challenge.by] = @ + challenge.bond]
                 /\ UNCHANGED slashed
            ELSE /\ slashed' = [slashed EXCEPT ![challenge.by] = @ + challenge.bond]
                 /\ UNCHANGED balance
  /\ challenge' = [challenge EXCEPT !.active = FALSE, !.resolved = TRUE, !.won = won]
  /\ UNCHANGED <<now, lc, proposal, bond, exempt, settledInVault>>

\* Mutant: the record of the bond is not zeroed.
ReturnBondAgain ==
  /\ proposal.made
  /\ ~challenge.active
  /\ 0 < proposal.bond /\ proposal.bond <= escrow
  /\ escrow' = escrow - proposal.bond
  /\ balance' = [balance EXCEPT ![proposal.by] = @ + proposal.bond]
  /\ UNCHANGED proposal
  /\ UNCHANGED <<now, lc, challenge, bond, exempt, slashed, settledInVault>>

\* A call with no bond left to return changes nothing.
ReturnProposalBond ==
  /\ proposal.made
  /\ ~challenge.active
  /\ 0 < proposal.bond /\ proposal.bond <= escrow
  /\ escrow' = escrow - proposal.bond
  /\ balance' = [balance EXCEPT ![proposal.by] = @ + proposal.bond]
  /\ proposal' = [proposal EXCEPT !.bond = 0]
  /\ UNCHANGED <<now, lc, challenge, bond, exempt, slashed, settledInVault>>

SetChallengeBondConfig(amount) ==
  /\ bond' = [amount |-> amount, recipient |-> TRUE]
  /\ UNCHANGED <<now, lc, proposal, challenge, exempt, balance, escrow, slashed,
                 settledInVault>>

SetProposalBondExempt(a, on) ==
  /\ exempt' = IF on THEN exempt \union {a} ELSE exempt \ {a}
  /\ UNCHANGED <<now, lc, proposal, challenge, bond, balance, escrow, slashed,
                 settledInVault>>

\* OBSettlementFacet.settleMarket up to the vault's flag; anybody may call it.
SettleMarket ==
  /\ PastSettlementTimestamp
  /\ ~InChallengeWindow
  /\ ~settledInVault
  /\ settledInVault' = TRUE
  /\ UNCHANGED <<now, lc, bondVars>>

----------------------------------------------------------------------------
Timestamps == 1 .. MaxTime

TimingNext ==
  \/ Tick
  \/ \E ts \in Timestamps, dev \in DevModes, lead \in Leads,
        window \in Windows, duration \in Leads :
        InitializeLifecycle(ts, dev, lead, window, duration)
  \/ SyncLifecycle
  \/ StartRolloverWindow
  \/ StartSettlementChallengeWindow

ControlNext ==
  \/ \E enabled \in BOOLEAN : SetLifecycleDevMode(enabled)
  \/ \E enabled \in BOOLEAN : EnableTestingMode(enabled)
  \/ \E lead \in Leads, window \in Windows : SetLeadTimes(lead, window)
  \/ \E ts \in Timestamps : SetSettlementTimestamp(ts)
  \/ ForceStartRolloverWindow
  \/ ForceStartSettlementChallengeWindow

BondNext ==
  \/ \E a \in Accounts : ProposeSettlementPrice(a)
  \/ \E a \in Accounts : ChallengeSettlement(a)
  \/ \E won \in BOOLEAN : ResolveChallenge(won)
  \/ ReturnProposalBond
  \/ \E amount \in BondAmounts : SetChallengeBondConfig(amount)
  \/ \E a \in Accounts, on \in BOOLEAN : SetProposalBondExempt(a, on)

Next == TimingNext \/ ControlNext \/ BondNext \/ SettleMarket

Spec == Init /\ [][Next]_vars

\* Time passes, and the cron and the UIs keep calling syncLifecycle.
FairSpec == Spec /\ WF_vars(Tick) /\ WF_vars(SyncLifecycle)

----------------------------------------------------------------------------
(* Properties. *)

Lifecycles ==
  [settlementTimestamp : Nat, duration : Nat, window : Nat, rolloverLead : Nat,
   rolloverStarted : BOOLEAN, rolloverStart : Nat,
   challengeStarted : BOOLEAN, challengeStart : Nat,
   settled : BOOLEAN, dev : BOOLEAN,
   testing : BOOLEAN, rolloverOverride : Nat, challengeOverride : Nat]

\* Every variable has its type, and a bond in escrow has an owner to go back to.
TypeOK ==
  /\ now \in Nat
  /\ lc \in Lifecycles
  /\ proposal \in [made : BOOLEAN, by : Accounts \union {NULL}, bond : Nat]
  /\ challenge \in [active : BOOLEAN, resolved : BOOLEAN, won : BOOLEAN,
                    by : Accounts \union {NULL}, bond : Nat]
  /\ proposal.bond > 0 => proposal.by \in Accounts
  /\ challenge.active => challenge.by \in Accounts /\ ~challenge.resolved
  /\ bond \in [amount : Nat, recipient : BOOLEAN]
  /\ exempt \subseteq Accounts
  /\ balance \in [Accounts -> Nat]
  /\ escrow \in Nat
  /\ slashed \in [Accounts -> Nat]
  /\ settledInVault \in BOOLEAN

LiveChallengeBond == IF challenge.active THEN challenge.bond ELSE 0

\* The collateral the diamond holds in the vault is exactly the bonds that are
\* still at stake, so the payout of one bond never draws on the other; the
\* record of a resolved challenge keeps its amount and must not count.
EscrowMatchesBonds == escrow = proposal.bond + LiveChallengeBond

\* What an account has in escrow.
StakeOf(a) ==
  (IF proposal.by = a THEN proposal.bond ELSE 0)
    + (IF challenge.by = a THEN LiveChallengeBond ELSE 0)

\* No bond is lost or paid twice, across re-challenges, changes of the bond's
\* size and of the exemptions: an account has its balance, its stake, and what
\* it lost by a challenge decided against it.
BondsAreAccountedFor ==
  \A a \in Accounts : balance[a] + StakeOf(a) + slashed[a] = InitialBalance[a]

Rank(state) ==
  CASE state = "Unsettled" -> 0 [] state = "Rollover" -> 1
    [] state = "ChallengeWindow" -> 2 [] state = "Settled" -> 3

\* The state shown to users, computed from the clock, stored flags and the vault,
\* never goes back.  (Not with the owner's testing controls.)
LifecycleMovesForward ==
  [][Rank(LifecycleState(lc, now, settledInVault))
       <= Rank(LifecycleState(lc', now', settledInVault'))]_vars

\* syncLifecycle is "Idempotent and safe to call frequently from bots/UIs": a
\* second call at the same time changes nothing.
SyncIsIdempotent ==
  lc.settlementTimestamp > 0 /\ ~DevSyncReverts(lc, now, settledInVault) =>
    LET l == Sync(lc, now, settledInVault) IN Sync(l, now, settledInVault) = l

\* Once the windows of an initialised market are over, or the vault settled it,
\* the settled flag is recorded.
SettledIsRecorded ==
  lc.settlementTimestamp > 0 /\ CurrentState = "Settled" ~> lc.settled
=============================================================================
