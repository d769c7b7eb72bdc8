---------------------------- MODULE CollateralHub ----------------------------
(***************************************************************************)
(* The hub side of cross-chain collateral: CollateralHub and the external  *)
(* credit ledger of CoreVault it drives.  A deposit seen on a spoke is     *)
(* credited once (creditFromBridge); a withdrawal debits the credit and    *)
(* publishes an intent under an identifier computed from the request and   *)
(* the block it is mined in (requestWithdraw).                             *)
(*                                                                         *)
(* The hash keccak256(chainid, user, targetChain, amount, block.number) is *)
(* the tuple of the inputs that vary: it is injective, as the hash is      *)
(* assumed to be.                                                          *)
(*                                                                         *)
(* debitExternal draws on an account's realized profit before its external *)
(* credit; credit[u] stands for the sum of the two.                        *)
(***************************************************************************)
EXTENDS Naturals

CONSTANTS Users, Amounts,   \* accounts and request sizes, in units of credit
          Deposits,         \* identifiers of the spoke deposits
          MaxBlock,         \* bound: hub blocks considered
          InitialCredit     \* the cross-chain credit each account starts with

ASSUME HubAssumption ==
  /\ Amounts \subseteq Nat \ {0}
  /\ MaxBlock \in Nat \ {0}
  /\ InitialCredit \in [Users -> Nat]

VARIABLES block,              \* the hub's block.number
          credit,             \* CoreVault: what debitExternal can take
          processedDeposits,  \* CollateralHub.processedDepositIds
          processedWithdraws  \* CollateralHub.processedWithdrawIds

hubVars == <<block, credit, processedDeposits, processedWithdraws>>

Blocks == 1 .. MaxBlock
WithdrawIds == Users \X Amounts \X Blocks

\* Mutant: the id is computed for the next block.
WithdrawIdAtNextBlock(u, a, b) == <<u, a, b + 1>>

\* The withdrawId requestWithdraw computes when it runs in block b.
WithdrawIdAt(u, a, b) == <<u, a, b>>

HubInit ==
  /\ block = 1
  /\ credit = InitialCredit
  /\ processedDeposits = {}
  /\ processedWithdraws = {}

HubTypeOK ==
  /\ block \in Blocks
  /\ credit \in [Users -> Nat]
  /\ processedDeposits \subseteq Deposits
  /\ processedWithdraws \subseteq WithdrawIds

NextBlock ==
  /\ block < MaxBlock
  /\ block' = block + 1
  /\ UNCHANGED <<credit, processedDeposits, processedWithdraws>>

\* creditFromBridge: a second delivery of the same deposit reverts.
CreditFromBridge(u, a, d) ==
  /\ d \notin processedDeposits
  /\ processedDeposits' = processedDeposits \union {d}
  /\ credit' = [credit EXCEPT ![u] = @ + a]
  /\ UNCHANGED <<block, processedWithdraws>>

\* Would requestWithdraw(u, a) succeed in the current block?
CanWithdraw(u, a) ==
  /\ WithdrawIdAt(u, a, block) \notin processedWithdraws
  /\ credit[u] >= a

RequestWithdraw(u, a) ==
  /\ CanWithdraw(u, a)
  /\ processedWithdraws' = processedWithdraws \union {WithdrawIdAt(u, a, block)}
  /\ credit' = [credit EXCEPT ![u] = @ - a]
  /\ UNCHANGED <<block, processedDeposits>>
=============================================================================
