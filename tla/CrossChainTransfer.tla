------------------------- MODULE CrossChainTransfer -------------------------
(***************************************************************************)
(* What a cross-chain withdrawal promises about money, and nothing of how  *)
(* it is carried out: USDC leaves the spoke for a request only against a   *)
(* debit the hub made for that request, and at most once.  A request may   *)
(* be debited more than once and may never be paid: the saga promises      *)
(* neither single debits nor payment in every case.                        *)
(***************************************************************************)
EXTENDS Naturals

CONSTANT Jobs

VARIABLES debited,   \* how many times the hub debited the request
          paid       \* how many times the spoke paid it

transferVars == <<debited, paid>>

TransferInit ==
  /\ debited = [j \in Jobs |-> 0]
  /\ paid = [j \in Jobs |-> 0]

Debit(j) ==
  /\ debited' = [debited EXCEPT ![j] = @ + 1]
  /\ UNCHANGED paid

Pay(j) ==
  /\ debited[j] > 0 /\ paid[j] = 0
  /\ paid' = [paid EXCEPT ![j] = 1]
  /\ UNCHANGED debited

TransferNext == \E j \in Jobs : Debit(j) \/ Pay(j)

TransferSpec == TransferInit /\ [][TransferNext]_transferVars
=============================================================================
