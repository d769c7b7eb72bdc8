----------------------------- MODULE SpokeInbox -----------------------------
(***************************************************************************)
(* The spoke side of a withdrawal as the saga sees it: SpokeInboxAdapter   *)
(* in front of SecureSpokeVaultV3.  A withdrawId is accepted once; below   *)
(* the instant threshold its USDC is transferred at once, from it on the   *)
(* payment waits in a timelock, which anybody may execute once it has      *)
(* expired and a guardian may cancel.  The limits of the vault are one     *)
(* more reason for a call to revert, which the caller's fault steps cover. *)
(***************************************************************************)
EXTENDS Naturals

CONSTANTS Ids,      \* the withdrawIds a message may carry
          LargeIds  \* those whose amount is at or over instantWithdrawalThreshold

VARIABLES spoke,    \* spoke[w]: what the vault did with withdrawId w
          payouts   \* payouts[w]: how many times USDC was transferred for w

SpokeState == {"unknown", "queued", "released", "cancelled"}

SpokeInit ==
  /\ spoke = [w \in Ids |-> "unknown"]
  /\ payouts = [w \in Ids |-> 0]

SpokeTypeOK ==
  /\ spoke \in [Ids -> SpokeState]
  /\ payouts \in [Ids -> Nat]

\* Mutant: only the timelock queue is consulted.
PendingOnSpoke(w) == spoke[w] = "queued"

\* processedWithdrawIds[w], set before the timelock is queued.
ProcessedOnSpoke(w) == spoke[w] # "unknown"

\* receiveMessage -> releaseToUser.
ReceiveMessage(w) ==
  /\ ~ProcessedOnSpoke(w)
  /\ spoke' = [spoke EXCEPT ![w] = IF w \in LargeIds THEN "queued" ELSE "released"]
  /\ payouts' = [payouts EXCEPT ![w] = IF w \in LargeIds THEN @ ELSE @ + 1]

\* Mutant: executing does not check that the timelock was not executed before.
ExecuteTimelockAgain(w) ==
  /\ spoke[w] \in {"queued", "released"}
  /\ spoke' = [spoke EXCEPT ![w] = "released"]
  /\ payouts' = [payouts EXCEPT ![w] = @ + 1]

ExecuteTimelockWithdrawal(w) ==
  /\ spoke[w] = "queued"
  /\ spoke' = [spoke EXCEPT ![w] = "released"]
  /\ payouts' = [payouts EXCEPT ![w] = @ + 1]

CancelTimelockWithdrawal(w) ==
  /\ spoke[w] \in {"queued", "cancelled"}
  /\ spoke' = [spoke EXCEPT ![w] = "cancelled"]
  /\ UNCHANGED payouts
=============================================================================
