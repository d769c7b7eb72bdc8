--------------------------- MODULE WithdrawalJobs ---------------------------
(***************************************************************************)
(* The rows of the table withdrawal_jobs and the stored procedures through *)
(* which the API handler, the retry worker, the Released listener and the  *)
(* operators change them.  Each procedure is one transaction on one row,   *)
(* written here as an operator from the old row to the new one; none of    *)
(* them looks at the status it overwrites.                                 *)
(*                                                                         *)
(* A row keeps only the columns that steer the saga.  The transaction      *)
(* hashes are booleans (NULL or not), last_error and the timestamps are    *)
(* left out, and earliest_run_at is the caller's choice of which claimable *)
(* rows are due.                                                           *)
(***************************************************************************)
EXTENDS Naturals

CONSTANT NULL      \* SQL NULL

ActiveStatus ==
  {"pending", "hub_debiting", "hub_debited", "hub_sending", "hub_sent",
   "spoke_pending", "spoke_delivering", "outbox_failed", "spoke_failed"}

TerminalStatus == {"completed", "hub_debit_failed", "requires_manual"}

\* "absent" stands for a row that create_withdrawal_job has not inserted yet.
Status == ActiveStatus \union TerminalStatus \union {"absent"}

\* Mutant: the worker also takes over rows in which step 1 got stuck.
ClaimableStatusFromDebit ==
  {"hub_debiting", "outbox_failed", "hub_sent", "spoke_pending", "spoke_failed"}

\* The rows claim_withdrawal_jobs selects.
ClaimableStatus == {"outbox_failed", "hub_sent", "spoke_pending", "spoke_failed"}

\* metadata.admin_resolution, written by the operators' resolve endpoint.
Resolution == {"none", "completed", "abandoned"}

Rows(Ids) ==
  [status : Status, withdrawId : Ids \union {NULL}, hubSendTx : BOOLEAN,
   spokeDeliverTx : BOOLEAN, attempts : Nat, resolution : Resolution]

AbsentRow ==
  [status |-> "absent", withdrawId |-> NULL, hubSendTx |-> FALSE,
   spokeDeliverTx |-> FALSE, attempts |-> 0, resolution |-> "none"]

CreateRow == [AbsentRow EXCEPT !.status = "pending"]

\* Mutant: the patch is written as given, without COALESCE.
MarkStepOverwriting(row, to) == [row EXCEPT !.status = to, !.withdrawId = NULL]

\* mark_withdrawal_step with an empty patch.
MarkStep(row, to) == [row EXCEPT !.status = to]

\* mark_withdrawal_step('hub_debited', {withdraw_id, ...}): COALESCE overwrites.
MarkDebited(row, id) == [row EXCEPT !.status = "hub_debited", !.withdrawId = id]

\* mark_withdrawal_step('hub_sent', {hub_send_tx, ...}).
MarkSent(row) == [row EXCEPT !.status = "hub_sent", !.hubSendTx = TRUE]

\* fail_or_requeue_withdrawal_job.
FailOrRequeue(row, to, max) ==
  [row EXCEPT !.attempts = @ + 1,
              !.status = IF row.attempts + 1 >= max THEN "requires_manual" ELSE to]

\* The CASE of claim_withdrawal_jobs.
ClaimRow(row) ==
  [row EXCEPT !.status = IF @ = "outbox_failed" THEN "hub_sending"
                                                ELSE "spoke_delivering"]

\* complete_withdrawal_job; hasTx: the caller passes a transaction hash.
CompleteRow(row, hasTx) ==
  [row EXCEPT !.status = "completed", !.spokeDeliverTx = @ \/ hasTx]

\* Mutant: no unique index.
NoUniqueIndex(rows, j, id) == TRUE

\* The partial unique index on withdraw_id: may id be written into row j?
UniqueWithdrawId(rows, j, id) ==
  \A k \in DOMAIN rows \ {j} : rows[k].withdrawId # id
=============================================================================
