--------------------------- MODULE WithdrawalSaga ---------------------------
(***************************************************************************)
(* A cross-chain withdrawal: CollateralHub.requestWithdraw debits the hub, *)
(* HubBridgeOutbox.sendWithdraw announces it, SpokeInboxAdapter releases   *)
(* the USDC.  One API request per job drives the three steps; the retry    *)
(* worker takes over rows that are claimable; the Released listener and    *)
(* the operators write the same rows.  All of them interleave at every     *)
(* await, any of them can crash, and a transaction that was broadcast is   *)
(* mined whether or not its sender is still there.                         *)
(*                                                                         *)
(* Faults (crashes, failed RPC or database calls) are bounded by           *)
(* MaxFaults, and operator interventions by MaxRetries and MaxResolves.    *)
(***************************************************************************)
EXTENDS WithdrawalJobs, CollateralHub, FiniteSets

CONSTANTS Jobs,          \* withdrawal requests, one row and one API call each
          UserOf, AmountOf, \* what each request asks for
          Workers,       \* invocations of the retry worker that may overlap
          LargeAmounts,  \* amounts at or over the vault's instant threshold
          VaultKnown,    \* is the spoke vault's address in the worker's environment?
          Batch,         \* WITHDRAW_RETRY_BATCH_SIZE
          MaxAttempts,   \* max_attempts
          MaxResends,    \* bound: nonce retries that left a transaction behind
          MaxFaults, MaxRetries, MaxResolves

ASSUME SagaAssumption ==
  /\ UserOf \in [Jobs -> Users] /\ AmountOf \in [Jobs -> Amounts]
  /\ VaultKnown \in BOOLEAN /\ MaxAttempts \in Nat
  /\ {MaxResends, MaxFaults, MaxRetries, MaxResolves} \subseteq Nat
  /\ NULL \notin WithdrawIds /\ NULL \notin Jobs

VARIABLES rows,      \* the table withdrawal_jobs
          api,       \* the API handler of each job
          requests,  \* broadcast requestWithdraw transactions not yet mined
          receipt,   \* outcome of the last requestWithdraw mined for a job
          debits,    \* how many times the hub debited a job's user for it
          sent,      \* WithdrawSent events in the hub's log, per withdrawId
          spoke, payouts,
          inFlight,  \* spoke transactions whose sender stopped waiting for them
          worker,    \* the runs of the retry worker
          retrying,  \* an operator's retry, between its read and its write
          budget     \* what is left of the bounds

vaultVars == <<spoke, payouts>>

vars == <<rows, api, requests, receipt, debits, sent, vaultVars, inFlight,
          worker, retrying, budget, hubVars>>

INSTANCE SpokeInbox WITH Ids <- WithdrawIds,
                         LargeIds <- {w \in WithdrawIds : w[2] \in LargeAmounts}

ApiPc == {"idle", "created", "simulate", "broadcast", "awaitDebit", "debitError",
          "debited", "sending", "sendMined", "sendError", "sent",
          "delivering", "delivered", "deliverError", "done", "crashed"}

WorkerPc == {"idle", "next", "send", "sendMined", "sendError", "advance",
             "deliver", "submit", "already", "complete", "deliverError"}

Claims == Jobs \X {"hub_sending", "spoke_delivering"}

Init ==
  /\ HubInit
  /\ SpokeInit
  /\ rows = [j \in Jobs |-> AbsentRow]
  /\ api = [j \in Jobs |-> [pc |-> "idle", predicted |-> NULL]]
  /\ requests = [j \in Jobs |-> 0]
  /\ receipt = [j \in Jobs |-> "none"]
  /\ debits = [j \in Jobs |-> 0]
  /\ sent = [w \in WithdrawIds |-> 0]
  /\ inFlight = {}
  /\ worker = [r \in Workers |-> [pc |-> "idle", job |-> NULL, todo |-> {}]]
  /\ retrying = [j \in Jobs |-> NULL]
  /\ budget = [resends |-> MaxResends, faults |-> MaxFaults,
               retries |-> MaxRetries, resolves |-> MaxResolves]

Spend(what) ==
  /\ budget[what] > 0
  /\ budget' = [budget EXCEPT ![what] = @ - 1]

ApiStep(j, from, to) ==
  /\ api[j].pc = from
  /\ api' = [api EXCEPT ![j].pc = to]

SetRow(j, row) == rows' = [rows EXCEPT ![j] = row]

\* The sender of a spoke transaction gives up on it: it may be in the mempool.
LeaveInFlight(submitting, w) ==
  \/ UNCHANGED inFlight
  \/ submitting /\ inFlight' = inFlight \union {w}

step1Vars == <<requests, receipt, debits, hubVars>>
chainVars == <<step1Vars, sent, vaultVars, inFlight>>
otherVars == <<chainVars, worker, retrying>>

----------------------------------------------------------------------------
(* The API handler, POST /api/withdraw/cross-chain. *)

\* The row is persisted before the chain is touched.
CreateJob(j) ==
  /\ ApiStep(j, "idle", "created")
  /\ SetRow(j, CreateRow)
  /\ UNCHANGED <<otherVars, budget>>

StartDebit(j) ==
  /\ ApiStep(j, "created", "simulate")
  /\ SetRow(j, MarkStep(rows[j], "hub_debiting"))
  /\ UNCHANGED <<otherVars, budget>>

\* requestWithdraw.staticCall: the withdrawId that will be recorded is the one
\* of the block the simulation ran in.
Simulate(j) ==
  /\ api[j].pc = "simulate"
  /\ api' = [api EXCEPT ![j] =
       IF CanWithdraw(UserOf[j], AmountOf[j])
       THEN [pc |-> "broadcast", predicted |-> WithdrawIdAt(UserOf[j], AmountOf[j], block)]
       ELSE [@ EXCEPT !.pc = "debitError"]]
  /\ UNCHANGED <<rows, otherVars, budget>>

Broadcast(j) ==
  /\ ApiStep(j, "broadcast", "awaitDebit")
  /\ requests' = [requests EXCEPT ![j] = @ + 1]
  /\ UNCHANGED <<rows, receipt, debits, hubVars, sent, vaultVars, inFlight, worker, retrying, budget>>

\* sendWithNonceRetry: the node answered "already known", so a transaction is
\* in the mempool, and the loop sends another one with the next nonce.
BroadcastAgain(j) ==
  /\ ApiStep(j, "broadcast", "broadcast")
  /\ Spend("resends")
  /\ requests' = [requests EXCEPT ![j] = @ + 1]
  /\ UNCHANGED <<rows, receipt, debits, hubVars, sent, vaultVars, inFlight, worker, retrying>>

\* The send fails, the wait fails (the transaction may still be mined), or the
\* write of hub_debited fails or loses its answer: one catch block for all.
DebitFails(j) ==
  /\ api[j].pc \in {"simulate", "broadcast", "awaitDebit", "debited"}
  /\ Spend("faults")
  /\ api' = [api EXCEPT ![j].pc = "debitError"]
  /\ UNCHANGED <<rows, otherVars>>

ConfirmDebit(j) ==
  /\ api[j].pc = "awaitDebit" /\ requests[j] = 0 /\ receipt[j] = "ok"
  /\ IF UniqueWithdrawId(rows, j, api[j].predicted)
     THEN /\ ApiStep(j, "awaitDebit", "debited")
          /\ SetRow(j, MarkDebited(rows[j], api[j].predicted))
     ELSE /\ ApiStep(j, "awaitDebit", "debitError")
          /\ UNCHANGED rows
  /\ UNCHANGED <<otherVars, budget>>

\* Mutant: the handler gives up on a transaction that is still in the mempool.
ConfirmTimedOut(j) ==
  /\ requests[j] > 0
  /\ ApiStep(j, "awaitDebit", "debitError")
  /\ UNCHANGED <<rows, otherVars, budget>>

ConfirmReverted(j) ==
  /\ requests[j] = 0 /\ receipt[j] = "reverted"
  /\ ApiStep(j, "awaitDebit", "debitError")
  /\ UNCHANGED <<rows, otherVars, budget>>

RecordDebitFailed(j) ==
  /\ ApiStep(j, "debitError", "done")
  /\ SetRow(j, MarkStep(rows[j], "hub_debit_failed"))
  /\ UNCHANGED <<otherVars, budget>>

StartSend(j) ==
  /\ ApiStep(j, "debited", "sending")
  /\ SetRow(j, MarkStep(rows[j], "hub_sending"))
  /\ UNCHANGED <<otherVars, budget>>

SendWithdraw(j) ==
  /\ ApiStep(j, "sending", "sendMined")
  /\ sent' = [sent EXCEPT ![api[j].predicted] = @ + 1]
  /\ UNCHANGED <<rows, step1Vars, vaultVars, inFlight, worker, retrying, budget>>

SendFails(j) ==
  /\ api[j].pc \in {"sending", "sendMined", "sent"}
  /\ Spend("faults")
  /\ api' = [api EXCEPT ![j].pc = "sendError"]
  /\ UNCHANGED <<rows, otherVars>>

RecordSent(j) ==
  /\ ApiStep(j, "sendMined", "sent")
  /\ SetRow(j, MarkSent(rows[j]))
  /\ UNCHANGED <<otherVars, budget>>

RecordSendFailed(j) ==
  /\ ApiStep(j, "sendError", "done")
  /\ SetRow(j, FailOrRequeue(rows[j], "outbox_failed", MaxAttempts))
  /\ UNCHANGED <<otherVars, budget>>

StartDeliver(j) ==
  /\ ApiStep(j, "sent", "delivering")
  /\ SetRow(j, MarkStep(rows[j], "spoke_delivering"))
  /\ UNCHANGED <<otherVars, budget>>

\* No spoke RPC, or no remote app, in the environment.
SpokeNotConfigured(j) ==
  /\ ApiStep(j, "sent", "done")
  /\ Spend("faults")
  /\ SetRow(j, FailOrRequeue(rows[j], "spoke_pending", MaxAttempts))
  /\ UNCHANGED otherVars

\* The spoke transaction, which reverts if the withdrawId was already accepted.
Deliver(j) ==
  /\ api[j].pc = "delivering"
  /\ IF ProcessedOnSpoke(api[j].predicted)
     THEN /\ ApiStep(j, "delivering", "deliverError")
          /\ UNCHANGED vaultVars
     ELSE /\ ApiStep(j, "delivering", "delivered")
          /\ ReceiveMessage(api[j].predicted)
  /\ UNCHANGED <<rows, step1Vars, sent, inFlight, worker, retrying, budget>>

\* The spoke transaction is not sent, or its receipt never comes, or the write
\* of completed fails: all end in the same catch block.
DeliverFails(j) ==
  /\ api[j].pc \in {"delivering", "delivered"}
  /\ Spend("faults")
  /\ api' = [api EXCEPT ![j].pc = "deliverError"]
  /\ LeaveInFlight(api[j].pc = "delivering", api[j].predicted)
  /\ UNCHANGED <<rows, step1Vars, sent, vaultVars, worker, retrying>>

\* Mutant: the row is completed when the spoke transaction is submitted.
RecordSubmitted(j) ==
  /\ api[j].pc = "delivering"
  /\ SetRow(j, CompleteRow(rows[j], TRUE))
  /\ \/ ApiStep(j, "delivering", "done") /\ UNCHANGED budget
     \/ ApiStep(j, "delivering", "deliverError") /\ Spend("faults")
  /\ UNCHANGED otherVars

\* complete_withdrawal_job runs; its answer may be lost, which is an error too.
RecordDelivered(j) ==
  /\ api[j].pc = "delivered"
  /\ SetRow(j, CompleteRow(rows[j], TRUE))
  /\ \/ ApiStep(j, "delivered", "done") /\ UNCHANGED budget
     \/ ApiStep(j, "delivered", "deliverError") /\ Spend("faults")
  /\ UNCHANGED otherVars

RecordDeliverFailed(j) ==
  /\ ApiStep(j, "deliverError", "done")
  /\ SetRow(j, FailOrRequeue(rows[j], "spoke_failed", MaxAttempts))
  /\ UNCHANGED <<otherVars, budget>>

\* The serverless instance dies, or one of the writes outside a try fails.
ApiCrash(j) ==
  /\ api[j].pc \notin {"idle", "done", "crashed"}
  /\ Spend("faults")
  /\ api' = [api EXCEPT ![j].pc = "crashed"]
  /\ LeaveInFlight(api[j].pc = "delivering", api[j].predicted)
  /\ UNCHANGED <<rows, step1Vars, sent, vaultVars, worker, retrying>>

ApiNext(j) ==
  \/ CreateJob(j) \/ StartDebit(j) \/ Simulate(j) \/ Broadcast(j)
  \/ BroadcastAgain(j) \/ DebitFails(j) \/ ConfirmDebit(j) \/ ConfirmReverted(j)
  \/ RecordDebitFailed(j) \/ StartSend(j) \/ SendWithdraw(j) \/ SendFails(j)
  \/ RecordSent(j) \/ RecordSendFailed(j) \/ StartDeliver(j)
  \/ SpokeNotConfigured(j) \/ Deliver(j) \/ DeliverFails(j)
  \/ RecordDelivered(j) \/ RecordDeliverFailed(j) \/ ApiCrash(j)

----------------------------------------------------------------------------
(* The chains. *)

offChain == <<rows, api, worker, retrying, budget>>

\* A broadcast requestWithdraw is mined in the current hub block; it reverts
\* if the credit is gone or the block already holds the same request.
MineRequest(j) ==
  /\ requests[j] > 0
  /\ requests' = [requests EXCEPT ![j] = @ - 1]
  /\ IF CanWithdraw(UserOf[j], AmountOf[j])
     THEN /\ RequestWithdraw(UserOf[j], AmountOf[j])
          /\ debits' = [debits EXCEPT ![j] = @ + 1]
          /\ receipt' = [receipt EXCEPT ![j] = "ok"]
     ELSE /\ receipt' = [receipt EXCEPT ![j] = "reverted"]
          /\ UNCHANGED <<debits, hubVars>>
  /\ UNCHANGED <<sent, vaultVars, inFlight, offChain>>

\* A spoke transaction nobody waits for any more is mined, or reverts.
MineSpoke(w) ==
  /\ w \in inFlight
  /\ inFlight' = inFlight \ {w}
  /\ IF ProcessedOnSpoke(w) THEN UNCHANGED vaultVars ELSE ReceiveMessage(w)
  /\ UNCHANGED <<step1Vars, sent, offChain>>

HubBlock ==
  /\ NextBlock
  /\ UNCHANGED <<requests, receipt, debits, sent, vaultVars, inFlight, offChain>>

Deposit(u, a, d) ==
  /\ CreditFromBridge(u, a, d)
  /\ UNCHANGED <<requests, receipt, debits, sent, vaultVars, inFlight, offChain>>

ExecuteTimelock(w) ==
  /\ ExecuteTimelockWithdrawal(w)
  /\ UNCHANGED <<step1Vars, sent, inFlight, offChain>>

CancelTimelock(w) ==
  /\ CancelTimelockWithdrawal(w)
  /\ UNCHANGED <<step1Vars, sent, inFlight, offChain>>

ChainNext ==
  \/ \E j \in Jobs : MineRequest(j)
  \/ \E w \in WithdrawIds : MineSpoke(w)
  \/ HubBlock
  \/ \E u \in Users, a \in Amounts, d \in Deposits : Deposit(u, a, d)
  \/ \E w \in WithdrawIds : ExecuteTimelock(w)
  \/ \E w \in WithdrawIds : CancelTimelock(w)

----------------------------------------------------------------------------
(* The retry worker, one cron invocation at a time or several at once. *)

WorkerStep(r, from, to) ==
  /\ worker[r].pc = from
  /\ worker' = [worker EXCEPT ![r].pc = to]

notWorker == <<api, retrying, chainVars>>

\* SELECT ... FOR UPDATE SKIP LOCKED LIMIT p_limit: any due claimable rows.
ClaimJobs(r) ==
  /\ worker[r].pc = "idle"
  /\ \E S \in SUBSET {j \in Jobs : rows[j].status \in ClaimableStatus} :
       /\ S # {} /\ Cardinality(S) <= Batch
       /\ rows' = [j \in Jobs |-> IF j \in S THEN ClaimRow(rows[j]) ELSE rows[j]]
       /\ worker' = [worker EXCEPT ![r] =
            [pc |-> "next", job |-> NULL,
             todo |-> {<<j, ClaimRow(rows[j]).status>> : j \in S}]]
  /\ UNCHANGED <<notWorker, budget>>

TakeJob(r) ==
  /\ worker[r].pc = "next"
  /\ \E c \in worker[r].todo :
       worker' = [worker EXCEPT ![r] =
         [pc |-> IF c[2] = "hub_sending" THEN "send" ELSE "deliver",
          job |-> c[1], todo |-> @.todo \ {c}]]
  /\ UNCHANGED <<rows, notWorker, budget>>

EndRun(r) ==
  /\ worker[r].pc = "next" /\ worker[r].todo = {}
  /\ worker' = [worker EXCEPT ![r] = [pc |-> "idle", job |-> NULL, todo |-> {}]]
  /\ UNCHANGED <<rows, notWorker, budget>>

\* findExistingWithdrawSent filters on an event signature the outbox does not
\* emit (its ABI lacks dstApp), so it finds nothing and step 2 is sent again.
WorkerSend(r) ==
  /\ WorkerStep(r, "send", "sendMined")
  /\ sent' = [sent EXCEPT ![rows[worker[r].job].withdrawId] = @ + 1]
  /\ UNCHANGED <<rows, api, retrying, step1Vars, vaultVars, inFlight, budget>>

WorkerSendFails(r) ==
  /\ WorkerStep(r, "send", "sendError")
  /\ Spend("faults")
  /\ UNCHANGED <<rows, notWorker>>

\* supabase.rpc reports an error in its result, which the worker ignores: the
\* run goes on whether or not the row was written.
RecordUnlessLost(j, row) ==
  \/ SetRow(j, row) /\ UNCHANGED budget
  \/ Spend("faults") /\ UNCHANGED rows

WorkerRecordSent(r) ==
  /\ WorkerStep(r, "sendMined", "advance")
  /\ RecordUnlessLost(worker[r].job, MarkSent(rows[worker[r].job]))
  /\ UNCHANGED notWorker

\* UPDATE ... SET status = 'spoke_delivering' WHERE status = 'hub_sent'.
WorkerAdvance(r) ==
  /\ WorkerStep(r, "advance", "deliver")
  /\ LET j == worker[r].job IN
     IF rows[j].status = "hub_sent"
     THEN RecordUnlessLost(j, MarkStep(rows[j], "spoke_delivering"))
     ELSE UNCHANGED <<rows, budget>>
  /\ UNCHANGED notWorker

WorkerRecordSendFailed(r) ==
  /\ WorkerStep(r, "sendError", "next")
  /\ RecordUnlessLost(worker[r].job,
       FailOrRequeue(rows[worker[r].job], "outbox_failed", MaxAttempts))
  /\ UNCHANGED notWorker

\* isWithdrawAlreadyProcessedOnSpoke, possible only with the vault's address.
WorkerCheck(r) ==
  /\ worker[r].pc = "deliver"
  /\ LET done == VaultKnown /\ ProcessedOnSpoke(rows[worker[r].job].withdrawId)
     IN  worker' = [worker EXCEPT ![r].pc = IF done THEN "already" ELSE "submit"]
  /\ UNCHANGED <<rows, notWorker, budget>>

\* receiveMessage; no error text of the adapter or the vault contains the words
\* the worker looks for, so a duplicate is an error like any other.
WorkerSubmit(r) ==
  LET w == rows[worker[r].job].withdrawId IN
  /\ worker[r].pc = "submit"
  /\ IF ProcessedOnSpoke(w)
     THEN WorkerStep(r, "submit", "deliverError") /\ UNCHANGED vaultVars
     ELSE WorkerStep(r, "submit", "complete") /\ ReceiveMessage(w)
  /\ UNCHANGED <<rows, api, retrying, step1Vars, sent, inFlight, budget>>

WorkerDeliverFails(r) ==
  /\ WorkerStep(r, "submit", "deliverError")
  /\ Spend("faults")
  /\ LeaveInFlight(TRUE, rows[worker[r].job].withdrawId)
  /\ UNCHANGED <<rows, api, retrying, step1Vars, sent, vaultVars>>

\* Without a transaction hash when the vault already knew the id.
WorkerComplete(r) ==
  /\ \E hasTx \in BOOLEAN :
       /\ WorkerStep(r, IF hasTx THEN "complete" ELSE "already", "next")
       /\ RecordUnlessLost(worker[r].job, CompleteRow(rows[worker[r].job], hasTx))
  /\ UNCHANGED notWorker

WorkerRecordDeliverFailed(r) ==
  /\ WorkerStep(r, "deliverError", "next")
  /\ RecordUnlessLost(worker[r].job,
       FailOrRequeue(rows[worker[r].job], "spoke_failed", MaxAttempts))
  /\ UNCHANGED notWorker

\* The function is killed: its claims stay in hub_sending or spoke_delivering.
WorkerCrash(r) ==
  /\ worker[r].pc # "idle"
  /\ Spend("faults")
  /\ worker' = [worker EXCEPT ![r] = [pc |-> "idle", job |-> NULL, todo |-> {}]]
  /\ \/ UNCHANGED inFlight
     \/ worker[r].pc = "submit" /\ LeaveInFlight(TRUE, rows[worker[r].job].withdrawId)
  /\ UNCHANGED <<rows, api, retrying, step1Vars, sent, vaultVars>>

WorkerNext(r) ==
  \/ ClaimJobs(r) \/ TakeJob(r) \/ EndRun(r) \/ WorkerSend(r)
  \/ WorkerSendFails(r) \/ WorkerRecordSent(r) \/ WorkerAdvance(r)
  \/ WorkerRecordSendFailed(r) \/ WorkerCheck(r) \/ WorkerSubmit(r)
  \/ WorkerDeliverFails(r) \/ WorkerComplete(r)
  \/ WorkerRecordDeliverFailed(r) \/ WorkerCrash(r)

----------------------------------------------------------------------------
(* The Released webhook and the operators' endpoints. *)

\* Alchemy may call it late, again or never; a completed row is left alone.
ReleasedListener(j) ==
  /\ rows[j].withdrawId # NULL /\ spoke[rows[j].withdrawId] = "released"
  /\ rows[j].status # "completed"
  /\ SetRow(j, CompleteRow(rows[j], TRUE))
  /\ UNCHANGED <<api, budget, otherVars>>

\* POST /api/admin/withdrawals/[id]/retry reads the row ...
AdminRetryRead(j) ==
  /\ retrying[j] = NULL
  /\ rows[j].status \notin {"absent", "completed"}
  /\ rows[j].withdrawId # NULL /\ ~rows[j].spokeDeliverTx
  /\ Spend("retries")
  /\ retrying' = [retrying EXCEPT ![j] =
       IF rows[j].hubSendTx THEN "spoke_failed" ELSE "outbox_failed"]
  /\ UNCHANGED <<rows, api, worker, chainVars>>

\* ... and writes it, whatever it has become.
AdminRetryWrite(j) ==
  /\ retrying[j] # NULL
  /\ SetRow(j, [rows[j] EXCEPT !.status = retrying[j], !.attempts = 0])
  /\ retrying' = [retrying EXCEPT ![j] = NULL]
  /\ UNCHANGED <<api, worker, chainVars, budget>>

\* POST /api/admin/withdrawals/[id]/resolve.
AdminResolve(j, resolution) ==
  /\ rows[j].status # "absent"
  /\ Spend("resolves")
  /\ \/ /\ resolution = "completed"
        /\ \E hasTx \in BOOLEAN :
             SetRow(j, [rows[j] EXCEPT !.status = "completed", !.spokeDeliverTx = hasTx,
                                       !.resolution = resolution])
     \/ /\ resolution = "abandoned"
        /\ SetRow(j, [rows[j] EXCEPT !.status = "requires_manual",
                                     !.resolution = resolution])
  /\ UNCHANGED <<api, worker, retrying, chainVars>>

OperatorNext ==
  \/ \E j \in Jobs : ReleasedListener(j)
  \/ \E j \in Jobs : AdminRetryRead(j)
  \/ \E j \in Jobs : AdminRetryWrite(j)
  \/ \E j \in Jobs, s \in {"completed", "abandoned"} : AdminResolve(j, s)

Next ==
  \/ \E j \in Jobs : ApiNext(j)
  \/ ChainNext
  \/ \E r \in Workers : WorkerNext(r)
  \/ OperatorNext

Spec == Init /\ [][Next]_vars

\* A handler that was called keeps running, the cron keeps calling the worker,
\* and a broadcast transaction is mined.  No fairness for users, operators,
\* the webhook, the timelock (nothing in the repository executes it) or faults.
ApiProgress(j) ==
  \/ StartDebit(j) \/ Simulate(j) \/ Broadcast(j) \/ ConfirmDebit(j)
  \/ ConfirmReverted(j) \/ RecordDebitFailed(j) \/ StartSend(j)
  \/ SendWithdraw(j) \/ RecordSent(j) \/ RecordSendFailed(j)
  \/ StartDeliver(j) \/ Deliver(j) \/ RecordDelivered(j) \/ RecordDeliverFailed(j)

FairSpec ==
  /\ Spec
  /\ \A j \in Jobs : WF_vars(ApiProgress(j)) /\ WF_vars(MineRequest(j))
  /\ \A r \in Workers : WF_vars(WorkerNext(r))
  /\ WF_vars(\E w \in WithdrawIds : MineSpoke(w))

----------------------------------------------------------------------------
(* Properties. *)

WorkerRun ==
  [pc : WorkerPc, job : Jobs \union {NULL}, todo : SUBSET Claims]

\* Every variable has its type; the columns a status relies on are typed by
\* ClaimedRowsHaveIds below.
TypeOK ==
  /\ HubTypeOK
  /\ SpokeTypeOK
  /\ rows \in [Jobs -> Rows(WithdrawIds)]
  /\ api \in [Jobs -> [pc : ApiPc, predicted : WithdrawIds \union {NULL}]]
  /\ requests \in [Jobs -> Nat]
  /\ receipt \in [Jobs -> {"none", "ok", "reverted"}]
  /\ debits \in [Jobs -> Nat]
  /\ sent \in [WithdrawIds -> Nat]
  /\ inFlight \subseteq WithdrawIds
  /\ worker \in [Workers -> WorkerRun]
  /\ retrying \in [Jobs -> ClaimableStatus \union {NULL}]
  /\ budget \in [{"resends", "faults", "retries", "resolves"} -> Nat]

\* Nothing leaves the spoke vault without a debit behind it: every withdrawId
\* the vault accepted is recorded in exactly one row, and the hub debited the
\* user of that row for it.  This must hold although the recorded id is only a
\* prediction, and two identical requests may predict the same one.
ReleaseBackedByDebit ==
  \A w \in WithdrawIds : ProcessedOnSpoke(w) =>
    \E j \in Jobs : /\ rows[j].withdrawId = w
                    /\ debits[j] > 0
                    /\ \A k \in Jobs \ {j} : rows[k].withdrawId # w

\* However many actors submit, time out and submit again, the USDC of a
\* withdrawId is transferred exactly when the vault records it as released,
\* and never twice.
PaidAtMostOnce ==
  \A w \in WithdrawIds : payouts[w] = IF spoke[w] = "released" THEN 1 ELSE 0

\* A row says completed only when the vault accepted its withdrawId, unless an
\* operator took the responsibility for saying so.
CompletedIsAccepted ==
  \A j \in Jobs :
    rows[j].status = "completed" /\ rows[j].resolution # "completed" =>
      rows[j].withdrawId # NULL /\ ProcessedOnSpoke(rows[j].withdrawId)

\* Whatever the worker can claim, holds, or is still to take carries the
\* withdrawId its steps need: the "missing withdraw_id" branches are dead.
ClaimedRowsHaveIds ==
  /\ \A j \in Jobs : rows[j].status \in ClaimableStatus => rows[j].withdrawId # NULL
  /\ \A r \in Workers :
       /\ \A c \in worker[r].todo : rows[c[1]].withdrawId # NULL
       /\ worker[r].job # NULL => rows[worker[r].job].withdrawId # NULL

\* The withdrawId of a row, the key of every later step, is never replaced:
\* mark_withdrawal_step would overwrite it.
WithdrawIdIsStable ==
  [][\A j \in Jobs : rows[j].withdrawId # NULL =>
        rows'[j].withdrawId = rows[j].withdrawId]_vars

\* Money only moves as CrossChainTransfer allows.
PaidFor(j) ==
  IF rows[j].withdrawId = NULL THEN 0 ELSE payouts[rows[j].withdrawId]

Transfer == INSTANCE CrossChainTransfer
              WITH debited <- debits, paid <- [j \in Jobs |-> PaidFor(j)]

ImplementsTransfer == Transfer!TransferSpec

\* Without faults and operators a request that was persisted ends: it is
\* completed, or it is refused and the user was not debited.
EndsWithoutFaults ==
  \A j \in Jobs : rows[j].status = "pending" ~>
    \/ rows[j].status = "completed"
    \/ rows[j].status = "hub_debit_failed" /\ debits[j] = 0

----------------------------------------------------------------------------
(* What comments in the repository say, and the code does not do. *)

\* src/app/api/withdraw/cross-chain/route.ts: the saga is persisted "so we never lose track of an
\* in-flight withdrawal (and the retry worker can pick it up if we crash)".
DebitedEventuallySettles ==
  \A j \in Jobs : debits[j] > 0 ~> rows[j].status \in TerminalStatus
=============================================================================
