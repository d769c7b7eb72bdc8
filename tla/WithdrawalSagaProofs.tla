------------------------ MODULE WithdrawalSagaProofs ------------------------
(***************************************************************************)
(* Proofs about WithdrawalSaga, for every number of requests, workers,     *)
(* faults and operator interventions.  The inductive invariant says how    *)
(* far an identifier has travelled: it is known to the API handler alone,  *)
(* then recorded in the row, and only a recorded one reaches the spoke.    *)
(***************************************************************************)
EXTENDS WithdrawalSaga, TLAPS

\* Handler states in which the row cannot carry an identifier yet.
BeforeRecord == {"idle", "created", "simulate", "broadcast", "awaitDebit"}

\* Handler states that work with the identifier recorded in the row.
AfterRecord == {"debited", "sending", "sendMined", "sendError", "sent",
                "delivering", "delivered", "deliverError"}

Recorded(w) == \E j \in Jobs : rows[j].withdrawId = w

\* The handler's copy of the identifier and the row agree.
ApiInv ==
  \A j \in Jobs :
    /\ api[j].pc \in {"broadcast", "awaitDebit"} => api[j].predicted # NULL
    /\ api[j].pc \in BeforeRecord => rows[j].withdrawId = NULL
    /\ api[j].pc \in AfterRecord => /\ api[j].predicted # NULL
                                    /\ rows[j].withdrawId = api[j].predicted

\* An identifier is recorded after its debit, in one row.
RowInv ==
  /\ \A j \in Jobs : receipt[j] = "ok" => debits[j] > 0
  /\ \A j \in Jobs : rows[j].withdrawId # NULL => debits[j] > 0
  /\ \A j, k \in Jobs : rows[j].withdrawId = rows[k].withdrawId
                          /\ rows[j].withdrawId # NULL => j = k

\* Only recorded identifiers are submitted to the spoke.
SpokeInv ==
  /\ \A w \in WithdrawIds : ProcessedOnSpoke(w) => Recorded(w)
  /\ \A w \in inFlight : Recorded(w)

\* A worker that is past "next" holds a job; an operator retries a row with an id.
HolderInv ==
  /\ \A r \in Workers : worker[r].pc \notin {"idle", "next"} => worker[r].job # NULL
  /\ \A j \in Jobs : retrying[j] # NULL => rows[j].withdrawId # NULL

\* Whoever is about to write "completed" has seen the vault accept the id.
AcceptedInv ==
  /\ \A j \in Jobs : api[j].pc = "delivered" => ProcessedOnSpoke(api[j].predicted)
  /\ \A r \in Workers : worker[r].pc \in {"complete", "already"} =>
       ProcessedOnSpoke(rows[worker[r].job].withdrawId)

IInv ==
  /\ TypeOK
  /\ ApiInv /\ RowInv /\ SpokeInv /\ HolderInv /\ AcceptedInv
  /\ ClaimedRowsHaveIds /\ PaidAtMostOnce /\ CompletedIsAccepted

----------------------------------------------------------------------------
(* Types. *)

\* The stored procedures return rows.
LEMMA CreateRowType == \A Ids : CreateRow \in Rows(Ids)
BY DEF CreateRow, AbsentRow, Rows, Status, ActiveStatus, TerminalStatus, Resolution

\* mark_withdrawal_step keeps a row a row.
LEMMA MarkStepType ==
  \A Ids : \A row \in Rows(Ids), to \in Status : MarkStep(row, to) \in Rows(Ids)
BY DEF MarkStep, Rows

\* Recording an identifier keeps a row a row.
LEMMA MarkDebitedType ==
  \A Ids : \A row \in Rows(Ids), id \in Ids : MarkDebited(row, id) \in Rows(Ids)
BY DEF MarkDebited, Rows, Status, ActiveStatus

\* Recording the hub transaction keeps a row a row.
LEMMA MarkSentType == \A Ids : \A row \in Rows(Ids) : MarkSent(row) \in Rows(Ids)
BY DEF MarkSent, Rows, Status, ActiveStatus

\* fail_or_requeue keeps a row a row, whichever status it chooses.
LEMMA FailOrRequeueType ==
  ASSUME NEW Ids, NEW row \in Rows(Ids), NEW to \in Status, NEW max \in Nat
  PROVE  FailOrRequeue(row, to, max) \in Rows(Ids)
<1> USE DEF Rows, Status, TerminalStatus
<1>1. row.attempts + 1 \in Nat
  OBVIOUS
<1>2. (IF row.attempts + 1 >= max THEN "requires_manual" ELSE to) \in Status
  OBVIOUS
<1> QED
  BY <1>1, <1>2 DEF FailOrRequeue

\* Claiming keeps a row a row.
LEMMA ClaimRowType == \A Ids : \A row \in Rows(Ids) : ClaimRow(row) \in Rows(Ids)
BY DEF ClaimRow, Rows, Status, ActiveStatus

\* complete_withdrawal_job keeps a row a row.
LEMMA CompleteRowType ==
  \A Ids : \A row \in Rows(Ids), hasTx \in BOOLEAN : CompleteRow(row, hasTx) \in Rows(Ids)
BY DEF CompleteRow, Rows, Status, TerminalStatus

\* The identifier requestWithdraw computes in the current block is one.
LEMMA IdType ==
  ASSUME TypeOK, NEW j \in Jobs
  PROVE  WithdrawIdAt(UserOf[j], AmountOf[j], block) \in WithdrawIds
BY SagaAssumption DEF TypeOK, HubTypeOK, WithdrawIdAt, WithdrawIds

\* Spending leaves a budget.
LEMMA SpendType ==
  ASSUME TypeOK, NEW what \in {"resends", "faults", "retries", "resolves"}, Spend(what)
  PROVE  budget' \in [{"resends", "faults", "retries", "resolves"} -> Nat]
BY DEF TypeOK, Spend

\* receiveMessage preserves the type of the vault's state.
LEMMA ReceiveType ==
  ASSUME SpokeTypeOK, NEW w \in WithdrawIds, ReceiveMessage(w)
  PROVE  SpokeTypeOK'
BY DEF SpokeTypeOK, SpokeState, ReceiveMessage, ProcessedOnSpoke

\* What is left in the mempool carries an identifier.
LEMMA LeaveType ==
  ASSUME TypeOK, NEW w \in WithdrawIds, NEW submitting, LeaveInFlight(submitting, w)
  PROVE  inFlight' \subseteq WithdrawIds
BY DEF TypeOK, LeaveInFlight

\* A step of the API handler preserves the types.
LEMMA ApiTypes ==
  ASSUME TypeOK, ApiInv, NEW j \in Jobs, ApiNext(j)
  PROVE  TypeOK'
<1>a. /\ rows[j] \in Rows(WithdrawIds)
      /\ api[j] \in [pc : ApiPc, predicted : WithdrawIds \union {NULL}]
  BY DEF TypeOK
<1>b. api[j].pc \in AfterRecord \union {"broadcast", "awaitDebit"} =>
        api[j].predicted \in WithdrawIds
  BY <1>a DEF ApiInv
<1> USE DEF otherVars, chainVars, step1Vars, vaultVars, hubVars, TypeOK, HubTypeOK, SpokeTypeOK,
            ApiStep, SetRow, ApiPc
<1>1. CASE CreateJob(j)
  BY <1>a, <1>1, CreateRowType DEF CreateJob
<1>2. CASE StartDebit(j)
  BY <1>a, <1>2, MarkStepType DEF StartDebit, Status, ActiveStatus, TerminalStatus
<1>3. CASE Simulate(j)
  BY <1>a, <1>3, IdType DEF Simulate
<1>4. CASE Broadcast(j)
  BY <1>a, <1>4 DEF Broadcast
<1>5. CASE BroadcastAgain(j)
  BY <1>a, <1>5, SpendType DEF BroadcastAgain
<1>6. CASE DebitFails(j)
  BY <1>a, <1>6, SpendType DEF DebitFails
<1>7. CASE ConfirmDebit(j)
  <2>1. api[j].predicted \in WithdrawIds
    BY <1>b, <1>7 DEF ConfirmDebit
  <2>2. MarkDebited(rows[j], api[j].predicted) \in Rows(WithdrawIds)
    BY <1>a, <2>1, MarkDebitedType
  <2>3. rows' \in [Jobs -> Rows(WithdrawIds)]
    BY <1>7, <2>2 DEF ConfirmDebit
  <2>4. api' \in [Jobs -> [pc : ApiPc, predicted : WithdrawIds \union {NULL}]]
    BY <1>a, <1>7 DEF ConfirmDebit
  <2> QED
    BY <1>7, <2>3, <2>4 DEF ConfirmDebit
<1>8. CASE ConfirmReverted(j)
  BY <1>a, <1>8 DEF ConfirmReverted
<1>9. CASE RecordDebitFailed(j)
  BY <1>a, <1>9, MarkStepType DEF RecordDebitFailed, Status, ActiveStatus, TerminalStatus
<1>10. CASE StartSend(j)
  BY <1>a, <1>10, MarkStepType DEF StartSend, Status, ActiveStatus, TerminalStatus
<1>11. CASE SendWithdraw(j)
  BY <1>a, <1>11, <1>b DEF SendWithdraw, AfterRecord
<1>12. CASE SendFails(j)
  BY <1>a, <1>12, SpendType DEF SendFails
<1>13. CASE RecordSent(j)
  BY <1>a, <1>13, MarkSentType DEF RecordSent
<1>14. CASE RecordSendFailed(j)
  BY <1>a, <1>14, FailOrRequeueType, SagaAssumption DEF RecordSendFailed, Status, ActiveStatus, TerminalStatus
<1>15. CASE StartDeliver(j)
  BY <1>a, <1>15, MarkStepType DEF StartDeliver, Status, ActiveStatus, TerminalStatus
<1>16. CASE SpokeNotConfigured(j)
  BY <1>a, <1>16, SpendType, FailOrRequeueType, SagaAssumption DEF SpokeNotConfigured, Status, ActiveStatus, TerminalStatus
<1>17. CASE Deliver(j)
  BY <1>a, <1>17, <1>b, ReceiveType DEF Deliver, AfterRecord
<1>18. CASE DeliverFails(j)
  BY <1>a, <1>18, <1>b, SpendType, LeaveType DEF DeliverFails, AfterRecord
<1>19. CASE RecordDelivered(j)
  <2>1. CompleteRow(rows[j], TRUE) \in Rows(WithdrawIds)
    BY <1>a, CompleteRowType
  <2>2. budget' \in [{"resends", "faults", "retries", "resolves"} -> Nat]
    BY <1>19, SpendType DEF RecordDelivered
  <2>3. api' \in [Jobs -> [pc : ApiPc, predicted : WithdrawIds \union {NULL}]]
    BY <1>a, <1>19 DEF RecordDelivered
  <2> QED
    BY <1>19, <2>1, <2>2, <2>3 DEF RecordDelivered
<1>20. CASE RecordDeliverFailed(j)
  BY <1>a, <1>20, FailOrRequeueType, SagaAssumption DEF RecordDeliverFailed, Status, ActiveStatus, TerminalStatus
<1>21. CASE ApiCrash(j)
  BY <1>a, <1>21, <1>b, SpendType, LeaveType DEF ApiCrash, AfterRecord, LeaveInFlight
<1> QED
  BY <1>1, <1>2, <1>3, <1>4, <1>5, <1>6, <1>7, <1>8, <1>9, <1>10, <1>11,
     <1>12, <1>13, <1>14, <1>15, <1>16, <1>17, <1>18, <1>19, <1>20, <1>21 DEF ApiNext

\* A step of the chains preserves the types.
LEMMA ChainTypes ==
  ASSUME TypeOK, ChainNext
  PROVE  TypeOK'
<1> USE DEF chainVars, step1Vars, vaultVars, hubVars, offChain, TypeOK, HubTypeOK, SpokeTypeOK
<1>1. ASSUME NEW j \in Jobs, MineRequest(j)
      PROVE  TypeOK'
  <2>1. /\ requests' \in [Jobs -> Nat]
        /\ debits' \in [Jobs -> Nat]
        /\ receipt' \in [Jobs -> {"none", "ok", "reverted"}]
    <3>1. requests[j] - 1 \in Nat /\ debits[j] + 1 \in Nat
      BY <1>1 DEF MineRequest
    <3> QED
      BY <1>1, <3>1 DEF MineRequest
  <2>2. HubTypeOK'
    <3>1. CASE CanWithdraw(UserOf[j], AmountOf[j])
      <4>1. UserOf[j] \in Users /\ AmountOf[j] \in Nat
        BY SagaAssumption, HubAssumption
      <4>2. credit[UserOf[j]] - AmountOf[j] \in Nat
        BY <3>1, <4>1 DEF CanWithdraw
      <4>3. WithdrawIdAt(UserOf[j], AmountOf[j], block) \in WithdrawIds
        BY IdType
      <4> QED
        BY <1>1, <3>1, <4>1, <4>2, <4>3 DEF MineRequest, RequestWithdraw
    <3>2. CASE ~CanWithdraw(UserOf[j], AmountOf[j])
      BY <1>1, <3>2 DEF MineRequest
    <3> QED
      BY <3>1, <3>2
  <2> QED
    BY <1>1, <2>1, <2>2 DEF MineRequest
<1>2. ASSUME NEW w \in WithdrawIds, MineSpoke(w)
      PROVE  TypeOK'
  BY <1>2, ReceiveType DEF MineSpoke
<1>3. CASE HubBlock
  BY <1>3, HubAssumption DEF HubBlock, NextBlock, Blocks
<1>4. ASSUME NEW u \in Users, NEW a \in Amounts, NEW d \in Deposits, Deposit(u, a, d)
      PROVE  TypeOK'
  BY <1>4, HubAssumption DEF Deposit, CreditFromBridge
<1>5. ASSUME NEW w \in WithdrawIds, ExecuteTimelock(w)
      PROVE  TypeOK'
  BY <1>5 DEF ExecuteTimelock, ExecuteTimelockWithdrawal, SpokeState
<1>6. ASSUME NEW w \in WithdrawIds, CancelTimelock(w)
      PROVE  TypeOK'
  BY <1>6 DEF CancelTimelock, CancelTimelockWithdrawal, SpokeState
<1> QED
  BY <1>1, <1>2, <1>3, <1>4, <1>5, <1>6 DEF ChainNext

\* A write of the worker, lost or not, preserves the types of the table.
LEMMA RecordType ==
  ASSUME TypeOK, NEW j \in Jobs, NEW row \in Rows(WithdrawIds), RecordUnlessLost(j, row)
  PROVE  /\ rows' \in [Jobs -> Rows(WithdrawIds)]
         /\ budget' \in [{"resends", "faults", "retries", "resolves"} -> Nat]
BY SpendType DEF RecordUnlessLost, SetRow, TypeOK

\* A move of the worker's program counter preserves its type.
LEMMA WorkerStepType ==
  ASSUME TypeOK, NEW r \in Workers, NEW from, NEW to \in WorkerPc, WorkerStep(r, from, to)
  PROVE  worker' \in [Workers -> WorkerRun]
BY DEF TypeOK, WorkerStep, WorkerRun

\* A step of the retry worker preserves the types.
LEMMA WorkerTypes ==
  ASSUME TypeOK, HolderInv, ClaimedRowsHaveIds, NEW r \in Workers, WorkerNext(r)
  PROVE  TypeOK'
<1>a. worker[r] \in WorkerRun
  BY DEF TypeOK
<1>b. worker[r].pc \notin {"idle", "next"} =>
        /\ worker[r].job \in Jobs
        /\ rows[worker[r].job] \in Rows(WithdrawIds)
        /\ rows[worker[r].job].withdrawId \in WithdrawIds
  BY <1>a DEF HolderInv, ClaimedRowsHaveIds, TypeOK, WorkerRun, Rows
<1> USE DEF notWorker, chainVars, step1Vars, vaultVars, hubVars, TypeOK, HubTypeOK, SpokeTypeOK,
            WorkerRun, WorkerPc
<1>1. CASE ClaimJobs(r)
  BY <1>a, <1>b, <1>1, ClaimRowType DEF ClaimJobs, Claims, ClaimRow
<1>2. CASE TakeJob(r)
  BY <1>a, <1>b, <1>2 DEF TakeJob, Claims
<1>3. CASE EndRun(r)
  BY <1>a, <1>b, <1>3 DEF EndRun
<1>4. CASE WorkerSend(r)
  <2>1. worker' \in [Workers -> WorkerRun]
    BY <1>4, WorkerStepType DEF WorkerSend
  <2>2. sent' \in [WithdrawIds -> Nat]
    BY <1>b, <1>4 DEF WorkerSend, WorkerStep
  <2> QED
    BY <1>4, <2>1, <2>2 DEF WorkerSend
<1>5. CASE WorkerSendFails(r)
  BY <1>a, <1>b, <1>5, SpendType DEF WorkerSendFails, WorkerStep
<1>6. CASE WorkerRecordSent(r)
  <2>1. MarkSent(rows[worker[r].job]) \in Rows(WithdrawIds)
    BY <1>b, <1>6, MarkSentType DEF WorkerRecordSent, WorkerStep, Status, ActiveStatus, TerminalStatus
  <2>2. /\ rows' \in [Jobs -> Rows(WithdrawIds)]
        /\ budget' \in [{"resends", "faults", "retries", "resolves"} -> Nat]
    BY <1>b, <1>6, <2>1, RecordType DEF WorkerRecordSent, WorkerStep
  <2>3. worker' \in [Workers -> WorkerRun]
    BY <1>6, WorkerStepType DEF WorkerRecordSent
  <2> QED
    BY <1>6, <2>2, <2>3 DEF WorkerRecordSent
<1>7. CASE WorkerAdvance(r)
  <2>1. MarkStep(rows[worker[r].job], "spoke_delivering") \in Rows(WithdrawIds)
    BY <1>b, <1>7, MarkStepType DEF WorkerAdvance, WorkerStep, Status, ActiveStatus
  <2>2. /\ rows' \in [Jobs -> Rows(WithdrawIds)]
        /\ budget' \in [{"resends", "faults", "retries", "resolves"} -> Nat]
    BY <1>b, <1>7, <2>1, RecordType DEF WorkerAdvance, WorkerStep
  <2>3. worker' \in [Workers -> WorkerRun]
    BY <1>7, WorkerStepType DEF WorkerAdvance
  <2> QED
    BY <1>7, <2>2, <2>3 DEF WorkerAdvance
<1>8. CASE WorkerRecordSendFailed(r)
  <2>1. FailOrRequeue(rows[worker[r].job], "outbox_failed", MaxAttempts) \in Rows(WithdrawIds)
    BY <1>b, <1>8, FailOrRequeueType, SagaAssumption DEF WorkerRecordSendFailed, WorkerStep, Status, ActiveStatus, TerminalStatus
  <2>2. /\ rows' \in [Jobs -> Rows(WithdrawIds)]
        /\ budget' \in [{"resends", "faults", "retries", "resolves"} -> Nat]
    BY <1>b, <1>8, <2>1, RecordType DEF WorkerRecordSendFailed, WorkerStep
  <2>3. worker' \in [Workers -> WorkerRun]
    BY <1>8, WorkerStepType DEF WorkerRecordSendFailed
  <2> QED
    BY <1>8, <2>2, <2>3 DEF WorkerRecordSendFailed
<1>9. CASE WorkerCheck(r)
  BY <1>a, <1>b, <1>9 DEF WorkerCheck, WorkerStep
<1>10. CASE WorkerSubmit(r)
  <2>1. worker' \in [Workers -> WorkerRun]
    BY <1>10, WorkerStepType DEF WorkerSubmit
  <2>2. SpokeTypeOK'
    BY <1>b, <1>10, ReceiveType DEF WorkerSubmit, WorkerStep
  <2> QED
    BY <1>10, <2>1, <2>2 DEF WorkerSubmit
<1>11. CASE WorkerDeliverFails(r)
  BY <1>a, <1>b, <1>11, SpendType, LeaveType DEF WorkerDeliverFails, WorkerStep
<1>12. CASE WorkerComplete(r)
  <2>1. PICK hasTx \in BOOLEAN :
          /\ WorkerStep(r, IF hasTx THEN "complete" ELSE "already", "next")
          /\ RecordUnlessLost(worker[r].job, CompleteRow(rows[worker[r].job], hasTx))
    BY <1>12 DEF WorkerComplete
  <2>2. worker[r].job \in Jobs /\ CompleteRow(rows[worker[r].job], hasTx) \in Rows(WithdrawIds)
    BY <1>b, <2>1, CompleteRowType DEF WorkerStep
  <2>3. /\ rows' \in [Jobs -> Rows(WithdrawIds)]
        /\ budget' \in [{"resends", "faults", "retries", "resolves"} -> Nat]
    BY <2>1, <2>2, RecordType
  <2>4. worker' \in [Workers -> WorkerRun]
    BY <2>1, WorkerStepType
  <2> QED
    BY <1>12, <2>3, <2>4 DEF WorkerComplete
<1>13. CASE WorkerRecordDeliverFailed(r)
  <2>1. FailOrRequeue(rows[worker[r].job], "spoke_failed", MaxAttempts) \in Rows(WithdrawIds)
    BY <1>b, <1>13, FailOrRequeueType, SagaAssumption DEF WorkerRecordDeliverFailed, WorkerStep, Status, ActiveStatus, TerminalStatus
  <2>2. /\ rows' \in [Jobs -> Rows(WithdrawIds)]
        /\ budget' \in [{"resends", "faults", "retries", "resolves"} -> Nat]
    BY <1>b, <1>13, <2>1, RecordType DEF WorkerRecordDeliverFailed, WorkerStep
  <2>3. worker' \in [Workers -> WorkerRun]
    BY <1>13, WorkerStepType DEF WorkerRecordDeliverFailed
  <2> QED
    BY <1>13, <2>2, <2>3 DEF WorkerRecordDeliverFailed
<1>14. CASE WorkerCrash(r)
  BY <1>a, <1>b, <1>14, SpendType, LeaveType DEF WorkerCrash
<1> QED
  BY <1>1, <1>2, <1>3, <1>4, <1>5, <1>6, <1>7, <1>8, <1>9, <1>10, <1>11, <1>12, <1>13, <1>14
     DEF WorkerNext

\* A step of the listener or the operators preserves the types.
LEMMA OperatorTypes ==
  ASSUME TypeOK, OperatorNext
  PROVE  TypeOK'
<1> USE DEF otherVars, chainVars, step1Vars, vaultVars, hubVars, TypeOK, HubTypeOK, SpokeTypeOK,
            SetRow
<1>a. \A j \in Jobs : rows[j] \in Rows(WithdrawIds)
  OBVIOUS
<1>1. ASSUME NEW j \in Jobs, ReleasedListener(j)
      PROVE  TypeOK'
  BY <1>a, <1>1, CompleteRowType DEF ReleasedListener
<1>2. ASSUME NEW j \in Jobs, AdminRetryRead(j)
      PROVE  TypeOK'
  BY <1>2, SpendType DEF AdminRetryRead, ClaimableStatus
<1>3. ASSUME NEW j \in Jobs, AdminRetryWrite(j)
      PROVE  TypeOK'
  <2>1. retrying[j] \in Status
    BY <1>3 DEF AdminRetryWrite, ClaimableStatus, Status, ActiveStatus
  <2>2. [rows[j] EXCEPT !.status = retrying[j], !.attempts = 0] \in Rows(WithdrawIds)
    BY <1>a, <2>1 DEF Rows
  <2> QED
    BY <1>3, <2>2 DEF AdminRetryWrite
<1>4. ASSUME NEW j \in Jobs, NEW s \in {"completed", "abandoned"}, AdminResolve(j, s)
      PROVE  TypeOK'
  <2>1. budget' \in [{"resends", "faults", "retries", "resolves"} -> Nat]
    BY <1>4, SpendType DEF AdminResolve
  <2>2. \A hasTx \in BOOLEAN :
          [rows[j] EXCEPT !.status = "completed", !.spokeDeliverTx = hasTx, !.resolution = s]
            \in Rows(WithdrawIds)
    BY <1>a DEF Rows, Status, TerminalStatus, Resolution
  <2>3. [rows[j] EXCEPT !.status = "requires_manual", !.resolution = s] \in Rows(WithdrawIds)
    BY <1>a DEF Rows, Status, TerminalStatus, Resolution
  <2>4. rows' \in [Jobs -> Rows(WithdrawIds)]
    BY <1>4, <2>2, <2>3 DEF AdminResolve
  <2> QED
    BY <1>4, <2>1, <2>4 DEF AdminResolve
<1> QED
  BY <1>1, <1>2, <1>3, <1>4 DEF OperatorNext

----------------------------------------------------------------------------
(* The inductive invariant. *)

Kept == ApiInv /\ RowInv /\ SpokeInv /\ HolderInv /\ AcceptedInv /\ ClaimedRowsHaveIds
        /\ PaidAtMostOnce /\ CompletedIsAccepted

\* The identifiers that are held are identifiers.
LEMMA HeldIds ==
  ASSUME IInv
  PROVE  /\ \A j \in Jobs : rows[j].withdrawId \in WithdrawIds \union {NULL}
         /\ \A j \in Jobs : api[j].pc \in AfterRecord => api[j].predicted \in WithdrawIds
         /\ \A r \in Workers : worker[r].pc \notin {"idle", "next"} =>
              /\ worker[r].job \in Jobs
              /\ rows[worker[r].job].withdrawId \in WithdrawIds
<1>1. \A j \in Jobs : rows[j].withdrawId \in WithdrawIds \union {NULL}
  BY DEF IInv, TypeOK, Rows
<1>2. \A j \in Jobs : api[j].pc \in AfterRecord => api[j].predicted \in WithdrawIds
  BY DEF IInv, TypeOK, ApiInv
<1>3. \A r \in Workers : worker[r].pc \notin {"idle", "next"} =>
        worker[r].job \in Jobs /\ rows[worker[r].job].withdrawId # NULL
  BY DEF IInv, TypeOK, HolderInv, ClaimedRowsHaveIds, WorkerRun
<1> QED
  BY <1>1, <1>2, <1>3

\* Spoke steps only ever add accepted identifiers, which disturbs nothing that
\* was recorded as accepted.
LEMMA SpokeStep ==
  ASSUME IInv, UNCHANGED <<rows, worker>>,
         \A w \in WithdrawIds : spoke[w] # "unknown" => spoke'[w] # "unknown"
  PROVE  /\ \A r \in Workers : worker[r].pc \in {"complete", "already"} =>
              spoke'[rows[worker[r].job].withdrawId] # "unknown"
         /\ \A j \in Jobs : api[j].pc = "delivered" => spoke'[api[j].predicted] # "unknown"
         /\ CompletedIsAccepted'
<1>1. ASSUME NEW r \in Workers, worker[r].pc \in {"complete", "already"}
      PROVE  spoke'[rows[worker[r].job].withdrawId] # "unknown"
  BY <1>1, HeldIds DEF IInv, AcceptedInv, ProcessedOnSpoke
<1>2. ASSUME NEW j \in Jobs, api[j].pc = "delivered"
      PROVE  spoke'[api[j].predicted] # "unknown"
  BY <1>2, HeldIds DEF IInv, AcceptedInv, AfterRecord, ProcessedOnSpoke
<1>3. CompletedIsAccepted'
  BY HeldIds DEF IInv, CompletedIsAccepted, ProcessedOnSpoke
<1> QED
  BY <1>1, <1>2, <1>3

\* A step of the API handler preserves the rest of the invariant.
LEMMA ApiInvariant ==
  ASSUME IInv, NEW j \in Jobs, ApiNext(j)
  PROVE  Kept'
<1>a. /\ rows \in [Jobs -> Rows(WithdrawIds)]
      /\ api \in [Jobs -> [pc : ApiPc, predicted : WithdrawIds \union {NULL}]]
      /\ inFlight \subseteq WithdrawIds
      /\ worker \in [Workers -> WorkerRun]
      /\ spoke \in [WithdrawIds -> SpokeState] /\ payouts \in [WithdrawIds -> Nat]
      /\ debits \in [Jobs -> Nat]
      /\ rows[j] \in Rows(WithdrawIds)
      /\ api[j] \in [pc : ApiPc, predicted : WithdrawIds \union {NULL}]
      /\ NULL \notin WithdrawIds
  BY SagaAssumption DEF IInv, TypeOK, SpokeTypeOK
<1> USE DEF otherVars, chainVars, step1Vars, vaultVars, hubVars, ApiStep, SetRow, BeforeRecord, AfterRecord, Recorded, IInv, ProcessedOnSpoke,
            WorkerRun, Claims, ApiInv, RowInv, SpokeInv, HolderInv, AcceptedInv,
            ClaimedRowsHaveIds, PaidAtMostOnce, CompletedIsAccepted, Kept, ClaimableStatus
<1>1. CASE CreateJob(j)
  BY <1>a, <1>1 DEF CreateJob, CreateRow, AbsentRow
<1>2. CASE StartDebit(j)
  BY <1>a, <1>2 DEF StartDebit, MarkStep
<1>3. CASE Simulate(j)
  <2>1. WithdrawIdAt(UserOf[j], AmountOf[j], block) # NULL
    BY <1>a, IdType
  <2> QED
    BY <1>a, <1>3, <2>1 DEF Simulate
<1>4. CASE Broadcast(j)
  BY <1>a, <1>4 DEF Broadcast
<1>5. CASE BroadcastAgain(j)
  BY <1>a, <1>5 DEF BroadcastAgain
<1>6. CASE DebitFails(j)
  BY <1>a, <1>6 DEF DebitFails
<1>7. CASE ConfirmDebit(j)
  <2>1. CASE ~UniqueWithdrawId(rows, j, api[j].predicted)
    <3>1. api' = [api EXCEPT ![j].pc = "debitError"] /\ UNCHANGED <<rows, otherVars>>
      BY <1>7, <2>1 DEF ConfirmDebit
    <3> QED
      BY <1>a, <3>1
  <2>2. CASE UniqueWithdrawId(rows, j, api[j].predicted)
    <3>1. /\ api[j].pc = "awaitDebit" /\ receipt[j] = "ok"
          /\ api' = [api EXCEPT ![j].pc = "debited"]
          /\ rows' = [rows EXCEPT ![j] = MarkDebited(rows[j], api[j].predicted)]
          /\ UNCHANGED <<otherVars, budget>>
      BY <1>7, <2>2 DEF ConfirmDebit
    <3>2. /\ rows[j].withdrawId = NULL /\ api[j].predicted \in WithdrawIds /\ debits[j] > 0
          /\ \A k \in Jobs \ {j} : rows[k].withdrawId # api[j].predicted
      BY <1>a, <2>2, <3>1 DEF UniqueWithdrawId
    <3>3. /\ rows'[j].withdrawId = api[j].predicted /\ rows'[j].status = "hub_debited"
          /\ rows'[j].resolution = rows[j].resolution
          /\ \A k \in Jobs \ {j} : rows'[k] = rows[k]
          /\ \A k \in Jobs : rows[k].withdrawId # NULL => rows'[k].withdrawId = rows[k].withdrawId
      BY <1>a, <3>1, <3>2 DEF MarkDebited, Rows
    <3>4. ApiInv'
      BY <1>a, <3>1, <3>2, <3>3
    <3>5. RowInv'
      BY <1>a, <3>1, <3>2, <3>3
    <3>6. SpokeInv'
      BY <1>a, <3>1, <3>2, <3>3
    <3>7. HolderInv'
      BY <1>a, <3>1, <3>2, <3>3
    <3>8. AcceptedInv'
      BY <1>a, <3>1, <3>2, <3>3
    <3>9. ClaimedRowsHaveIds'
      BY <1>a, <3>1, <3>2, <3>3
    <3>10. PaidAtMostOnce' /\ CompletedIsAccepted'
      BY <1>a, <3>1, <3>2, <3>3
    <3> QED
      BY <3>4, <3>5, <3>6, <3>7, <3>8, <3>9, <3>10
  <2> QED
    BY <2>1, <2>2
<1>8. CASE ConfirmReverted(j)
  BY <1>a, <1>8 DEF ConfirmReverted
<1>9. CASE RecordDebitFailed(j)
  BY <1>a, <1>9 DEF RecordDebitFailed, MarkStep
<1>10. CASE StartSend(j)
  BY <1>a, <1>10 DEF StartSend, MarkStep
<1>11. CASE SendWithdraw(j)
  BY <1>a, <1>11 DEF SendWithdraw
<1>12. CASE SendFails(j)
  BY <1>a, <1>12 DEF SendFails
<1>13. CASE RecordSent(j)
  BY <1>a, <1>13 DEF RecordSent, MarkSent
<1>14. CASE RecordSendFailed(j)
  BY <1>a, <1>14 DEF RecordSendFailed, FailOrRequeue
<1>15. CASE StartDeliver(j)
  BY <1>a, <1>15 DEF StartDeliver, MarkStep
<1>16. CASE SpokeNotConfigured(j)
  BY <1>a, <1>16 DEF SpokeNotConfigured, FailOrRequeue
<1>17. CASE Deliver(j)
  <2>1. CASE ProcessedOnSpoke(api[j].predicted)
    <3>1. /\ api[j].pc = "delivering" /\ api' = [api EXCEPT ![j].pc = "deliverError"]
          /\ UNCHANGED <<rows, otherVars>>
      BY <1>17, <2>1 DEF Deliver
    <3> QED
      BY <1>a, <3>1
  <2>2. CASE ~ProcessedOnSpoke(api[j].predicted)
    <3>1. /\ api[j].pc = "delivering" /\ api' = [api EXCEPT ![j].pc = "delivered"]
          /\ ReceiveMessage(api[j].predicted)
          /\ UNCHANGED <<rows, step1Vars, sent, inFlight, worker, retrying, budget>>
      BY <1>17, <2>2 DEF Deliver
    <3>2. /\ api[j].predicted \in WithdrawIds /\ rows[j].withdrawId = api[j].predicted
          /\ \A w \in WithdrawIds : ProcessedOnSpoke(w)' <=> ProcessedOnSpoke(w) \/ w = api[j].predicted
          /\ PaidAtMostOnce'
      BY <1>a, <3>1 DEF ReceiveMessage
    <3>3. ApiInv' /\ RowInv' /\ SpokeInv' /\ HolderInv'
      BY <1>a, <3>1, <3>2
    <3>4. AcceptedInv' /\ CompletedIsAccepted'
      BY <1>a, <3>1, <3>2, SpokeStep
    <3>5. ClaimedRowsHaveIds'
      BY <1>a, <3>1
    <3> QED
      BY <3>2, <3>3, <3>4, <3>5
  <2> QED
    BY <2>1, <2>2
<1>18. CASE DeliverFails(j)
  BY <1>a, <1>18 DEF DeliverFails, LeaveInFlight
<1>19. CASE RecordDelivered(j)
  <2>1. PICK to \in {"done", "deliverError"} :
          /\ api[j].pc = "delivered" /\ api' = [api EXCEPT ![j].pc = to]
          /\ rows' = [rows EXCEPT ![j] = CompleteRow(rows[j], TRUE)]
          /\ UNCHANGED otherVars
    BY <1>19 DEF RecordDelivered
  <2> QED
    BY <1>a, <2>1 DEF CompleteRow
<1>20. CASE RecordDeliverFailed(j)
  BY <1>a, <1>20 DEF RecordDeliverFailed, FailOrRequeue
<1>21. CASE ApiCrash(j)
  BY <1>a, <1>21 DEF ApiCrash, LeaveInFlight
<1> QED
  BY <1>1, <1>2, <1>3, <1>4, <1>5, <1>6, <1>7, <1>8, <1>9, <1>10, <1>11, <1>12, <1>13, <1>14, <1>15, <1>16, <1>17, <1>18, <1>19, <1>20, <1>21 DEF ApiNext

\* A step of the chains preserves the rest of the invariant.
LEMMA ChainInvariant ==
  ASSUME IInv, ChainNext
  PROVE  Kept'
<1>a. /\ rows \in [Jobs -> Rows(WithdrawIds)]
      /\ api \in [Jobs -> [pc : ApiPc, predicted : WithdrawIds \union {NULL}]]
      /\ inFlight \subseteq WithdrawIds
      /\ worker \in [Workers -> WorkerRun]
      /\ spoke \in [WithdrawIds -> SpokeState] /\ payouts \in [WithdrawIds -> Nat]
      /\ debits \in [Jobs -> Nat]
      /\ NULL \notin WithdrawIds
  BY SagaAssumption DEF IInv, TypeOK, SpokeTypeOK
<1> USE DEF chainVars, step1Vars, vaultVars, hubVars, offChain, SetRow, BeforeRecord, AfterRecord, Recorded, IInv, ProcessedOnSpoke,
            WorkerRun, Claims, ApiInv, RowInv, SpokeInv, HolderInv, AcceptedInv,
            ClaimedRowsHaveIds, PaidAtMostOnce, CompletedIsAccepted, Kept, ClaimableStatus
<1>1. ASSUME NEW j \in Jobs, MineRequest(j)
      PROVE  Kept'
  <2>1. /\ \A k \in Jobs : debits[k] > 0 => debits'[k] > 0
        /\ \A k \in Jobs : receipt'[k] = "ok" => debits'[k] > 0
        /\ UNCHANGED <<sent, vaultVars, inFlight, offChain>>
    <3>1. debits[j] + 1 > 0
      BY <1>a
    <3>2. /\ debits' = debits \/ debits' = [debits EXCEPT ![j] = @ + 1]
          /\ \/ receipt' = [receipt EXCEPT ![j] = "reverted"]
             \/ receipt' = [receipt EXCEPT ![j] = "ok"] /\ debits' = [debits EXCEPT ![j] = @ + 1]
          /\ UNCHANGED <<sent, vaultVars, inFlight, offChain>>
      BY <1>1 DEF MineRequest
    <3>3. receipt \in [Jobs -> {"none", "ok", "reverted"}]
      BY DEF TypeOK
    <3> QED
      BY <1>a, <3>1, <3>2, <3>3
  <2> QED
    BY <1>a, <2>1
<1>2. ASSUME NEW w \in WithdrawIds, MineSpoke(w)
      PROVE  Kept'
  <2>1. /\ \A v \in WithdrawIds : ProcessedOnSpoke(v)' <=> ProcessedOnSpoke(v) \/ v = w
        /\ PaidAtMostOnce'
        /\ UNCHANGED <<step1Vars, sent, offChain>>
        /\ Recorded(w) /\ inFlight' \subseteq inFlight
    BY <1>a, <1>2 DEF MineSpoke, ReceiveMessage
  <2>2. ApiInv' /\ RowInv' /\ SpokeInv' /\ HolderInv' /\ ClaimedRowsHaveIds'
    BY <1>a, <2>1
  <2>3. AcceptedInv' /\ CompletedIsAccepted'
    BY <2>1, SpokeStep
  <2> QED
    BY <2>1, <2>2, <2>3
<1>3. CASE HubBlock
  BY <1>a, <1>3 DEF HubBlock, NextBlock
<1>4. ASSUME NEW u \in Users, NEW a \in Amounts, NEW d \in Deposits, Deposit(u, a, d)
      PROVE  Kept'
  BY <1>a, <1>4 DEF Deposit, CreditFromBridge
<1>5. ASSUME NEW w \in WithdrawIds, ExecuteTimelock(w)
      PROVE  Kept'
  <2>1. /\ \A v \in WithdrawIds : ProcessedOnSpoke(v)' <=> ProcessedOnSpoke(v)
        /\ PaidAtMostOnce'
        /\ UNCHANGED <<step1Vars, sent, inFlight, offChain>>
    BY <1>a, <1>5 DEF ExecuteTimelock, ExecuteTimelockWithdrawal
  <2>2. AcceptedInv' /\ CompletedIsAccepted'
    BY <2>1, SpokeStep
  <2> QED
    BY <1>a, <2>1, <2>2
<1>6. ASSUME NEW w \in WithdrawIds, CancelTimelock(w)
      PROVE  Kept'
  <2>1. /\ \A v \in WithdrawIds : ProcessedOnSpoke(v)' <=> ProcessedOnSpoke(v)
        /\ PaidAtMostOnce'
        /\ UNCHANGED <<step1Vars, sent, inFlight, offChain>>
    BY <1>a, <1>6 DEF CancelTimelock, CancelTimelockWithdrawal
  <2>2. AcceptedInv' /\ CompletedIsAccepted'
    BY <2>1, SpokeStep
  <2> QED
    BY <1>a, <2>1, <2>2
<1> QED
  BY <1>1, <1>2, <1>3, <1>4, <1>5, <1>6 DEF ChainNext

\* A worker writes the row of its job, or its write is lost: the row keeps its
\* identifier and is completed only if the vault accepted that identifier.
LEMMA WorkerRowWrite ==
  ASSUME IInv, NEW r \in Workers,
         worker[r].pc \notin {"idle", "next"},
         worker'[r].pc \in {"next", "advance", "deliver"},
         worker' = [worker EXCEPT ![r].pc = worker'[r].pc],
         UNCHANGED notWorker,
         NEW row \in Rows(WithdrawIds),
         row.withdrawId = rows[worker[r].job].withdrawId,
         row.status = "completed" => ProcessedOnSpoke(row.withdrawId),
         rows' = rows \/ rows' = [rows EXCEPT ![worker[r].job] = row]
  PROVE  Kept'
<1>a. /\ rows \in [Jobs -> Rows(WithdrawIds)]
      /\ worker \in [Workers -> WorkerRun]
      /\ worker[r].job \in Jobs
      /\ row.withdrawId \in WithdrawIds
      /\ NULL \notin WithdrawIds
  BY HeldIds, SagaAssumption DEF IInv, TypeOK
<1>1. \A k \in Jobs : rows'[k].withdrawId = rows[k].withdrawId
  BY <1>a
<1>2. \A q \in Workers : /\ worker'[q].job = worker[q].job /\ worker'[q].todo = worker[q].todo
                         /\ worker'[q].pc # worker[q].pc =>
                              worker'[q].pc \in {"next", "advance", "deliver"} /\ q = r
  BY <1>a DEF WorkerRun
<1> USE DEF notWorker, chainVars, step1Vars, vaultVars, hubVars
<1>3. ApiInv' /\ RowInv'
  BY <1>1 DEF IInv, ApiInv, RowInv
<1>4. SpokeInv' /\ PaidAtMostOnce'
  BY <1>1 DEF IInv, SpokeInv, Recorded, ProcessedOnSpoke, PaidAtMostOnce
<1>5. HolderInv'
  BY <1>1, <1>2 DEF IInv, HolderInv
<1>6. ClaimedRowsHaveIds'
  BY <1>a, <1>1, <1>2 DEF IInv, ClaimedRowsHaveIds, WorkerRun, Claims
<1>7. AcceptedInv'
  BY <1>1, <1>2, HeldIds DEF IInv, AcceptedInv, ProcessedOnSpoke
<1>8. CompletedIsAccepted'
  BY <1>a, <1>1 DEF IInv, CompletedIsAccepted, ProcessedOnSpoke
<1> QED
  BY <1>3, <1>4, <1>5, <1>6, <1>7, <1>8 DEF Kept

\* A step of the retry worker preserves the rest of the invariant.
LEMMA WorkerInvariant ==
  ASSUME IInv, NEW r \in Workers, WorkerNext(r)
  PROVE  Kept'
<1>a. /\ rows \in [Jobs -> Rows(WithdrawIds)]
      /\ api \in [Jobs -> [pc : ApiPc, predicted : WithdrawIds \union {NULL}]]
      /\ inFlight \subseteq WithdrawIds
      /\ worker \in [Workers -> WorkerRun]
      /\ spoke \in [WithdrawIds -> SpokeState] /\ payouts \in [WithdrawIds -> Nat]
      /\ NULL \notin WithdrawIds
  BY SagaAssumption DEF IInv, TypeOK, SpokeTypeOK
<1>b. /\ worker[r] \in WorkerRun
      /\ worker[r].pc \notin {"idle", "next"} =>
           /\ worker[r].job \in Jobs
           /\ rows[worker[r].job].withdrawId \in WithdrawIds
  BY <1>a DEF IInv, HolderInv, ClaimedRowsHaveIds, WorkerRun, Rows
<1> USE DEF chainVars, step1Vars, vaultVars, hubVars, notWorker, WorkerStep, RecordUnlessLost,
            SetRow, BeforeRecord, AfterRecord, Recorded, IInv, ProcessedOnSpoke,
            WorkerRun, Claims, ApiInv, RowInv, SpokeInv, HolderInv, AcceptedInv,
            ClaimedRowsHaveIds, PaidAtMostOnce, CompletedIsAccepted, Kept, ClaimableStatus
<1>1. CASE ClaimJobs(r)
  BY <1>a, <1>b, <1>1 DEF ClaimJobs, ClaimRow
<1>2. CASE TakeJob(r)
  <2>1. PICK c \in worker[r].todo :
          worker' = [worker EXCEPT ![r] =
            [pc |-> IF c[2] = "hub_sending" THEN "send" ELSE "deliver",
             job |-> c[1], todo |-> @.todo \ {c}]]
    BY <1>2 DEF TakeJob
  <2>2. c[1] \in Jobs /\ rows[c[1]].withdrawId # NULL /\ UNCHANGED <<rows, notWorker, budget>>
    BY <1>b, <1>2, <2>1 DEF TakeJob
  <2>3. /\ worker'[r].job = c[1] /\ worker'[r].todo \subseteq worker[r].todo
        /\ worker'[r].pc \in {"send", "deliver"}
        /\ \A q \in Workers \ {r} : worker'[q] = worker[q]
    BY <1>a, <1>b, <2>1
  <2>4. ApiInv' /\ RowInv' /\ SpokeInv' /\ PaidAtMostOnce' /\ CompletedIsAccepted'
    BY <2>2
  <2>5. HolderInv' /\ AcceptedInv'
    <3>1. c[1] # NULL
      BY <2>2, SagaAssumption
    <3>2. HolderInv'
      BY <1>a, <2>2, <2>3, <3>1
    <3>3. \A q \in Workers : worker'[q].pc \in {"complete", "already"} => worker'[q] = worker[q]
      BY <2>3
    <3>4. AcceptedInv'
      BY <2>2, <3>3
    <3> QED
      BY <3>2, <3>4
  <2>6. ClaimedRowsHaveIds'
    BY <1>a, <2>2, <2>3
  <2> QED
    BY <2>4, <2>5, <2>6
<1>3. CASE EndRun(r)
  BY <1>a, <1>b, <1>3 DEF EndRun
<1>4. CASE WorkerSend(r)
  BY <1>a, <1>b, <1>4 DEF WorkerSend
<1>5. CASE WorkerSendFails(r)
  BY <1>a, <1>b, <1>5 DEF WorkerSendFails
<1>6. CASE WorkerRecordSent(r)
  <2>1. /\ worker' = [worker EXCEPT ![r].pc = "advance"]
        /\ worker[r].pc \notin {"idle", "next"}
        /\ UNCHANGED notWorker
    BY <1>6 DEF WorkerRecordSent
  <2>2. worker'[r].pc = "advance" /\ worker' = [worker EXCEPT ![r].pc = worker'[r].pc]
    BY <1>a, <2>1 DEF WorkerRun
  <2>3. PICK row \in Rows(WithdrawIds) :
          /\ row.withdrawId = rows[worker[r].job].withdrawId /\ row.status # "completed"
          /\ rows' = rows \/ rows' = [rows EXCEPT ![worker[r].job] = row]
    <3>1. MarkSent(rows[worker[r].job]) \in Rows(WithdrawIds)
      BY <1>a, <1>b, <2>1, MarkSentType
    <3>2. /\ MarkSent(rows[worker[r].job]).withdrawId = rows[worker[r].job].withdrawId
          /\ MarkSent(rows[worker[r].job]).status # "completed"
      BY <1>a, <1>b, <2>1 DEF MarkSent, Rows
    <3> QED
      BY <1>6, <3>1, <3>2 DEF WorkerRecordSent
  <2> QED
    BY <2>1, <2>2, <2>3, WorkerRowWrite
<1>7. CASE WorkerAdvance(r)
  <2>1. /\ worker' = [worker EXCEPT ![r].pc = "deliver"]
        /\ worker[r].pc \notin {"idle", "next"}
        /\ UNCHANGED notWorker
    BY <1>7 DEF WorkerAdvance
  <2>2. worker'[r].pc = "deliver" /\ worker' = [worker EXCEPT ![r].pc = worker'[r].pc]
    BY <1>a, <2>1 DEF WorkerRun
  <2>3. PICK row \in Rows(WithdrawIds) :
          /\ row.withdrawId = rows[worker[r].job].withdrawId /\ row.status # "completed"
          /\ rows' = rows \/ rows' = [rows EXCEPT ![worker[r].job] = row]
    <3>1. MarkStep(rows[worker[r].job], "spoke_delivering") \in Rows(WithdrawIds)
      BY <1>a, <1>b, <2>1, MarkStepType DEF Status, ActiveStatus
    <3>2. /\ MarkStep(rows[worker[r].job], "spoke_delivering").withdrawId = rows[worker[r].job].withdrawId
          /\ MarkStep(rows[worker[r].job], "spoke_delivering").status # "completed"
      BY <1>a, <1>b, <2>1 DEF MarkStep, Rows
    <3> QED
      BY <1>7, <3>1, <3>2 DEF WorkerAdvance
  <2> QED
    BY <2>1, <2>2, <2>3, WorkerRowWrite
<1>8. CASE WorkerRecordSendFailed(r)
  <2>1. /\ worker' = [worker EXCEPT ![r].pc = "next"]
        /\ worker[r].pc \notin {"idle", "next"}
        /\ UNCHANGED notWorker
    BY <1>8 DEF WorkerRecordSendFailed
  <2>2. worker'[r].pc = "next" /\ worker' = [worker EXCEPT ![r].pc = worker'[r].pc]
    BY <1>a, <2>1 DEF WorkerRun
  <2>3. PICK row \in Rows(WithdrawIds) :
          /\ row.withdrawId = rows[worker[r].job].withdrawId /\ row.status # "completed"
          /\ rows' = rows \/ rows' = [rows EXCEPT ![worker[r].job] = row]
    <3>1. FailOrRequeue(rows[worker[r].job], "outbox_failed", MaxAttempts) \in Rows(WithdrawIds)
      BY <1>a, <1>b, <2>1, FailOrRequeueType, SagaAssumption
         DEF Status, ActiveStatus
    <3>2. /\ FailOrRequeue(rows[worker[r].job], "outbox_failed", MaxAttempts).withdrawId = rows[worker[r].job].withdrawId
          /\ FailOrRequeue(rows[worker[r].job], "outbox_failed", MaxAttempts).status # "completed"
      BY <1>a, <1>b, <2>1 DEF FailOrRequeue, Rows
    <3> QED
      BY <1>8, <3>1, <3>2 DEF WorkerRecordSendFailed
  <2> QED
    BY <2>1, <2>2, <2>3, WorkerRowWrite
<1>9. CASE WorkerCheck(r)
  BY <1>a, <1>b, <1>9 DEF WorkerCheck
<1>10. CASE WorkerSubmit(r)
  <2> DEFINE w == rows[worker[r].job].withdrawId
  <2>1. CASE ProcessedOnSpoke(w)
    <3>1. /\ worker[r].pc = "submit" /\ worker' = [worker EXCEPT ![r].pc = "deliverError"]
          /\ UNCHANGED <<rows, notWorker, budget>>
      BY <1>10, <2>1 DEF WorkerSubmit
    <3> QED
      BY <1>a, <1>b, <3>1
  <2>2. CASE ~ProcessedOnSpoke(w)
    <3>1. /\ worker[r].pc = "submit" /\ worker' = [worker EXCEPT ![r].pc = "complete"]
          /\ ReceiveMessage(w)
          /\ UNCHANGED <<rows, api, retrying, step1Vars, sent, inFlight, budget>>
      BY <1>10, <2>2 DEF WorkerSubmit
    <3>2. /\ w \in WithdrawIds
          /\ \A v \in WithdrawIds : spoke'[v] # "unknown" <=> spoke[v] # "unknown" \/ v = w
          /\ PaidAtMostOnce'
      BY <1>a, <1>b, <3>1 DEF ReceiveMessage
    <3>3. /\ worker'[r].pc = "complete" /\ worker'[r].job = worker[r].job
          /\ worker'[r].todo = worker[r].todo
          /\ \A q \in Workers \ {r} : worker'[q] = worker[q]
      BY <1>a, <1>b, <3>1
    <3>4. ApiInv' /\ RowInv' /\ SpokeInv' /\ HolderInv'
      BY <1>a, <1>b, <3>1, <3>2, <3>3
    <3>5. AcceptedInv' /\ CompletedIsAccepted'
      <4>1. \A q \in Workers : worker'[q].pc \in {"complete", "already"} =>
              spoke'[rows[worker'[q].job].withdrawId] # "unknown"
        BY <1>a, <1>b, <3>1, <3>2, <3>3, HeldIds
      <4>2. \A j \in Jobs : api[j].pc = "delivered" => spoke'[api[j].predicted] # "unknown"
        BY <3>2, HeldIds
      <4>3. CompletedIsAccepted'
        BY <3>1, <3>2, HeldIds
      <4> QED
        BY <3>1, <4>1, <4>2, <4>3
    <3>6. ClaimedRowsHaveIds'
      BY <1>a, <1>b, <3>1, <3>3
    <3> QED
      BY <3>2, <3>4, <3>5, <3>6
  <2> QED
    BY <2>1, <2>2
<1>11. CASE WorkerDeliverFails(r)
  BY <1>a, <1>b, <1>11 DEF WorkerDeliverFails, LeaveInFlight
<1>12. CASE WorkerComplete(r)
  <2>1. PICK hasTx \in BOOLEAN :
          /\ worker[r].pc = (IF hasTx THEN "complete" ELSE "already")
          /\ worker' = [worker EXCEPT ![r].pc = "next"]
          /\ \/ rows' = rows
             \/ rows' = [rows EXCEPT ![worker[r].job] =
                           CompleteRow(rows[worker[r].job], hasTx)]
    BY <1>12 DEF WorkerComplete
  <2>2. worker'[r].pc = "next" /\ worker' = [worker EXCEPT ![r].pc = worker'[r].pc]
    BY <1>a, <2>1 DEF WorkerRun
  <2>3. PICK row \in Rows(WithdrawIds) :
          /\ row.withdrawId = rows[worker[r].job].withdrawId
          /\ rows' = rows \/ rows' = [rows EXCEPT ![worker[r].job] = row]
    <3>1. CompleteRow(rows[worker[r].job], hasTx) \in Rows(WithdrawIds)
      BY <1>a, <1>b, <2>1, CompleteRowType
    <3>2. CompleteRow(rows[worker[r].job], hasTx).withdrawId = rows[worker[r].job].withdrawId
      BY <1>a, <1>b, <2>1 DEF CompleteRow, Rows
    <3> QED
      BY <2>1, <3>1, <3>2
  <2>4. ProcessedOnSpoke(rows[worker[r].job].withdrawId)
    BY <2>1
  <2>5. UNCHANGED notWorker
    BY <1>12 DEF WorkerComplete
  <2>6. worker[r].pc \notin {"idle", "next"} /\ ProcessedOnSpoke(row.withdrawId)
    BY <2>1, <2>3, <2>4
  <2> QED
    BY <2>2, <2>3, <2>5, <2>6, WorkerRowWrite
<1>13. CASE WorkerRecordDeliverFailed(r)
  <2>1. /\ worker' = [worker EXCEPT ![r].pc = "next"]
        /\ worker[r].pc \notin {"idle", "next"}
        /\ UNCHANGED notWorker
    BY <1>13 DEF WorkerRecordDeliverFailed
  <2>2. worker'[r].pc = "next" /\ worker' = [worker EXCEPT ![r].pc = worker'[r].pc]
    BY <1>a, <2>1 DEF WorkerRun
  <2>3. PICK row \in Rows(WithdrawIds) :
          /\ row.withdrawId = rows[worker[r].job].withdrawId /\ row.status # "completed"
          /\ rows' = rows \/ rows' = [rows EXCEPT ![worker[r].job] = row]
    <3>1. FailOrRequeue(rows[worker[r].job], "spoke_failed", MaxAttempts) \in Rows(WithdrawIds)
      BY <1>a, <1>b, <2>1, FailOrRequeueType, SagaAssumption
         DEF Status, ActiveStatus
    <3>2. /\ FailOrRequeue(rows[worker[r].job], "spoke_failed", MaxAttempts).withdrawId = rows[worker[r].job].withdrawId
          /\ FailOrRequeue(rows[worker[r].job], "spoke_failed", MaxAttempts).status # "completed"
      BY <1>a, <1>b, <2>1 DEF FailOrRequeue, Rows
    <3> QED
      BY <1>13, <3>1, <3>2 DEF WorkerRecordDeliverFailed
  <2> QED
    BY <2>1, <2>2, <2>3, WorkerRowWrite
<1>14. CASE WorkerCrash(r)
  BY <1>a, <1>b, <1>14 DEF WorkerCrash, LeaveInFlight
<1> QED
  BY <1>1, <1>2, <1>3, <1>4, <1>5, <1>6, <1>7, <1>8, <1>9, <1>10, <1>11, <1>12, <1>13, <1>14
     DEF WorkerNext

\* A step of the listener or the operators preserves the rest of the
\* invariant.
LEMMA OperatorInvariant ==
  ASSUME IInv, OperatorNext
  PROVE  Kept'
<1>a. /\ rows \in [Jobs -> Rows(WithdrawIds)]
      /\ worker \in [Workers -> WorkerRun]
      /\ NULL \notin WithdrawIds
  BY SagaAssumption DEF IInv, TypeOK
<1> USE DEF otherVars, chainVars, step1Vars, vaultVars, hubVars, SetRow, BeforeRecord, AfterRecord, Recorded, IInv, ProcessedOnSpoke,
            WorkerRun, Claims, ApiInv, RowInv, SpokeInv, HolderInv, AcceptedInv,
            ClaimedRowsHaveIds, PaidAtMostOnce, CompletedIsAccepted, Kept, ClaimableStatus
<1>1. ASSUME NEW j \in Jobs, ReleasedListener(j)
      PROVE  Kept'
  BY <1>a, <1>1 DEF ReleasedListener, CompleteRow
<1>2. ASSUME NEW j \in Jobs, AdminRetryRead(j)
      PROVE  Kept'
  BY <1>a, <1>2 DEF AdminRetryRead
<1>3. ASSUME NEW j \in Jobs, AdminRetryWrite(j)
      PROVE  Kept'
  BY <1>a, <1>3 DEF AdminRetryWrite, TypeOK
<1>4. ASSUME NEW j \in Jobs, NEW s \in {"completed", "abandoned"}, AdminResolve(j, s)
      PROVE  Kept'
  <2>1. PICK hasTx \in BOOLEAN, to \in {"completed", "requires_manual"} :
          /\ to = "completed" => s = "completed"
          /\ \/ rows' = [rows EXCEPT ![j] = [rows[j] EXCEPT !.status = to, !.spokeDeliverTx = hasTx,
                                                          !.resolution = s]]
             \/ rows' = [rows EXCEPT ![j] = [rows[j] EXCEPT !.status = to, !.resolution = s]]
          /\ UNCHANGED <<api, worker, retrying, chainVars>>
    BY <1>4 DEF AdminResolve
  <2>2. /\ rows'[j].withdrawId = rows[j].withdrawId /\ rows'[j].status = to
        /\ rows'[j].resolution = s
        /\ \A k \in Jobs \ {j} : rows'[k] = rows[k]
    <3>1. CASE rows' = [rows EXCEPT ![j] = [rows[j] EXCEPT !.status = to, !.spokeDeliverTx = hasTx,
                                                          !.resolution = s]]
      BY <1>a, <3>1 DEF Rows
    <3>2. CASE rows' = [rows EXCEPT ![j] = [rows[j] EXCEPT !.status = to, !.resolution = s]]
      BY <1>a, <3>2 DEF Rows
    <3> QED
      BY <2>1, <3>1, <3>2
  <2> QED
    BY <1>a, <2>1, <2>2
<1> QED
  BY <1>1, <1>2, <1>3, <1>4 DEF OperatorNext

----------------------------------------------------------------------------
(* The theorems. *)

\* The invariant holds before the first request.
LEMMA InitInvariant == Init => IInv
<1> SUFFICES ASSUME Init PROVE IInv
  OBVIOUS
<1> USE SagaAssumption, HubAssumption DEF Init, HubInit, SpokeInit
<1>1. TypeOK
  <2>1. HubTypeOK
    BY DEF HubTypeOK, Blocks
  <2>2. SpokeTypeOK
    BY DEF SpokeTypeOK, SpokeState
  <2>3. rows \in [Jobs -> Rows(WithdrawIds)]
    BY DEF AbsentRow, Rows, Status, Resolution
  <2> QED
    BY <2>1, <2>2, <2>3 DEF TypeOK, ApiPc, WorkerRun, WorkerPc
<1>2. ApiInv /\ RowInv /\ SpokeInv
  BY DEF ApiInv, RowInv, SpokeInv, AfterRecord, AbsentRow, ProcessedOnSpoke
<1>3. HolderInv /\ AcceptedInv
  BY DEF HolderInv, AcceptedInv
<1>4. ClaimedRowsHaveIds /\ PaidAtMostOnce /\ CompletedIsAccepted
  BY DEF ClaimedRowsHaveIds, PaidAtMostOnce, CompletedIsAccepted, AbsentRow, ClaimableStatus
<1> QED
  BY <1>1, <1>2, <1>3, <1>4 DEF IInv

\* Every step of the system preserves the invariant.
LEMMA NextInvariant == IInv /\ [Next]_vars => IInv'
<1> SUFFICES ASSUME IInv, [Next]_vars PROVE IInv'
  OBVIOUS
<1>1. ASSUME NEW j \in Jobs, ApiNext(j)
      PROVE  IInv'
  BY <1>1, ApiTypes, ApiInvariant DEF IInv, Kept
<1>2. CASE ChainNext
  BY <1>2, ChainTypes, ChainInvariant DEF IInv, Kept
<1>3. ASSUME NEW r \in Workers, WorkerNext(r)
      PROVE  IInv'
  BY <1>3, WorkerTypes, WorkerInvariant DEF IInv, Kept
<1>4. CASE OperatorNext
  BY <1>4, OperatorTypes, OperatorInvariant DEF IInv, Kept
<1>5. CASE UNCHANGED vars
  BY <1>5 DEF vars, hubVars, vaultVars, IInv, TypeOK, HubTypeOK, SpokeTypeOK, ApiInv, RowInv,
              SpokeInv, HolderInv, AcceptedInv, ClaimedRowsHaveIds, PaidAtMostOnce,
              CompletedIsAccepted, Recorded, ProcessedOnSpoke
<1> QED
  BY <1>1, <1>2, <1>3, <1>4, <1>5 DEF Next

\* The inductive invariant: how far an identifier has travelled through the
\* handler, the row, the worker and the vault.
THEOREM Invariance == Spec => []IInv
<1> QED
  BY InitInvariant, NextInvariant, PTL DEF Spec

\* Every reachable state of the saga is well-typed.
THEOREM TypeCorrect == Spec => []TypeOK
<1>1. IInv => TypeOK
  BY DEF IInv
<1> QED
  BY <1>1, Invariance, PTL

\* USDC leaves the spoke only for a withdrawal the hub debited, whose id is
\* recorded in exactly one row.
THEOREM ReleasesAreBacked == Spec => []ReleaseBackedByDebit
<1>1. IInv => ReleaseBackedByDebit
  <2> SUFFICES ASSUME IInv, NEW w \in WithdrawIds, ProcessedOnSpoke(w)
               PROVE  \E j \in Jobs : /\ rows[j].withdrawId = w
                                      /\ debits[j] > 0
                                      /\ \A k \in Jobs \ {j} : rows[k].withdrawId # w
    BY DEF ReleaseBackedByDebit
  <2>1. PICK j \in Jobs : rows[j].withdrawId = w
    BY DEF IInv, SpokeInv, Recorded
  <2>2. w # NULL
    BY SagaAssumption
  <2> QED
    BY <2>1, <2>2 DEF IInv, RowInv
<1> QED
  BY <1>1, Invariance, PTL

\* The USDC of a withdrawId is transferred once at most, whoever submits it.
THEOREM PaymentsAreSingle == Spec => []PaidAtMostOnce
<1>1. IInv => PaidAtMostOnce
  BY DEF IInv
<1> QED
  BY <1>1, Invariance, PTL

\* A row is completed only when the vault accepted its id, or by an operator.
THEOREM CompletionsAreAccepted == Spec => []CompletedIsAccepted
<1>1. IInv => CompletedIsAccepted
  BY DEF IInv
<1> QED
  BY <1>1, Invariance, PTL

\* The retry worker never meets a row without the id its step needs.
THEOREM ClaimsHaveIds == Spec => []ClaimedRowsHaveIds
<1>1. IInv => ClaimedRowsHaveIds
  BY DEF IInv
<1> QED
  BY <1>1, Invariance, PTL

----------------------------------------------------------------------------
(* Refinement of CrossChainTransfer. *)

\* A step records at most new identifiers, none of them paid yet ...
Recording ==
  /\ UNCHANGED <<debits, payouts>>
  /\ \A j \in Jobs :
       \/ rows'[j].withdrawId = rows[j].withdrawId
       \/ /\ rows[j].withdrawId = NULL
          /\ rows'[j].withdrawId \in WithdrawIds
          /\ payouts[rows'[j].withdrawId] = 0

\* ... or is one debit on the hub ...
Debiting ==
  /\ \E j \in Jobs : debits' = [debits EXCEPT ![j] = @ + 1]
  /\ UNCHANGED <<rows, payouts>>

\* ... or one payment of a recorded identifier on the spoke.
Paying ==
  /\ \E w \in WithdrawIds : /\ Recorded(w)
                            /\ payouts[w] = 0
                            /\ payouts' = [payouts EXCEPT ![w] = @ + 1]
  /\ UNCHANGED <<rows, debits>>

\* receiveMessage for a recorded identifier pays at most once.
LEMMA ReceiveEffect ==
  ASSUME IInv, NEW w \in WithdrawIds, Recorded(w), ReceiveMessage(w), UNCHANGED <<rows, debits>>
  PROVE  Recording \/ Paying
<1>1. payouts[w] = 0 /\ payouts \in [WithdrawIds -> Nat]
  BY DEF IInv, PaidAtMostOnce, ReceiveMessage, ProcessedOnSpoke, TypeOK, SpokeTypeOK
<1>2. payouts' = payouts \/ payouts' = [payouts EXCEPT ![w] = @ + 1]
  BY <1>1 DEF ReceiveMessage
<1> QED
  BY <1>1, <1>2 DEF Recording, Paying

\* A step of the API handler records or pays, and debits nobody.
LEMMA ApiEffect ==
  ASSUME IInv, NEW j \in Jobs, ApiNext(j)
  PROVE  Recording \/ Paying
<1>a. rows \in [Jobs -> Rows(WithdrawIds)] /\ rows[j] \in Rows(WithdrawIds) /\ NULL \notin WithdrawIds
  BY SagaAssumption DEF IInv, TypeOK
<1> USE DEF otherVars, chainVars, step1Vars, vaultVars, ApiStep, SetRow, Recording
<1>1. CASE CreateJob(j)
  <2>1. rows[j].withdrawId = NULL
    BY <1>1 DEF CreateJob, IInv, ApiInv, BeforeRecord
  <2> QED
    BY <1>a, <1>1, <2>1 DEF CreateJob, CreateRow, AbsentRow
<1>2. CASE StartDebit(j)
  BY <1>a, <1>2 DEF StartDebit, MarkStep, Rows
<1>3. CASE Simulate(j)
  BY <1>a, <1>3 DEF Simulate
<1>4. CASE Broadcast(j)
  BY <1>a, <1>4 DEF Broadcast
<1>5. CASE BroadcastAgain(j)
  BY <1>a, <1>5 DEF BroadcastAgain
<1>6. CASE DebitFails(j)
  BY <1>a, <1>6 DEF DebitFails
<1>7. CASE ConfirmDebit(j)
  <2>1. CASE ~UniqueWithdrawId(rows, j, api[j].predicted)
    BY <1>a, <1>7, <2>1 DEF ConfirmDebit
  <2>2. CASE UniqueWithdrawId(rows, j, api[j].predicted)
    <3>1. /\ rows[j].withdrawId = NULL /\ api[j].predicted \in WithdrawIds
          /\ rows' = [rows EXCEPT ![j] = MarkDebited(rows[j], api[j].predicted)]
          /\ UNCHANGED <<debits, payouts>>
      BY <1>a, <1>7, <2>2 DEF ConfirmDebit, IInv, TypeOK, ApiInv, BeforeRecord
    <3>2. ~Recorded(api[j].predicted)
      BY <1>a, <2>2, <3>1 DEF UniqueWithdrawId, Recorded
    <3>3. payouts[api[j].predicted] = 0
      BY <3>1, <3>2 DEF IInv, SpokeInv, PaidAtMostOnce, ProcessedOnSpoke
    <3> QED
      BY <1>a, <3>1, <3>3 DEF MarkDebited, Rows
  <2> QED
    BY <2>1, <2>2
<1>8. CASE ConfirmReverted(j)
  BY <1>a, <1>8 DEF ConfirmReverted
<1>9. CASE RecordDebitFailed(j)
  BY <1>a, <1>9 DEF RecordDebitFailed, MarkStep, Rows
<1>10. CASE StartSend(j)
  BY <1>a, <1>10 DEF StartSend, MarkStep, Rows
<1>11. CASE SendWithdraw(j)
  BY <1>a, <1>11 DEF SendWithdraw
<1>12. CASE SendFails(j)
  BY <1>a, <1>12 DEF SendFails
<1>13. CASE RecordSent(j)
  BY <1>a, <1>13 DEF RecordSent, MarkSent, Rows
<1>14. CASE RecordSendFailed(j)
  BY <1>a, <1>14 DEF RecordSendFailed, FailOrRequeue, Rows
<1>15. CASE StartDeliver(j)
  BY <1>a, <1>15 DEF StartDeliver, MarkStep, Rows
<1>16. CASE SpokeNotConfigured(j)
  BY <1>a, <1>16 DEF SpokeNotConfigured, FailOrRequeue, Rows
<1>17. CASE Deliver(j)
  <2>1. CASE ProcessedOnSpoke(api[j].predicted)
    BY <1>17, <2>1 DEF Deliver
  <2>2. CASE ~ProcessedOnSpoke(api[j].predicted)
    <3>1. api[j].predicted \in WithdrawIds /\ Recorded(api[j].predicted)
      BY <1>17, HeldIds DEF Deliver, IInv, ApiInv, AfterRecord, Recorded
    <3> QED
      BY <1>17, <2>2, <3>1, ReceiveEffect DEF Deliver
  <2> QED
    BY <2>1, <2>2
<1>18. CASE DeliverFails(j)
  BY <1>a, <1>18 DEF DeliverFails
<1>19. CASE RecordDelivered(j)
  BY <1>a, <1>19 DEF RecordDelivered, CompleteRow, Rows
<1>20. CASE RecordDeliverFailed(j)
  BY <1>a, <1>20 DEF RecordDeliverFailed, FailOrRequeue, Rows
<1>21. CASE ApiCrash(j)
  BY <1>a, <1>21 DEF ApiCrash
<1> QED
  BY <1>1, <1>2, <1>3, <1>4, <1>5, <1>6, <1>7, <1>8, <1>9, <1>10, <1>11,
     <1>12, <1>13, <1>14, <1>15, <1>16, <1>17, <1>18, <1>19, <1>20, <1>21 DEF ApiNext

\* A step of the chains records nothing new, debits, or pays.
LEMMA ChainEffect ==
  ASSUME IInv, ChainNext
  PROVE  Recording \/ Debiting \/ Paying
<1> USE DEF chainVars, step1Vars, vaultVars, hubVars, offChain
<1>1. ASSUME NEW j \in Jobs, MineRequest(j)
      PROVE  Recording \/ Debiting
  BY <1>1 DEF MineRequest, Recording, Debiting
<1>2. ASSUME NEW w \in WithdrawIds, MineSpoke(w)
      PROVE  Recording \/ Paying
  <2>1. CASE ProcessedOnSpoke(w)
    BY <1>2, <2>1 DEF MineSpoke, Recording
  <2>2. CASE ~ProcessedOnSpoke(w)
    BY <1>2, <2>2, ReceiveEffect DEF MineSpoke, IInv, SpokeInv
  <2> QED
    BY <2>1, <2>2
<1>3. CASE HubBlock
  BY <1>3 DEF HubBlock, Recording
<1>4. ASSUME NEW u \in Users, NEW a \in Amounts, NEW d \in Deposits, Deposit(u, a, d)
      PROVE  Recording
  BY <1>4 DEF Deposit, Recording
<1>5. ASSUME NEW w \in WithdrawIds, ExecuteTimelock(w)
      PROVE  Paying
  <2>1. Recorded(w) /\ payouts[w] = 0
    BY <1>5 DEF ExecuteTimelock, ExecuteTimelockWithdrawal, IInv, SpokeInv, ProcessedOnSpoke,
                PaidAtMostOnce
  <2> QED
    BY <1>5, <2>1 DEF ExecuteTimelock, ExecuteTimelockWithdrawal, Paying
<1>6. ASSUME NEW w \in WithdrawIds, CancelTimelock(w)
      PROVE  Recording
  BY <1>6 DEF CancelTimelock, CancelTimelockWithdrawal, Recording
<1> QED
  BY <1>1, <1>2, <1>3, <1>4, <1>5, <1>6 DEF ChainNext

\* A step of the retry worker keeps the identifiers or pays.
LEMMA WorkerEffect ==
  ASSUME IInv, NEW r \in Workers, WorkerNext(r)
  PROVE  Recording \/ Paying
<1>a. rows \in [Jobs -> Rows(WithdrawIds)]
  BY DEF IInv, TypeOK
<1> USE DEF notWorker, chainVars, step1Vars, vaultVars, WorkerStep, SetRow, RecordUnlessLost, Recording
<1>1. CASE ClaimJobs(r)
  BY <1>a, <1>1 DEF ClaimJobs, ClaimRow, Rows
<1>2. CASE TakeJob(r)
  BY <1>a, <1>2 DEF TakeJob
<1>3. CASE EndRun(r)
  BY <1>a, <1>3 DEF EndRun
<1>4. CASE WorkerSend(r)
  BY <1>a, <1>4 DEF WorkerSend
<1>5. CASE WorkerSendFails(r)
  BY <1>a, <1>5 DEF WorkerSendFails
<1>6. CASE WorkerRecordSent(r)
  <2>1. /\ worker[r].job \in Jobs /\ UNCHANGED <<debits, payouts>>
        /\ \/ rows' = rows
           \/ rows' = [rows EXCEPT ![worker[r].job] = MarkSent(rows[worker[r].job])]
    BY <1>6, HeldIds DEF WorkerRecordSent
  <2>2. MarkSent(rows[worker[r].job]).withdrawId = rows[worker[r].job].withdrawId
    BY <1>a, <2>1 DEF MarkSent, Rows
  <2> QED
    BY <1>a, <2>1, <2>2
<1>7. CASE WorkerAdvance(r)
  BY <1>a, <1>7 DEF WorkerAdvance, MarkStep, Rows
<1>8. CASE WorkerRecordSendFailed(r)
  <2>1. /\ worker[r].job \in Jobs /\ UNCHANGED <<debits, payouts>>
        /\ \/ rows' = rows
           \/ rows' = [rows EXCEPT ![worker[r].job] = FailOrRequeue(rows[worker[r].job], "outbox_failed", MaxAttempts)]
    BY <1>8, HeldIds DEF WorkerRecordSendFailed
  <2>2. FailOrRequeue(rows[worker[r].job], "outbox_failed", MaxAttempts).withdrawId = rows[worker[r].job].withdrawId
    BY <1>a, <2>1 DEF FailOrRequeue, Rows
  <2> QED
    BY <1>a, <2>1, <2>2
<1>9. CASE WorkerCheck(r)
  BY <1>a, <1>9 DEF WorkerCheck
<1>10. CASE WorkerSubmit(r)
  <2> DEFINE w == rows[worker[r].job].withdrawId
  <2>1. CASE ProcessedOnSpoke(w)
    BY <1>10, <2>1 DEF WorkerSubmit
  <2>2. CASE ~ProcessedOnSpoke(w)
    <3>1. w \in WithdrawIds /\ Recorded(w)
      BY <1>10, HeldIds DEF WorkerSubmit, Recorded
    <3> QED
      BY <1>10, <2>2, <3>1, ReceiveEffect DEF WorkerSubmit
  <2> QED
    BY <2>1, <2>2
<1>11. CASE WorkerDeliverFails(r)
  BY <1>a, <1>11 DEF WorkerDeliverFails
<1>12. CASE WorkerComplete(r)
  <2>1. PICK hasTx \in BOOLEAN :
        /\ worker[r].job \in Jobs /\ UNCHANGED <<debits, payouts>>
        /\ \/ rows' = rows
           \/ rows' = [rows EXCEPT ![worker[r].job] = CompleteRow(rows[worker[r].job], hasTx)]
    BY <1>12, HeldIds DEF WorkerComplete
  <2>2. CompleteRow(rows[worker[r].job], hasTx).withdrawId = rows[worker[r].job].withdrawId
    BY <1>a, <2>1 DEF CompleteRow, Rows
  <2> QED
    BY <1>a, <2>1, <2>2
<1>13. CASE WorkerRecordDeliverFailed(r)
  <2>1. /\ worker[r].job \in Jobs /\ UNCHANGED <<debits, payouts>>
        /\ \/ rows' = rows
           \/ rows' = [rows EXCEPT ![worker[r].job] = FailOrRequeue(rows[worker[r].job], "spoke_failed", MaxAttempts)]
    BY <1>13, HeldIds DEF WorkerRecordDeliverFailed
  <2>2. FailOrRequeue(rows[worker[r].job], "spoke_failed", MaxAttempts).withdrawId = rows[worker[r].job].withdrawId
    BY <1>a, <2>1 DEF FailOrRequeue, Rows
  <2> QED
    BY <1>a, <2>1, <2>2
<1>14. CASE WorkerCrash(r)
  BY <1>a, <1>14 DEF WorkerCrash
<1> QED
  BY <1>1, <1>2, <1>3, <1>4, <1>5, <1>6, <1>7, <1>8, <1>9, <1>10, <1>11, <1>12, <1>13, <1>14
     DEF WorkerNext

\* The listener and the operators neither debit nor pay.
LEMMA OperatorEffect ==
  ASSUME IInv, OperatorNext
  PROVE  Recording
<1>a. rows \in [Jobs -> Rows(WithdrawIds)]
  BY DEF IInv, TypeOK
<1> USE DEF otherVars, chainVars, step1Vars, vaultVars, SetRow, Recording
<1>1. ASSUME NEW j \in Jobs, ReleasedListener(j)
      PROVE  Recording
  BY <1>a, <1>1 DEF ReleasedListener, CompleteRow, Rows
<1>2. ASSUME NEW j \in Jobs, AdminRetryRead(j)
      PROVE  Recording
  BY <1>2 DEF AdminRetryRead
<1>3. ASSUME NEW j \in Jobs, AdminRetryWrite(j)
      PROVE  Recording
  BY <1>a, <1>3 DEF AdminRetryWrite, Rows
<1>4. ASSUME NEW j \in Jobs, NEW s \in {"completed", "abandoned"}, AdminResolve(j, s)
      PROVE  Recording
  <2>1. PICK hasTx \in BOOLEAN, to \in {"completed", "requires_manual"} :
          /\ \/ rows' = [rows EXCEPT ![j] = [rows[j] EXCEPT !.status = to, !.spokeDeliverTx = hasTx,
                                                          !.resolution = s]]
             \/ rows' = [rows EXCEPT ![j] = [rows[j] EXCEPT !.status = to, !.resolution = s]]
          /\ UNCHANGED <<debits, payouts>>
    BY <1>4 DEF AdminResolve
  <2>2. \A k \in Jobs : rows'[k].withdrawId = rows[k].withdrawId
    <3>1. CASE rows' = [rows EXCEPT ![j] = [rows[j] EXCEPT !.status = to, !.spokeDeliverTx = hasTx,
                                                          !.resolution = s]]
      BY <1>a, <3>1 DEF Rows
    <3>2. CASE rows' = [rows EXCEPT ![j] = [rows[j] EXCEPT !.status = to, !.resolution = s]]
      BY <1>a, <3>2 DEF Rows
    <3> QED
      BY <2>1, <3>1, <3>2
  <2> QED
    BY <2>1, <2>2
<1> QED
  BY <1>1, <1>2, <1>3, <1>4 DEF OperatorNext

\* Every step records, debits or pays, as the abstract transfer allows.
LEMMA StepEffect ==
  ASSUME IInv, [Next]_vars
  PROVE  Recording \/ Debiting \/ Paying
<1>1. CASE UNCHANGED vars
  BY <1>1 DEF vars, vaultVars, Recording
<1> QED
  BY <1>1, ApiEffect, ChainEffect, WorkerEffect, OperatorEffect DEF Next

\* The id of a row is never replaced.
THEOREM IdsAreStable == Spec => WithdrawIdIsStable
<1>1. IInv /\ [Next]_vars =>
        [\A j \in Jobs : rows[j].withdrawId # NULL =>
            rows'[j].withdrawId = rows[j].withdrawId]_vars
  BY StepEffect DEF Recording, Debiting, Paying
<1> QED
  BY <1>1, Invariance, PTL DEF Spec, WithdrawIdIsStable

\* The saga, with its crashes, retries and operators, only moves money the way
\* CrossChainTransfer allows.
THEOREM Refinement == Spec => ImplementsTransfer
<1>1. Init => Transfer!TransferInit
  BY DEF Init, Transfer!TransferInit, PaidFor, AbsentRow
<1>2. IInv /\ [Next]_vars => [Transfer!TransferNext]_(Transfer!transferVars)
  <2> SUFFICES ASSUME IInv, [Next]_vars
               PROVE  [Transfer!TransferNext]_(Transfer!transferVars)
    OBVIOUS
  <2>a. /\ \A j \in Jobs : rows[j].withdrawId \in WithdrawIds \union {NULL}
        /\ payouts \in [WithdrawIds -> Nat] /\ NULL \notin WithdrawIds
    BY HeldIds, SagaAssumption DEF IInv, TypeOK, SpokeTypeOK
  <2>1. CASE Recording
    <3>1. \A j \in Jobs : PaidFor(j)' = PaidFor(j)
      BY <2>a, <2>1 DEF Recording, PaidFor
    <3> QED
      BY <2>1, <3>1 DEF Recording, Transfer!transferVars
  <2>2. CASE Debiting
    <3>1. \A j \in Jobs : PaidFor(j)' = PaidFor(j)
      BY <2>2 DEF Debiting, PaidFor
    <3> QED
      BY <2>2, <3>1 DEF Debiting, Transfer!TransferNext, Transfer!Debit
  <2>3. CASE Paying
    <3>1. PICK w \in WithdrawIds : /\ Recorded(w)
                                   /\ payouts[w] = 0
                                   /\ payouts' = [payouts EXCEPT ![w] = @ + 1]
      BY <2>3 DEF Paying
    <3>2. PICK j \in Jobs : rows[j].withdrawId = w
      BY <3>1 DEF Recorded
    <3>3. debits[j] > 0 /\ \A k \in Jobs \ {j} : rows[k].withdrawId # w
      BY <2>a, <3>2 DEF IInv, RowInv
    <3>4. PaidFor(j) = 0 /\ PaidFor(j)' = 1
      BY <2>a, <2>3, <3>1, <3>2 DEF PaidFor, Paying
    <3>5. \A k \in Jobs \ {j} : PaidFor(k)' = PaidFor(k)
      BY <2>a, <2>3, <3>1, <3>3 DEF PaidFor, Paying
    <3> QED
      BY <2>3, <3>3, <3>4, <3>5 DEF Paying, Transfer!TransferNext, Transfer!Pay
  <2> QED
    BY <2>1, <2>2, <2>3, StepEffect
<1> QED
  BY <1>1, <1>2, Invariance, PTL DEF Spec, ImplementsTransfer, Transfer!TransferSpec
=============================================================================
