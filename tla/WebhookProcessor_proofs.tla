---------------------- MODULE WebhookProcessor_proofs ----------------------
(***************************************************************************)
(* Proofs about WebhookProcessor for every set of payments, deliveries and *)
(* jobs and every value of the bounds: types, the log and its refinement,  *)
(* the rows against the log, duplicates, terminal events, the agreement of *)
(* the tables, that no event is lost, and that a job ends after finitely   *)
(* many steps of its own.                                                  *)
(***************************************************************************)
EXTENDS WebhookProcessor, BullQueue_proofs, WebhookHandlers_proofs

-----------------------------------------------------------------------------
(* Type correctness.  TypeOK is not inductive: that the event under the     *)
(* worker's hands is one of a delivery rests on the worker's job being      *)
(* active, on every existing job having a payload, and on the handler       *)
(* never leaving the batch between two writes.                              *)

JobsHavePayload == \A k \in JobId : Exists(k) => payload[k] \in Deliveries

WorkerHoldsJob ==
  /\ active # NoJob => place[active] = "active"
  /\ step # "find" => active # NoJob /\ pos \in DOMAIN Batch

TypeInv == TypeOK /\ JobsHavePayload /\ WorkerHoldsJob

\* The event being handled is one of a delivery, about a known code.
LEMMA WorkingTypes ==
  ASSUME TypeInv, NEW s, Working(s)
  PROVE  /\ active \in JobId
         /\ place[active] = "active"
         /\ payload[active] \in Deliveries
         /\ Batch \in Seq(Code)
         /\ TheEvent \in WebhookEvent
         /\ TheCode \in Code
         /\ TheHandler \in Handlers
         /\ TheHandler.event = TheEvent
<1>1. active \in JobId /\ place[active] = "active"
  BY DEF TypeInv, TypeOK, WorkerHoldsJob, Working
<1>2. payload[active] \in Deliveries
  BY <1>1 DEF TypeInv, JobsHavePayload, Exists
<1>3. payload[active] \in Delivery
  BY <1>2, DeliveriesAssumption
<1>4. Batch \in Seq(Code) /\ TheEvent \in WebhookEvent
  BY <1>3 DEF Delivery, Batch, TheEvent
<1>5. TheCode \in Code
  <2>1. pos \in DOMAIN Batch
    BY DEF Working
  <2>2. \A q \in Seq(Code) : \A i \in DOMAIN q : q[i] \in Code
    OBVIOUS
  <2> QED BY <1>4, <2>1, <2>2 DEF TheCode
<1>6. TheHandler \in Handlers /\ TheHandler.event = TheEvent
  BY <1>4, HandlerOfEvent DEF TheHandler
<1> QED BY <1>1, <1>2, <1>4, <1>5, <1>6

LEMMA TypeInit == Init => TypeInv
BY QueueTypeInit, BoundsAssumption, CodeAssumption
DEF Init, QueueInit, TypeInv, TypeOK, Step, JobsHavePayload, Exists, WorkerHoldsJob

\* Nothing the queue does to one job takes the data of an existing job away.
LEMMA JobsKeepPayload ==
  ASSUME QueueTypeOK, JobsHavePayload, NEW k \in JobId,
         Take(k) \/ Promote(k) \/ Stall(k) \/ FailAttempt(k) \/ Complete(k)
  PROVE  JobsHavePayload'
<1> SUFFICES ASSUME NEW j \in JobId, place'[j] # "none"
             PROVE  payload'[j] \in Deliveries
  BY DEF JobsHavePayload, Exists
<1>1. CASE j = k
  BY <1>1, DataKept DEF JobsHavePayload
<1>2. CASE j # k
  BY <1>2, OtherJobsUntouched DEF JobsHavePayload, Exists
<1> QED BY <1>1, <1>2

\* What happens to other jobs leaves the worker's job where it is.
LEMMA ActiveJobKept ==
  ASSUME TypeInv, active # NoJob,
         \/ \E d \in Deliveries : Deliver(d)
         \/ \E k \in JobId : RecoverStalled(k) \/ RetryLater(k)
  PROVE  place'[active] = place[active] /\ payload'[active] = payload[active]
<1>1. QueueTypeOK /\ active \in JobId /\ place[active] = "active"
  BY DEF TypeInv, TypeOK, WorkerHoldsJob
<1>2. ASSUME NEW d \in Deliveries, Deliver(d)
      PROVE  place'[active] = place[active] /\ payload'[active] = payload[active]
  <2>1. d.key \in JobId
    BY DeliveriesAssumption DEF Delivery
  <2> QED BY <1>1, <1>2, <2>1, AddLeavesJobsAlone DEF Deliver, Exists
<1>3. ASSUME NEW k \in JobId, RecoverStalled(k)
      PROVE  place'[active] = place[active] /\ payload'[active] = payload[active]
  BY <1>1, <1>3, OtherJobsUntouched DEF RecoverStalled
<1>4. ASSUME NEW k \in JobId, RetryLater(k)
      PROVE  place'[active] = place[active] /\ payload'[active] = payload[active]
  <2>1. k # active
    BY <1>1, <1>4 DEF RetryLater, Promote
  <2> QED BY <1>1, <1>4, <2>1, OtherJobsUntouched DEF RetryLater
<1> QED BY <1>2, <1>3, <1>4

LEMMA TypeDeliver ==
  ASSUME TypeInv, NEW d \in Deliveries, Deliver(d)
  PROVE  TypeInv'
<1>1. d.key \in JobId /\ d \in Payload
  BY DeliveriesAssumption DEF Delivery
<1>2. QueueTypeOK /\ JobsHavePayload /\ WorkerHoldsJob /\ active \in JobId \cup {NoJob}
  BY DEF TypeInv, TypeOK
<1>3. Add(d.key, d)
  BY DEF Deliver
<1>4. QueueTypeOK'
  BY <1>1, <1>2, <1>3, AddType
<1>5. TypeOK'
  BY <1>4, BoundsAssumption
  DEF TypeInv, TypeOK, Deliver, jobVars, storeVars, worldVars
<1>6. JobsHavePayload'
  BY <1>1, <1>2, <1>3 DEF QueueTypeOK, JobsHavePayload, Add, Exists, queueVars
<1>7. active # NoJob => place'[active] = place[active] /\ payload'[active] = payload[active]
  BY ActiveJobKept
<1>8. WorkerHoldsJob'
  <2>1. active' = active /\ pos' = pos /\ step' = step
    BY DEF Deliver, jobVars
  <2> QED BY <1>2, <1>7, <2>1 DEF WorkerHoldsJob, Batch
<1> QED BY <1>5, <1>6, <1>8 DEF TypeInv

LEMMA TypeTakeJob ==
  ASSUME TypeInv, NEW k \in JobId, TakeJob(k)
  PROVE  TypeInv'
<1>1. QueueTypeOK /\ JobsHavePayload /\ WorkerHoldsJob
  BY DEF TypeInv, TypeOK
<1>2. QueueTypeOK' /\ JobsHavePayload'
  BY <1>1, TakeType, JobsKeepPayload DEF TakeJob
<1>3. TypeOK'
  BY <1>2 DEF TypeInv, TypeOK, TakeJob, storeVars, worldVars, boundVars
<1>4. WorkerHoldsJob'
  BY <1>1 DEF QueueTypeOK, WorkerHoldsJob, TakeJob, Take
<1> QED BY <1>2, <1>3, <1>4 DEF TypeInv

\* Handing a job that nobody holds back, or putting it aside.
LEMMA TypeRecoverOrRetry ==
  ASSUME TypeInv, NEW k \in JobId, RecoverStalled(k) \/ RetryLater(k)
  PROVE  TypeInv'
<1>1. QueueTypeOK /\ JobsHavePayload /\ WorkerHoldsJob /\ active \in JobId \cup {NoJob}
  BY DEF TypeInv, TypeOK
<1>2. Stall(k) \/ Promote(k)
  BY DEF RecoverStalled, RetryLater
<1>4. QueueTypeOK' /\ JobsHavePayload'
  BY <1>1, <1>2, StallType, PromoteType, JobsKeepPayload
<1>5. UNCHANGED <<jobVars, storeVars, worldVars, boundVars>>
  BY DEF RecoverStalled, RetryLater
<1>6. TypeOK'
  BY <1>4, <1>5 DEF TypeInv, TypeOK, jobVars, storeVars, worldVars, boundVars
<1>7. active # NoJob => place'[active] = place[active] /\ payload'[active] = payload[active]
  BY ActiveJobKept
<1>8. WorkerHoldsJob'
  BY <1>1, <1>5, <1>7 DEF WorkerHoldsJob, jobVars, Batch
<1> QED BY <1>4, <1>6, <1>8 DEF TypeInv

LEMMA TypeAttemptFails ==
  ASSUME TypeInv, NEW s, Working(s), AttemptFails,
         sent' = sent, purges' = purges, faults' \in 0 .. MaxFaults
  PROVE  TypeInv'
<1>1. active \in JobId /\ TheEvent \in WebhookEvent
  BY WorkingTypes
<1>2. QueueTypeOK /\ JobsHavePayload
  BY DEF TypeInv, TypeOK
<1>3. QueueTypeOK' /\ JobsHavePayload'
  BY <1>1, <1>2, FailAttemptType, JobsKeepPayload DEF AttemptFails
<1>4. failed' \in [Code -> SUBSET WebhookEvent]
  BY <1>1 DEF TypeInv, TypeOK, AttemptFails
<1>5. TypeOK'
  BY <1>3, <1>4
  DEF TypeInv, TypeOK, AttemptFails, StopWorking, Step, worldVars
<1>6. WorkerHoldsJob'
  BY DEF WorkerHoldsJob, AttemptFails, StopWorking
<1> QED BY <1>3, <1>5, <1>6 DEF TypeInv

LEMMA TypeWork ==
  ASSUME TypeInv, Work
  PROVE  TypeInv'
<1>1. CASE SkipEvent
  BY <1>1 DEF TypeInv, TypeOK, QueueTypeOK, JobsHavePayload, WorkerHoldsJob,
     Exists, SkipEvent, Working, Batch, queueVars, storeVars, worldVars, boundVars
<1>2. CASE AcceptEvent
  BY <1>2 DEF TypeInv, TypeOK, QueueTypeOK, JobsHavePayload, WorkerHoldsJob,
     Exists, AcceptEvent, Working, Batch, Step, queueVars, storeVars, worldVars,
     boundVars
<1>3. CASE RefuseEvent
  <2>1. Working("find") /\ AttemptFails /\ faults' \in 0 .. MaxFaults
        /\ sent' = sent /\ purges' = purges
    BY <1>3 DEF RefuseEvent, boundVars, TypeInv, TypeOK
  <2> QED BY <2>1, TypeAttemptFails
<1>4. CASE SaveRow
  <2>1. TheCode \in Code /\ TheHandler.row \in RowStatus
    BY <1>4, WorkingTypes, HandlerTableOK DEF SaveRow
  <2>2. rows' \in [Code -> RowStatus \cup {NoRow}] /\ step' \in Step
    BY <1>4, <2>1 DEF SaveRow, TypeInv, TypeOK, AfterSave, Step
  <2> QED
    BY <1>4, <2>2 DEF TypeInv, TypeOK, QueueTypeOK, JobsHavePayload,
       WorkerHoldsJob, Exists, SaveRow, Working, Batch, queueVars, logVars,
       worldVars, boundVars
<1>5. CASE MarkQrCodePaid
  <2>2. rows' \in [Code -> RowStatus \cup {NoRow}] /\ step' \in Step
    BY <1>5 DEF MarkQrCodePaid, TypeInv, TypeOK, AfterSave, Step, RowStatus
  <2> QED
    BY <1>5, <2>2 DEF TypeInv, TypeOK, QueueTypeOK, JobsHavePayload,
       WorkerHoldsJob, Exists, MarkQrCodePaid, Working, Batch, queueVars, logVars,
       worldVars, boundVars
<1>6. CASE WriteTransaction
  <2>1. MapWebhookEventToTransactionStatus(TheEvent) \in TransactionStatus
    BY TransactionStatusOK
  <2>2. txs' \in [Code -> TransactionStatus \cup {NoTx}]
    BY <1>6, <2>1 DEF WriteTransaction, TypeInv, TypeOK
  <2> QED
    BY <1>6, <2>2 DEF TypeInv, TypeOK, QueueTypeOK, JobsHavePayload,
       WorkerHoldsJob, Exists, WriteTransaction, Working, Batch, Step, queueVars,
       logVars, worldVars, boundVars
<1>7. CASE LogEvent
  <2>1. TheCode \in Code /\ TheEvent \in WebhookEvent
    BY <1>7, WorkingTypes DEF LogEvent
  <2>2. processed' \in [Code -> Seq(WebhookEvent)]
    BY <1>7, <2>1 DEF LogEvent, TypeInv, TypeOK
  <2> QED
    BY <1>7, <2>2 DEF TypeInv, TypeOK, QueueTypeOK, JobsHavePayload,
       WorkerHoldsJob, Exists, LogEvent, Working, Batch, Step, queueVars,
       worldVars, boundVars
<1>8. CASE FinishJob
  <2>1. active \in JobId
    BY <1>8 DEF FinishJob, TypeInv, TypeOK
  <2>2. QueueTypeOK'
    BY <1>8, <2>1, RemoveType DEF FinishJob, Complete, TypeInv, TypeOK
  <2>3. JobsHavePayload'
    BY <1>8, <2>1, JobsKeepPayload DEF FinishJob, TypeInv, TypeOK
  <2>4. TypeOK'
    BY <1>8, <2>2 DEF FinishJob, StopWorking, TypeInv, TypeOK, Step, storeVars,
       worldVars, boundVars
  <2>5. WorkerHoldsJob'
    BY <1>8 DEF FinishJob, StopWorking, WorkerHoldsJob
  <2> QED BY <2>3, <2>4, <2>5 DEF TypeInv
<1> QED
  BY <1>1, <1>2, <1>3, <1>4, <1>5, <1>6, <1>7, <1>8 DEF Work

LEMMA TypeFaults ==
  ASSUME TypeInv, DatabaseFault \/ Crash
  PROVE  TypeInv'
<1>1. CASE DatabaseFault
  <2>1. PICK s \in Step : Working(s)
    BY <1>1 DEF DatabaseFault
  <2>2. AttemptFails /\ sent' = sent /\ purges' = purges /\ faults' \in 0 .. MaxFaults
    BY <1>1, BoundsAssumption DEF DatabaseFault, TypeInv, TypeOK
  <2> QED BY <2>1, <2>2, TypeAttemptFails
<1>2. CASE Crash
  <2>1. TypeOK'
    BY <1>2, BoundsAssumption DEF Crash, StopWorking, TypeInv, TypeOK,
       QueueTypeOK, Step, queueVars, storeVars
  <2>2. JobsHavePayload'
    BY <1>2 DEF Crash, TypeInv, JobsHavePayload, Exists, queueVars
  <2>3. WorkerHoldsJob'
    BY <1>2 DEF Crash, StopWorking, WorkerHoldsJob
  <2> QED BY <2>1, <2>2, <2>3 DEF TypeInv
<1> QED BY <1>1, <1>2

LEMMA TypeAround ==
  ASSUME TypeInv, NEW c \in Code,
         IssueRow(c) \/ IssueTransaction(c) \/ RegisterAccount(c) \/ PurgeOldLogs(c)
  PROVE  TypeInv'
<1>1. UNCHANGED <<queueVars, jobVars>>
  BY DEF IssueRow, IssueTransaction, RegisterAccount, PurgeOldLogs
<1>2. JobsHavePayload' /\ WorkerHoldsJob'
  BY <1>1 DEF TypeInv, JobsHavePayload, WorkerHoldsJob, Exists, Batch, queueVars, jobVars
<1>3. CASE IssueRow(c)
  <2>1. TypeOK'
    BY <1>3, CodeAssumption DEF IssueRow, TypeInv, TypeOK, QueueTypeOK, queueVars,
       jobVars, logVars, boundVars
  <2> QED BY <2>1, <1>2 DEF TypeInv
<1>4. CASE IssueTransaction(c)
  <2>1. TypeOK'
    BY <1>4 DEF IssueTransaction, TypeInv, TypeOK, QueueTypeOK, queueVars,
       jobVars, logVars, boundVars, TransactionStatus
  <2> QED BY <2>1, <1>2 DEF TypeInv
<1>5. CASE RegisterAccount(c)
  <2>1. TypeOK'
    BY <1>5 DEF RegisterAccount, TypeInv, TypeOK, QueueTypeOK, queueVars,
       jobVars, storeVars, boundVars
  <2> QED BY <2>1, <1>2 DEF TypeInv
<1>6. CASE PurgeOldLogs(c)
  <2>1. PICK n \in 0 .. Len(processed[c]), kept \in SUBSET failed[c] :
          /\ processed' = [processed EXCEPT ![c] = SubSeq(@, n + 1, Len(@))]
          /\ failed' = [failed EXCEPT ![c] = kept]
    BY <1>6 DEF PurgeOldLogs
  <2>2. SubSeq(processed[c], n + 1, Len(processed[c])) \in Seq(WebhookEvent)
    BY DEF TypeInv, TypeOK
  <2>3. processed' \in [Code -> Seq(WebhookEvent)]
    BY <2>1, <2>2 DEF TypeInv, TypeOK
  <2>4. failed' \in [Code -> SUBSET WebhookEvent]
    BY <2>1 DEF TypeInv, TypeOK
  <2>5. TypeOK'
    BY <1>6, <2>3, <2>4, BoundsAssumption DEF PurgeOldLogs, TypeInv, TypeOK,
       QueueTypeOK, queueVars, jobVars, worldVars
  <2> QED BY <2>5, <1>2 DEF TypeInv
<1> QED BY <1>3, <1>4, <1>5, <1>6

LEMMA TypeNext == TypeInv /\ [Next]_vars => TypeInv'
<1> SUFFICES ASSUME TypeInv, [Next]_vars PROVE TypeInv'
  OBVIOUS
<1>1. CASE Next
  BY <1>1, TypeDeliver, TypeTakeJob, TypeRecoverOrRetry, TypeWork, TypeFaults,
     TypeAround DEF Next
<1>2. CASE UNCHANGED vars
  BY <1>2 DEF vars, queueVars, jobVars, storeVars, worldVars, boundVars, TypeInv,
     TypeOK, QueueTypeOK, JobsHavePayload, WorkerHoldsJob, Exists, Batch
<1> QED BY <1>1, <1>2

LEMMA TypeInvariant == Spec => []TypeInv
BY TypeInit, TypeNext, PTL DEF Spec

\* The queue, the worker, the payment tables and the event log keep their
\* types in every run, for any number of payments, deliveries and faults.
THEOREM TypeCorrect == Spec => []TypeOK
<1>1. TypeInv => TypeOK
  BY DEF TypeInv
<1> QED BY <1>1, TypeInvariant, PTL

-----------------------------------------------------------------------------
(* The log follows the state machine.  LogFollowsStateMachine is not        *)
(* inductive: the entry a handler appends was decided on several writes     *)
(* earlier, so the decision must be known to stand until then (Decided),    *)
(* and a handler that creates a row does so without a look at the log, so   *)
(* a payment that has a log must have a row (LoggedHaveRow), which in turn  *)
(* needs the row to be there from its save to the log entry (Saved).        *)

\* The event may still come after the last logged one; or the log was purged
\* in the meantime.
Decided ==
  step # "find" =>
    \/ MayFollow(LastProcessed(TheCode), TheEvent)
    \/ purges > 0 /\ processed[TheCode] = <<>>

Saved == step \in {"qr", "tx", "log"} => rows[TheCode] # NoRow

LoggedHaveRow == \A c \in Code : processed[c] # <<>> => rows[c] # NoRow

LogInv == TypeInv /\ Decided /\ Saved /\ LoggedHaveRow /\ LogFollowsStateMachine

\* An accepted event may come after the last one in its payment's log.
LEMMA AcceptedMayFollow ==
  ASSUME LogInv, Working("find"), Accepts(TheHandler, TheCode)
  PROVE  MayFollow(LastProcessed(TheCode), TheEvent)
<1>1. /\ TheCode \in Code /\ TheEvent \in WebhookEvent
      /\ TheHandler \in Handlers /\ TheHandler.event = TheEvent
  BY WorkingTypes DEF LogInv
<1>2. CASE rows[TheCode] = NoRow
  <2>1. AllowedPrevious(TheEvent) = {}
    BY <1>1, <1>2, HandlerTableOK DEF Accepts, Creates
  <2>2. LastProcessed(TheCode) = NoEvent
    BY <1>1, <1>2 DEF LogInv, LoggedHaveRow, LastProcessed
  <2> QED BY <2>1, <2>2 DEF MayFollow, CanProcessWebhook
<1>3. CASE rows[TheCode] # NoRow
  BY <1>1, <1>3 DEF Accepts, MayFollow, TheHandler
<1> QED BY <1>2, <1>3

\* A step that changes neither a row nor the log, and that leaves the worker
\* at the event it was at or between two events.
LEMMA LogUntouched ==
  ASSUME LogInv, TypeInv', rows' = rows, processed' = processed, purges' = purges,
         \/ step' = "find"
         \/ /\ step' = step /\ active' = active /\ pos' = pos
            /\ payload'[active] = payload[active]
  PROVE  LogInv'
<1>1. LoggedHaveRow' /\ LogFollowsStateMachine'
  BY DEF LogInv, LoggedHaveRow, LogFollowsStateMachine
<1>2. CASE step' = "find"
  BY <1>1, <1>2 DEF LogInv, Decided, Saved
<1>3. CASE /\ step' = step /\ active' = active /\ pos' = pos
           /\ payload'[active] = payload[active]
  <2>1. TheCode' = TheCode /\ TheEvent' = TheEvent
    BY <1>3 DEF TheCode, TheEvent, Batch
  <2>2. LastProcessed(TheCode)' = LastProcessed(TheCode)
    BY <2>1 DEF LastProcessed
  <2>3. Decided' /\ Saved'
    BY <1>3, <2>1, <2>2 DEF LogInv, Decided, Saved
  <2> QED BY <1>1, <2>3 DEF LogInv
<1> QED BY <1>2, <1>3

LEMMA LogInit == Init => LogInv
<1> SUFFICES ASSUME Init PROVE LogInv
  OBVIOUS
<1>1. TypeInv
  BY TypeInit
<1>2. Decided /\ Saved /\ LoggedHaveRow
  BY DEF Init, Decided, Saved, LoggedHaveRow
<1>3. LogFollowsStateMachine
  BY DEF Init, LogFollowsStateMachine
<1> QED BY <1>1, <1>2, <1>3 DEF LogInv

\* The queue, around the handler.
LEMMA LogQueue ==
  ASSUME LogInv, TypeInv',
         \/ \E d \in Deliveries : Deliver(d)
         \/ \E k \in JobId : TakeJob(k) \/ RecoverStalled(k) \/ RetryLater(k)
  PROVE  LogInv'
<1>1. rows' = rows /\ processed' = processed /\ purges' = purges /\ step' = step
  BY DEF Deliver, TakeJob, RecoverStalled, RetryLater, storeVars, jobVars, boundVars
<1>2. CASE step = "find"
  BY <1>1, <1>2, LogUntouched
<1>3. CASE step # "find"
  <2>1. active # NoJob
    BY <1>3 DEF LogInv, TypeInv, WorkerHoldsJob
  <2>2. \/ \E d \in Deliveries : Deliver(d)
        \/ \E k \in JobId : RecoverStalled(k) \/ RetryLater(k)
    BY <2>1 DEF TakeJob
  <2>3. active' = active /\ pos' = pos
    BY <2>2 DEF Deliver, RecoverStalled, RetryLater, jobVars
  <2>4. payload'[active] = payload[active]
    BY <2>1, <2>2, ActiveJobKept DEF LogInv
  <2> QED BY <1>1, <2>3, <2>4, LogUntouched
<1> QED BY <1>2, <1>3

LEMMA LogWork ==
  ASSUME LogInv, TypeInv', Work
  PROVE  LogInv'
<1> DEFINE c == TheCode
<1>1. CASE SkipEvent \/ RefuseEvent \/ FinishJob
  <2>1. rows' = rows /\ processed' = processed /\ purges' = purges /\ step' = "find"
    BY <1>1 DEF SkipEvent, RefuseEvent, FinishJob, AttemptFails, StopWorking,
       Working, storeVars, boundVars
  <2> QED BY <2>1, LogUntouched
<1>2. ASSUME UNCHANGED <<payload, active, pos>>
      PROVE  TheCode' = TheCode /\ TheEvent' = TheEvent
  BY <1>2 DEF TheCode, TheEvent, Batch
<1>3. CASE AcceptEvent
  <2>1. UNCHANGED <<payload, active, pos, rows, processed, purges>> /\ step' = "save"
    BY <1>3 DEF AcceptEvent, queueVars, storeVars, boundVars
  <2>2. MayFollow(LastProcessed(TheCode), TheEvent)
    BY <1>3, AcceptedMayFollow DEF AcceptEvent
  <2>3. Decided' /\ Saved'
    BY <1>2, <2>1, <2>2 DEF Decided, Saved, LastProcessed
  <2>4. LoggedHaveRow' /\ LogFollowsStateMachine'
    BY <2>1 DEF LogInv, LoggedHaveRow, LogFollowsStateMachine
  <2> QED BY <2>3, <2>4 DEF LogInv
<1>4. CASE SaveRow \/ MarkQrCodePaid \/ WriteTransaction
  <2>1. UNCHANGED <<payload, active, pos, processed, purges>> /\ step # "find"
    BY <1>4 DEF SaveRow, MarkQrCodePaid, WriteTransaction, Working, queueVars,
       logVars, boundVars
  <2>2. TheCode' = TheCode /\ TheEvent' = TheEvent
    BY <1>2, <2>1
  <2>3. \A x \in Code : rows[x] # NoRow => rows'[x] # NoRow
    <3>1. rows \in [Code -> RowStatus \cup {NoRow}]
      BY DEF LogInv, TypeInv, TypeOK
    <3>2. CASE SaveRow
      <4>1. TheCode \in Code /\ TheHandler.row \in RowStatus
        BY <3>2, WorkingTypes, HandlerTableOK DEF SaveRow, LogInv
      <4> QED BY <3>1, <3>2, <4>1, NoRowAssumption DEF SaveRow
    <3>3. CASE MarkQrCodePaid
      <4>1. "PAID" # NoRow
        BY NoRowAssumption DEF RowStatus
      <4> QED BY <3>1, <3>3, <4>1 DEF MarkQrCodePaid
    <3>4. CASE WriteTransaction
      BY <3>4 DEF WriteTransaction
    <3> QED BY <1>4, <3>2, <3>3, <3>4
  <2>4. TheCode \in Code
    BY <1>4, WorkingTypes DEF SaveRow, MarkQrCodePaid, WriteTransaction, LogInv
  <2>5. rows'[TheCode] # NoRow
    <3>1. CASE SaveRow
      <4>1. TheHandler.row \in RowStatus
        BY <3>1, WorkingTypes, HandlerTableOK DEF SaveRow, LogInv
      <4> QED
        BY <2>4, <3>1, <4>1, NoRowAssumption DEF SaveRow, LogInv, TypeInv, TypeOK
    <3>2. CASE MarkQrCodePaid \/ WriteTransaction
      <4>1. rows[TheCode] # NoRow
        BY <3>2 DEF LogInv, Saved, MarkQrCodePaid, WriteTransaction, Working
      <4> QED BY <2>3, <2>4, <4>1
    <3> QED BY <1>4, <3>1, <3>2
  <2>6. Decided' /\ Saved'
    BY <2>1, <2>2, <2>5 DEF LogInv, Decided, Saved, LastProcessed
  <2>7. LoggedHaveRow' /\ LogFollowsStateMachine'
    BY <2>1, <2>3 DEF LogInv, LoggedHaveRow, LogFollowsStateMachine
  <2> QED BY <2>6, <2>7 DEF LogInv
<1>5. CASE LogEvent
  <2>1. /\ step' = "find" /\ rows' = rows /\ purges' = purges
        /\ processed' = [processed EXCEPT ![c] = Append(@, TheEvent)]
        /\ step = "log"
    BY <1>5 DEF LogEvent, Working, boundVars
  <2>2. c \in Code /\ TheEvent \in WebhookEvent /\ processed \in [Code -> Seq(WebhookEvent)]
    BY <1>5, WorkingTypes DEF LogEvent, LogInv, TypeInv, TypeOK
  <2>3. Decided' /\ Saved'
    BY <2>1 DEF Decided, Saved
  <2>4. LoggedHaveRow'
    BY <2>1, <2>2 DEF LogInv, LoggedHaveRow, Saved
  <2>5. \/ MayFollow(LastProcessed(c), TheEvent)
        \/ purges > 0 /\ processed[c] = <<>>
    BY <2>1 DEF LogInv, Decided
  <2>6. LogFollowsStateMachine'
    <3> SUFFICES ASSUME NEW x \in Code
                 PROVE  /\ \A i \in 1 .. Len(processed'[x]) - 1 :
                             MayFollow(processed'[x][i], processed'[x][i + 1])
                        /\ purges = 0 /\ processed'[x] # <<>>
                             => MayFollow(NoEvent, processed'[x][1])
      BY <2>1 DEF LogFollowsStateMachine
    <3> DEFINE h == processed[x]
    <3>1. /\ \A i \in 1 .. Len(h) - 1 : MayFollow(h[i], h[i + 1])
          /\ purges = 0 /\ h # <<>> => MayFollow(NoEvent, h[1])
      BY DEF LogInv, LogFollowsStateMachine
    <3>2. CASE x # c
      BY <2>1, <2>2, <3>1, <3>2
    <3>3. CASE x = c
      <4>1. h \in Seq(WebhookEvent) /\ processed'[x] = Append(h, TheEvent)
        BY <2>1, <2>2, <3>3
      <4>2. ASSUME NEW i \in 1 .. Len(h)
            PROVE  MayFollow(Append(h, TheEvent)[i], Append(h, TheEvent)[i + 1])
        <5>1. CASE i = Len(h)
          <6>1. h # <<>> /\ LastProcessed(c) = h[Len(h)]
            BY <3>3, <4>1, <5>1 DEF LastProcessed
          <6>2. Append(h, TheEvent)[i] = h[Len(h)] /\ Append(h, TheEvent)[i + 1] = TheEvent
            BY <4>1, <5>1
          <6> QED BY <2>5, <3>3, <6>1, <6>2
        <5>2. CASE i # Len(h)
          <6>1. i \in 1 .. Len(h) - 1
            BY <4>1, <5>2
          <6>2. Append(h, TheEvent)[i] = h[i] /\ Append(h, TheEvent)[i + 1] = h[i + 1]
            BY <4>1, <6>1
          <6> QED BY <3>1, <6>1, <6>2
        <5> QED BY <5>1, <5>2
      <4>3. ASSUME purges = 0
            PROVE  MayFollow(NoEvent, Append(h, TheEvent)[1])
        <5>1. CASE h = <<>>
          BY <2>5, <3>3, <4>1, <4>3, <5>1 DEF LastProcessed
        <5>2. CASE h # <<>>
          <6>1. Append(h, TheEvent)[1] = h[1]
            BY <4>1, <5>2
          <6> QED BY <3>1, <4>3, <5>2, <6>1
        <5> QED BY <5>1, <5>2
      <4>4. Len(Append(h, TheEvent)) - 1 = Len(h)
        BY <4>1
      <4> HIDE DEF h
      <4> QED BY <4>1, <4>2, <4>3, <4>4
    <3> QED BY <3>2, <3>3
  <2> QED BY <2>3, <2>4, <2>6 DEF LogInv
<1> QED BY <1>1, <1>3, <1>4, <1>5 DEF Work

LEMMA LogFaults ==
  ASSUME LogInv, TypeInv', DatabaseFault \/ Crash
  PROVE  LogInv'
<1>1. rows' = rows /\ processed' = processed /\ purges' = purges /\ step' = "find"
  BY DEF DatabaseFault, Crash, AttemptFails, StopWorking, storeVars
<1> QED BY <1>1, LogUntouched

\* Purging drops the oldest entries: what is left of a log is its end.
LEMMA PurgeKeepsEnd ==
  ASSUME LogInv, NEW c \in Code, PurgeOldLogs(c)
  PROVE  \E n \in 0 .. Len(processed[c]) :
           /\ processed' = [processed EXCEPT ![c] = SubSeq(@, n + 1, Len(@))]
           /\ Len(processed'[c]) = Len(processed[c]) - n
           /\ \A i \in 1 .. Len(processed[c]) - n : processed'[c][i] = processed[c][n + i]
<1>1. PICK n \in 0 .. Len(processed[c]) :
        processed' = [processed EXCEPT ![c] = SubSeq(@, n + 1, Len(@))]
  BY DEF PurgeOldLogs
<1>2. processed \in [Code -> Seq(WebhookEvent)]
  BY DEF LogInv, TypeInv, TypeOK
<1> DEFINE h == processed[c]
<1>3. h \in Seq(WebhookEvent) /\ processed'[c] = SubSeq(h, n + 1, Len(h))
  BY <1>1, <1>2
<1>4. Len(h) \in Nat
  BY <1>3
<1> HIDE DEF h
<1>5. Len(SubSeq(h, n + 1, Len(h))) = Len(h) - n
  BY <1>3, <1>4 DEF h
<1>6. \A i \in 1 .. Len(h) - n : SubSeq(h, n + 1, Len(h))[i] = h[n + i]
  BY <1>3, <1>4 DEF h
<1> QED BY <1>1, <1>3, <1>5, <1>6 DEF h

LEMMA LogAround ==
  ASSUME LogInv, TypeInv', NEW c \in Code,
         IssueRow(c) \/ IssueTransaction(c) \/ RegisterAccount(c) \/ PurgeOldLogs(c)
  PROVE  LogInv'
<1>1. UNCHANGED <<payload, active, pos, step>>
  BY DEF IssueRow, IssueTransaction, RegisterAccount, PurgeOldLogs, queueVars, jobVars
<1>2. TheCode' = TheCode /\ TheEvent' = TheEvent
  BY <1>1 DEF TheCode, TheEvent, Batch
<1>3. CASE IssueTransaction(c) \/ RegisterAccount(c)
  <2>1. rows' = rows /\ processed' = processed /\ purges' = purges
    BY <1>3 DEF IssueTransaction, RegisterAccount, logVars, storeVars, boundVars
  <2> QED BY <1>1, <2>1, LogUntouched
<1>4. CASE IssueRow(c)
  <2>1. processed' = processed /\ purges' = purges
    BY <1>4 DEF IssueRow, logVars, boundVars
  <2>2. \A x \in Code : rows[x] # NoRow => rows'[x] # NoRow
    BY <1>4 DEF IssueRow, LogInv, TypeInv, TypeOK
  <2>3. step # "find" => TheCode \in Code
    BY WorkingTypes DEF LogInv, TypeInv, WorkerHoldsJob, Working
  <2>4. Decided' /\ Saved'
    BY <1>1, <1>2, <2>1, <2>2, <2>3 DEF LogInv, Decided, Saved, LastProcessed
  <2>5. LoggedHaveRow' /\ LogFollowsStateMachine'
    BY <2>1, <2>2 DEF LogInv, LoggedHaveRow, LogFollowsStateMachine
  <2> QED BY <2>4, <2>5 DEF LogInv
<1>5. CASE PurgeOldLogs(c)
  <2>1. rows' = rows /\ purges' > 0 /\ purges' # 0
    BY <1>5, BoundsAssumption DEF PurgeOldLogs, LogInv, TypeInv, TypeOK
  <2>2. PICK n \in 0 .. Len(processed[c]) :
           /\ processed' = [processed EXCEPT ![c] = SubSeq(@, n + 1, Len(@))]
           /\ Len(processed'[c]) = Len(processed[c]) - n
           /\ \A i \in 1 .. Len(processed[c]) - n : processed'[c][i] = processed[c][n + i]
    BY <1>5, PurgeKeepsEnd
  <2>3. processed \in [Code -> Seq(WebhookEvent)] /\ processed' \in [Code -> Seq(WebhookEvent)]
    BY DEF LogInv, TypeInv, TypeOK
  <2>4. \A x \in Code : x # c => processed'[x] = processed[x]
    BY <2>2, <2>3
  <2>5. LoggedHaveRow'
    <3> SUFFICES ASSUME NEW x \in Code, processed'[x] # <<>> PROVE rows[x] # NoRow
      BY <2>1 DEF LoggedHaveRow
    <3>1. processed[x] # <<>>
      <4>1. CASE x # c
        BY <2>4, <4>1
      <4>2. CASE x = c
        BY <2>2, <2>3, <4>2
      <4> QED BY <4>1, <4>2
    <3> QED BY <3>1 DEF LogInv, LoggedHaveRow
  <2>6. LogFollowsStateMachine'
    <3> SUFFICES ASSUME NEW x \in Code, NEW i \in 1 .. Len(processed'[x]) - 1
                 PROVE  MayFollow(processed'[x][i], processed'[x][i + 1])
      BY <2>1 DEF LogFollowsStateMachine
    <3>1. \A j \in 1 .. Len(processed[x]) - 1 : MayFollow(processed[x][j], processed[x][j + 1])
      BY DEF LogInv, LogFollowsStateMachine
    <3>2. CASE x # c
      BY <2>4, <3>1, <3>2
    <3>3. CASE x = c
      <4>1. Len(processed[c]) \in Nat /\ n \in Nat
        BY <2>3
      <4>2. /\ n + i \in 1 .. Len(processed[c]) - 1
            /\ i \in 1 .. Len(processed[c]) - n /\ i + 1 \in 1 .. Len(processed[c]) - n
            /\ n + (i + 1) = (n + i) + 1
        BY <2>2, <3>3, <4>1
      <4>3. processed'[c][i] = processed[c][n + i] /\ processed'[c][i + 1] = processed[c][(n + i) + 1]
        BY <2>2, <4>2
      <4> QED BY <3>1, <3>3, <4>2, <4>3
    <3> QED BY <3>2, <3>3
  <2>7. Saved'
    BY <1>1, <1>2, <2>1 DEF LogInv, Saved
  <2>8. Decided'
    <3> SUFFICES ASSUME step # "find", processed'[TheCode] # <<>>
                 PROVE  MayFollow(LastProcessed(TheCode)', TheEvent)
      BY <1>1, <1>2, <2>1 DEF Decided
    <3>1. TheCode \in Code
      BY WorkingTypes DEF LogInv, TypeInv, WorkerHoldsJob, Working
    <3>2. LastProcessed(TheCode)' = LastProcessed(TheCode) /\ processed[TheCode] # <<>>
      <4>1. CASE TheCode # c
        BY <1>2, <2>4, <3>1, <4>1 DEF LastProcessed
      <4>2. CASE TheCode = c
        <5>1. Len(processed[c]) \in Nat /\ n \in Nat /\ Len(processed'[c]) \in Nat
          BY <2>3
        <5>2. Len(processed'[c]) # 0
          BY <2>3, <4>2
        <5>3. Len(processed[c]) - n \in 1 .. Len(processed[c]) - n
          BY <2>2, <5>1, <5>2
        <5>4. processed'[c][Len(processed'[c])] = processed[c][Len(processed[c])]
          <6>1. processed'[c][Len(processed[c]) - n] = processed[c][n + (Len(processed[c]) - n)]
            BY <2>2, <5>3
          <6>2. n + (Len(processed[c]) - n) = Len(processed[c])
            BY <5>1
          <6> QED BY <2>2, <6>1, <6>2
        <5>5. processed[c] # <<>>
          BY <2>2, <5>1, <5>2
        <5> QED BY <1>2, <4>2, <5>4, <5>5 DEF LastProcessed
      <4> QED BY <4>1, <4>2
    <3> QED BY <3>2 DEF LogInv, Decided
  <2> QED BY <2>5, <2>6, <2>7, <2>8 DEF LogInv
<1> QED BY <1>3, <1>4, <1>5

LEMMA LogNext == LogInv /\ [Next]_vars => LogInv'
<1> SUFFICES ASSUME LogInv, [Next]_vars PROVE LogInv'
  OBVIOUS
<1>1. TypeInv'
  BY TypeNext DEF LogInv
<1>2. CASE Next
  BY <1>1, <1>2, LogQueue, LogWork, LogFaults, LogAround DEF Next
<1>3. CASE UNCHANGED vars
  BY <1>1, <1>3, LogUntouched DEF vars, queueVars, jobVars, storeVars, boundVars
<1> QED BY <1>2, <1>3

LEMMA LogInvariant == Spec => []LogInv
BY LogInit, LogNext, PTL DEF Spec

\* In every run, the processed entries of a payment are a path of the state
\* machine, whatever fails, is retried, is delivered again or out of order.
THEOREM LogFollows == Spec => []LogFollowsStateMachine
<1>1. LogInv => LogFollowsStateMachine
  BY DEF LogInv
<1> QED BY <1>1, LogInvariant, PTL

-----------------------------------------------------------------------------
(* The processor implements PaymentFlow: appending an entry is Advance,     *)
(* purging is Forget, every other step is a stutter.                        *)

LEMMA FlowStep == LogInv /\ [Next]_vars => [Flow!Next]_<<processed, purges > 0>>
<1> SUFFICES ASSUME LogInv, [Next]_vars PROVE [Flow!Next]_<<processed, purges > 0>>
  OBVIOUS
<1>1. CASE processed' = processed /\ purges' = purges
  BY <1>1
<1>2. CASE LogEvent
  <2>1. /\ TheCode \in Code /\ TheEvent \in WebhookEvent
        /\ processed' = [processed EXCEPT ![TheCode] = Append(@, TheEvent)]
        /\ purges' = purges /\ step # "find"
    BY <1>2, WorkingTypes DEF LogEvent, LogInv, Working, boundVars
  <2>2. \/ MayFollow(LastProcessed(TheCode), TheEvent)
        \/ purges > 0 /\ processed[TheCode] = <<>>
    BY <2>1 DEF LogInv, Decided
  <2>3. LastProcessed(TheCode) = Flow!Last(processed[TheCode])
    BY DEF LastProcessed, Flow!Last
  <2>4. Flow!Advance(TheCode, TheEvent)
    BY <2>1, <2>2, <2>3 DEF Flow!Advance
  <2> QED BY <2>1, <2>4 DEF Flow!Next
<1>3. ASSUME NEW c \in Code, PurgeOldLogs(c) PROVE Flow!Next
  <2>1. purges' > 0
    BY <1>3, BoundsAssumption DEF PurgeOldLogs, LogInv, TypeInv, TypeOK
  <2>2. Flow!Forget(c)
    BY <1>3, <2>1 DEF PurgeOldLogs, Flow!Forget
  <2> QED BY <2>2 DEF Flow!Next
<1>4. CASE Next
  <2>1. \/ processed' = processed /\ purges' = purges
        \/ LogEvent
        \/ \E c \in Code : PurgeOldLogs(c)
    BY <1>4 DEF Next, Deliver, TakeJob, RecoverStalled, RetryLater, Work, SkipEvent,
       AcceptEvent, RefuseEvent, SaveRow, MarkQrCodePaid, WriteTransaction,
       FinishJob, DatabaseFault, Crash, AttemptFails, IssueRow, IssueTransaction,
       RegisterAccount, storeVars, logVars, boundVars
  <2> QED BY <1>1, <1>2, <1>3, <2>1
<1> QED BY <1>1, <1>4 DEF vars, storeVars, boundVars

\* Whatever happens in the queue, to the worker and to the database, the event
\* log shows every payment advancing one permitted event at a time.
THEOREM ImplementsFlow == Spec => FlowSpec
<1>1. Init => Flow!Init
  BY DEF Init, Flow!Init
<1> QED BY <1>1, FlowStep, LogInvariant, PTL DEF Spec, FlowSpec, Flow!Spec

-----------------------------------------------------------------------------
(* Who writes what: the frame the remaining proofs share.                   *)

\* The event under the worker's hands is one the provider sends about its code.
LEMMA WorkingDelivered ==
  ASSUME TypeInv, NEW s, Working(s)
  PROVE  TheEvent \in EventsOf(TheCode)
<1>1. payload[active] \in Deliveries /\ pos \in DOMAIN Batch
  BY WorkingTypes DEF Working
<1> QED BY <1>1 DEF EventsOf, TheEvent, TheCode, Batch

\* Between two events the worker is not working on a payment.
LEMMA StepWorking ==
  ASSUME TypeInv, step # "find"
  PROVE  Working(step)
BY DEF TypeInv, WorkerHoldsJob, Working

\* In the middle of an event, the worker stays with it.
LEMMA WorkerSteps ==
  ASSUME TypeInv, [Next]_vars, step' # "find"
  PROVE  /\ active' = active /\ pos' = pos /\ payload'[active] = payload[active]
         /\ TheCode' = TheCode /\ TheEvent' = TheEvent
         /\ \/ AcceptEvent \/ SaveRow \/ MarkQrCodePaid \/ WriteTransaction
            \/ step' = step
<1>1. CASE AcceptEvent \/ SaveRow \/ MarkQrCodePaid \/ WriteTransaction
  BY <1>1 DEF AcceptEvent, SaveRow, MarkQrCodePaid, WriteTransaction, queueVars,
     TheCode, TheEvent, Batch
<1>2. CASE \/ \E d \in Deliveries : Deliver(d)
           \/ \E k \in JobId : RecoverStalled(k) \/ RetryLater(k)
  <2>1. active' = active /\ pos' = pos /\ step' = step
    BY <1>2 DEF Deliver, RecoverStalled, RetryLater, jobVars
  <2>2. active # NoJob
    BY <2>1 DEF TypeInv, WorkerHoldsJob
  <2>3. payload'[active] = payload[active]
    BY <1>2, <2>2, ActiveJobKept
  <2> QED BY <2>1, <2>3 DEF TheCode, TheEvent, Batch
<1>3. CASE \E c \in Code : \/ IssueRow(c) \/ IssueTransaction(c)
                           \/ RegisterAccount(c) \/ PurgeOldLogs(c)
  BY <1>3 DEF IssueRow, IssueTransaction, RegisterAccount, PurgeOldLogs, queueVars,
     jobVars, TheCode, TheEvent, Batch
<1>4. CASE UNCHANGED vars
  BY <1>4 DEF vars, queueVars, jobVars, TheCode, TheEvent, Batch
<1>5. ~(SkipEvent \/ RefuseEvent \/ LogEvent \/ FinishJob \/ DatabaseFault \/ Crash)
  BY DEF SkipEvent, RefuseEvent, LogEvent, FinishJob, DatabaseFault, Crash,
     AttemptFails, StopWorking, Working
<1>6. ~(\E k \in JobId : TakeJob(k))
  BY DEF TakeJob, TypeInv, WorkerHoldsJob
<1> QED BY <1>1, <1>2, <1>3, <1>4, <1>5, <1>6 DEF Next, Work

\* The row of a payment is written by its handler's save and by the API.
LEMMA RowWriters ==
  ASSUME TypeInv, [Next]_vars, NEW c \in Code \ QrCodes, rows'[c] # rows[c]
  PROVE  (SaveRow /\ TheCode = c) \/ IssueRow(c)
<1>1. rows \in [Code -> RowStatus \cup {NoRow}]
  BY DEF TypeInv, TypeOK
<1>2. CASE SaveRow
  BY <1>1, <1>2 DEF SaveRow
<1>3. CASE MarkQrCodePaid
  <2>1. TheCode \in Code
    BY <1>3, WorkingTypes DEF MarkQrCodePaid
  <2>2. QrCodeOf[TheCode] # c
    BY <2>1, CodeAssumption DEF QrCodes
  <2> QED BY <1>1, <1>3, <2>2 DEF MarkQrCodePaid
<1>4. ASSUME NEW x \in Code, IssueRow(x)
      PROVE  x = c
  BY <1>1, <1>4 DEF IssueRow
<1>5. \/ rows' = rows \/ SaveRow \/ MarkQrCodePaid
      \/ \E x \in Code : IssueRow(x)
  BY DEF Next, Deliver, TakeJob, RecoverStalled, RetryLater, Work, SkipEvent,
     AcceptEvent, RefuseEvent, WriteTransaction, LogEvent, FinishJob,
     DatabaseFault, Crash, AttemptFails, IssueTransaction, RegisterAccount,
     PurgeOldLogs, storeVars, logVars, vars
<1> QED BY <1>2, <1>3, <1>4, <1>5

\* Its transaction, by its handler and by the API.
LEMMA TransactionWriters ==
  ASSUME TypeInv, [Next]_vars, NEW c \in Code, txs'[c] # txs[c]
  PROVE  (WriteTransaction /\ TheCode = c) \/ IssueTransaction(c)
<1>1. txs \in [Code -> TransactionStatus \cup {NoTx}]
  BY DEF TypeInv, TypeOK
<1>2. CASE WriteTransaction
  BY <1>1, <1>2 DEF WriteTransaction
<1>3. ASSUME NEW x \in Code, IssueTransaction(x)
      PROVE  x = c
  BY <1>1, <1>3 DEF IssueTransaction
<1>4. \/ txs' = txs \/ WriteTransaction
      \/ \E x \in Code : IssueTransaction(x)
  BY DEF Next, Deliver, TakeJob, RecoverStalled, RetryLater, Work, SkipEvent,
     AcceptEvent, RefuseEvent, SaveRow, MarkQrCodePaid, LogEvent, FinishJob,
     DatabaseFault, Crash, AttemptFails, IssueRow, RegisterAccount,
     PurgeOldLogs, storeVars, logVars, vars
<1> QED BY <1>2, <1>3, <1>4

\* Its log, by its handler and by the cleanup job.
LEMMA LogWriters ==
  ASSUME TypeInv, [Next]_vars, NEW c \in Code, processed'[c] # processed[c]
  PROVE  (LogEvent /\ TheCode = c) \/ PurgeOldLogs(c)
<1>1. processed \in [Code -> Seq(WebhookEvent)]
  BY DEF TypeInv, TypeOK
<1>2. CASE LogEvent
  BY <1>1, <1>2 DEF LogEvent
<1>3. ASSUME NEW x \in Code, PurgeOldLogs(x)
      PROVE  x = c
  BY <1>1, <1>3 DEF PurgeOldLogs
<1>4. \/ processed' = processed \/ LogEvent
      \/ \E x \in Code : PurgeOldLogs(x)
  BY DEF Next, Deliver, TakeJob, RecoverStalled, RetryLater, Work, SkipEvent,
     AcceptEvent, RefuseEvent, SaveRow, MarkQrCodePaid, WriteTransaction,
     FinishJob, DatabaseFault, Crash, AttemptFails, IssueRow, IssueTransaction,
     RegisterAccount, storeVars, logVars, vars
<1> QED BY <1>2, <1>3, <1>4

\* The counts of faults and purges never go back.
LEMMA CountsGrow ==
  ASSUME TypeInv, [Next]_vars
  PROVE  (faults' = 0 => faults = 0) /\ (purges' = 0 => purges = 0)
<1>1. faults \in Nat /\ purges \in Nat
  BY BoundsAssumption DEF TypeInv, TypeOK
<1>2. faults' \in {faults, faults + 1} /\ purges' \in {purges, purges + 1}
  BY DEF Next, Deliver, TakeJob, RecoverStalled, RetryLater, Work, SkipEvent,
     AcceptEvent, RefuseEvent, SaveRow, MarkQrCodePaid, WriteTransaction, LogEvent,
     FinishJob, DatabaseFault, Crash, AttemptFails, IssueRow, IssueTransaction,
     RegisterAccount, PurgeOldLogs, boundVars, vars
<1> QED BY <1>1, <1>2

-----------------------------------------------------------------------------
(* A row is at most one event ahead of the log.  A handler logs an event a   *)
(* few writes after it saved the row, so the invariant must know that the    *)
(* row still has the status of that event (SavedRow).                        *)

SavedRow ==
  step \in {"qr", "tx", "log"} /\ TheCode \notin QrCodes
    => rows[TheCode] = TheHandler.row

RowInv == LogInv /\ SavedRow /\ RowAtMostOneEventAhead

LEMMA SavedRowNext ==
  ASSUME LogInv, SavedRow, [Next]_vars
  PROVE  SavedRow'
<1> SUFFICES ASSUME step' \in {"qr", "tx", "log"}, TheCode' \notin QrCodes
             PROVE  rows'[TheCode'] = TheHandler'.row
  BY DEF SavedRow
<1>1. /\ TheCode' = TheCode /\ TheEvent' = TheEvent
      /\ \/ AcceptEvent \/ SaveRow \/ MarkQrCodePaid \/ WriteTransaction
         \/ step' = step
  BY WorkerSteps DEF LogInv
<1>2. TheHandler' = TheHandler
  BY <1>1 DEF TheHandler
<1>3. ~AcceptEvent
  BY DEF AcceptEvent
<1>4. CASE SaveRow
  <2>1. TheCode \in Code /\ rows \in [Code -> RowStatus \cup {NoRow}]
    BY <1>4, WorkingTypes DEF SaveRow, LogInv, TypeInv, TypeOK
  <2> QED BY <1>1, <1>2, <1>4, <2>1 DEF SaveRow
<1>5. CASE ~SaveRow
  <2>1. step \in {"qr", "tx", "log"}
    BY <1>1, <1>3, <1>5 DEF MarkQrCodePaid, WriteTransaction, Working
  <2>2. rows[TheCode] = TheHandler.row /\ rows[TheCode] # NoRow
    BY <1>1, <2>1 DEF SavedRow, LogInv, Saved
  <2>3. TheCode \in Code \ QrCodes
    BY <1>1, <2>1, StepWorking, WorkingTypes DEF LogInv
  <2>4. rows'[TheCode] = rows[TheCode]
    BY <1>5, <2>2, <2>3, RowWriters DEF IssueRow, LogInv
  <2> QED BY <1>1, <1>2, <2>2, <2>4
<1> QED BY <1>4, <1>5

LEMMA RowAheadNext ==
  ASSUME RowInv, [Next]_vars
  PROVE  RowAtMostOneEventAhead'
<1> SUFFICES ASSUME NEW c \in Code, c \notin QrCodes, rows'[c] # NoRow, purges' = 0
             PROVE  \/ LastProcessed(c)' = NoEvent /\ rows'[c] = IssuedRow[c]
                    \/ LastProcessed(c)' # NoEvent /\ rows'[c] = HandlerOf(LastProcessed(c)').row
                    \/ \E e \in WebhookEvent :
                         MayFollow(LastProcessed(c)', e) /\ rows'[c] = HandlerOf(e).row
  BY DEF RowAtMostOneEventAhead
<1>1. TypeInv /\ LogInv /\ purges = 0
  BY CountsGrow DEF RowInv, LogInv
<1>2. rows \in [Code -> RowStatus \cup {NoRow}] /\ processed \in [Code -> Seq(WebhookEvent)]
  BY <1>1 DEF TypeInv, TypeOK
<1>3. CASE LogEvent /\ TheCode = c
  <2>1. TheEvent \in WebhookEvent
    BY <1>1, <1>3, WorkingTypes DEF LogEvent
  <2>2. processed'[c] = Append(processed[c], TheEvent) /\ rows' = rows
    BY <1>2, <1>3 DEF LogEvent
  <2>3. Append(processed[c], TheEvent) # <<>>
    BY <1>2, <2>1
  <2>4. /\ Len(Append(processed[c], TheEvent)) = Len(processed[c]) + 1
        /\ Append(processed[c], TheEvent)[Len(processed[c]) + 1] = TheEvent
    BY <1>2, <2>1
  <2>5. LastProcessed(c)' = TheEvent
    BY <2>2, <2>3, <2>4 DEF LastProcessed
  <2>6. rows[c] = TheHandler.row
    BY <1>3 DEF LogEvent, Working, RowInv, SavedRow
  <2>7. TheEvent # NoEvent
    BY <2>1 DEF WebhookEvent, PixEvent, BoletoEvent, BillPaymentEvent, TedEvent, NoEvent
  <2> QED BY <2>2, <2>5, <2>6, <2>7 DEF TheHandler
<1>4. CASE processed'[c] = processed[c]
  <2>1. LastProcessed(c)' = LastProcessed(c)
    BY <1>4 DEF LastProcessed
  <2>2. CASE rows'[c] = rows[c]
    BY <1>1, <2>1, <2>2 DEF RowInv, RowAtMostOneEventAhead
  <2>3. CASE SaveRow /\ TheCode = c
    <3>1. TheEvent \in WebhookEvent /\ rows'[c] = HandlerOf(TheEvent).row
      BY <1>1, <1>2, <2>3, WorkingTypes DEF SaveRow, TheHandler
    <3>2. MayFollow(LastProcessed(c), TheEvent)
      BY <1>1, <2>3 DEF LogInv, Decided, SaveRow, Working
    <3> QED BY <2>1, <3>1, <3>2
  <2>4. CASE IssueRow(c)
    <3>1. rows'[c] = IssuedRow[c] /\ rows[c] = NoRow
      BY <1>2, <2>4 DEF IssueRow
    <3>2. processed[c] = <<>>
      BY <1>1, <3>1 DEF LogInv, LoggedHaveRow
    <3> QED BY <2>1, <3>1, <3>2 DEF LastProcessed
  <2> QED BY <1>1, <2>2, <2>3, <2>4, RowWriters
<1>5. ~PurgeOldLogs(c)
  BY <1>1, BoundsAssumption DEF PurgeOldLogs
<1> QED BY <1>1, <1>3, <1>4, <1>5, LogWriters

LEMMA RowInvariant == Spec => []RowInv
<1>1. Init => RowInv
  <2> SUFFICES ASSUME Init PROVE RowInv
    OBVIOUS
  <2>1. LogInv /\ SavedRow
    BY LogInit DEF Init, SavedRow
  <2>2. RowAtMostOneEventAhead
    BY DEF Init, RowAtMostOneEventAhead
  <2> QED BY <2>1, <2>2 DEF RowInv
<1>2. RowInv /\ [Next]_vars => RowInv'
  BY LogNext, SavedRowNext, RowAheadNext DEF RowInv
<1> QED BY <1>1, <1>2, PTL DEF Spec

\* In every run, for any deliveries, faults and races with the API, the status
\* stored for a payment is that of its last logged event or of a permitted
\* next one.
THEOREM RowKeepsUp == Spec => []RowAtMostOneEventAhead
<1>1. RowInv => RowAtMostOneEventAhead
  BY DEF RowInv
<1> QED BY <1>1, RowInvariant, PTL

-----------------------------------------------------------------------------
(* Events delivered again.  A transfer's log holds only events about that     *)
(* transfer (LoggedWereDelivered), so all of them are guarded and the log     *)
(* goes from stage to stage (LogsGoOn): none of its events can come again.    *)

LoggedWereDelivered ==
  \A c \in Code : \A i \in DOMAIN processed[c] : processed[c][i] \in EventsOf(c)

LogsGoOn ==
  \A c \in Code : EventsOf(c) \subseteq TransferEvent =>
    \A i, j \in DOMAIN processed[c] :
      i < j => Stage(processed[c][i]) < Stage(processed[c][j])

HistoryInv == LogInv /\ LoggedWereDelivered /\ LogsGoOn

\* What a table holds of one payment is all about a transfer, or nothing is.
LEMMA TransfersApart ==
  ASSUME NEW c \in Code, NEW event \in EventsOf(c) \cap TransferEvent
  PROVE  EventsOf(c) \subseteq TransferEvent
<1>1. PICK table \in PaymentTables : EventsOf(c) \subseteq table
  BY TablesAssumption
<1>2. table \subseteq TransferEvent
  <2>1. event \in table
    BY <1>1
  <2> QED BY <2>1 DEF PaymentTables, TransferEvent, PixEvent, TedEvent,
       BoletoEvent, BillPaymentEvent
<1> QED BY <1>1, <1>2

\* An event a transfer may go on with is further along than its whole log.
LEMMA NextIsFurther ==
  ASSUME HistoryInv, NEW c \in Code, NEW event \in EventsOf(c) \cap TransferEvent,
         MayFollow(LastProcessed(c), event), NEW i \in DOMAIN processed[c]
  PROVE  Stage(processed[c][i]) < Stage(event)
<1> DEFINE h == processed[c]
<1>1. h \in Seq(WebhookEvent) /\ h # <<>> /\ Len(h) \in DOMAIN h /\ i \in 1 .. Len(h)
  BY DEF HistoryInv, LogInv, TypeInv, TypeOK
<1>2. LastProcessed(c) = h[Len(h)] /\ h[Len(h)] \in WebhookEvent
  BY <1>1 DEF LastProcessed
<1>3. h[Len(h)] # NoEvent
  BY <1>2 DEF WebhookEvent, PixEvent, BoletoEvent, BillPaymentEvent, TedEvent, NoEvent
<1>4. event \in WebhookEvent
  BY DEF TransferEvent, WebhookEvent
<1>5. h[Len(h)] \in AllowedPrevious(event)
  BY <1>2, <1>3, <1>4, TransfersAreGuarded DEF MayFollow, CanProcessWebhook
<1>6. Stage(h[Len(h)]) < Stage(event)
  BY <1>5, TransfersGoOn
<1>7. i # Len(h) => Stage(h[i]) < Stage(h[Len(h)])
  <2>1. EventsOf(c) \subseteq TransferEvent
    BY TransfersApart
  <2> QED BY <1>1, <2>1 DEF HistoryInv, LogsGoOn
<1>8. \A e : Stage(e) \in Nat
  BY DEF Stage
<1> QED BY <1>6, <1>7, <1>8

LEMMA HistoryNext ==
  ASSUME HistoryInv, [Next]_vars
  PROVE  HistoryInv'
<1>1. TypeInv /\ LogInv /\ LogInv'
  BY LogNext DEF HistoryInv, LogInv
<1>2. processed \in [Code -> Seq(WebhookEvent)] /\ processed' \in [Code -> Seq(WebhookEvent)]
  BY <1>1 DEF LogInv, TypeInv, TypeOK
<1> SUFFICES ASSUME NEW c \in Code
             PROVE  /\ \A i \in DOMAIN processed'[c] : processed'[c][i] \in EventsOf(c)
                    /\ EventsOf(c) \subseteq TransferEvent =>
                         \A i, j \in DOMAIN processed'[c] :
                           i < j => Stage(processed'[c][i]) < Stage(processed'[c][j])
  BY <1>1 DEF HistoryInv, LoggedWereDelivered, LogsGoOn
<1> DEFINE h == processed[c]
<1>3. /\ \A i \in DOMAIN h : h[i] \in EventsOf(c)
      /\ EventsOf(c) \subseteq TransferEvent =>
           \A i, j \in DOMAIN h : i < j => Stage(h[i]) < Stage(h[j])
  BY DEF HistoryInv, LoggedWereDelivered, LogsGoOn
<1>4. h \in Seq(WebhookEvent) /\ DOMAIN h = 1 .. Len(h) /\ Len(h) \in Nat
  BY <1>2
<1>5. CASE processed'[c] = processed[c]
  BY <1>3, <1>5
<1>6. CASE LogEvent /\ TheCode = c
  <2>1. TheEvent \in EventsOf(c) /\ TheEvent \in WebhookEvent
    BY <1>1, <1>6, WorkingDelivered, WorkingTypes DEF LogEvent
  <2>2. processed'[c] = Append(h, TheEvent)
    BY <1>2, <1>6 DEF LogEvent
  <2>3. /\ DOMAIN Append(h, TheEvent) = 1 .. Len(h) + 1
        /\ Append(h, TheEvent)[Len(h) + 1] = TheEvent
        /\ \A i \in 1 .. Len(h) : Append(h, TheEvent)[i] = h[i]
    BY <1>4, <2>1
  <2>4. \A i \in DOMAIN processed'[c] : processed'[c][i] \in EventsOf(c)
    BY <1>3, <1>4, <2>1, <2>2, <2>3
  <2>5. ASSUME EventsOf(c) \subseteq TransferEvent, NEW i \in 1 .. Len(h)
        PROVE  Stage(h[i]) < Stage(TheEvent)
    <3>1. MayFollow(LastProcessed(c), TheEvent)
      BY <1>1, <1>4, <1>6, <2>5 DEF LogEvent, Working, LogInv, Decided
    <3> QED BY <1>4, <2>1, <2>5, <3>1, NextIsFurther
  <2>6. ASSUME EventsOf(c) \subseteq TransferEvent,
               NEW i \in 1 .. Len(h) + 1, NEW j \in 1 .. Len(h) + 1, i < j
        PROVE  Stage(Append(h, TheEvent)[i]) < Stage(Append(h, TheEvent)[j])
    <3>1. i \in 1 .. Len(h) /\ Append(h, TheEvent)[i] = h[i]
      BY <1>4, <2>3, <2>6
    <3>2. CASE j = Len(h) + 1
      BY <2>3, <2>5, <2>6, <3>1, <3>2
    <3>3. CASE j # Len(h) + 1
      <4>1. j \in 1 .. Len(h) /\ Append(h, TheEvent)[j] = h[j]
        BY <1>4, <2>3, <2>6, <3>3
      <4> QED BY <1>3, <1>4, <2>6, <3>1, <4>1
    <3> QED BY <3>2, <3>3
  <2> QED BY <2>2, <2>3, <2>4, <2>6
<1>7. CASE PurgeOldLogs(c)
  <2>1. PICK n \in 0 .. Len(h) :
           /\ Len(processed'[c]) = Len(h) - n
           /\ \A i \in 1 .. Len(h) - n : processed'[c][i] = h[n + i]
    BY <1>1, <1>7, PurgeKeepsEnd
  <2>2. DOMAIN processed'[c] = 1 .. Len(h) - n
    BY <1>2, <2>1
  <2>3. \A i \in 1 .. Len(h) - n : n + i \in DOMAIN h
    BY <1>4
  <2>4. \A i \in DOMAIN processed'[c] : processed'[c][i] \in EventsOf(c)
    BY <1>3, <2>1, <2>2, <2>3
  <2>5. \A i, j \in 1 .. Len(h) - n : i < j => n + i < n + j
    BY <1>4
  <2> HIDE DEF h
  <2> QED BY <1>3, <2>1, <2>2, <2>3, <2>4, <2>5
<1> QED BY <1>1, <1>5, <1>6, <1>7, LogWriters

LEMMA HistoryInit == Init => HistoryInv
<1> SUFFICES ASSUME Init PROVE HistoryInv
  OBVIOUS
<1>1. LogInv
  BY LogInit
<1>2. \A c \in Code : DOMAIN processed[c] = {}
  BY DEF Init
<1> QED BY <1>1, <1>2 DEF HistoryInv, LoggedWereDelivered, LogsGoOn

LEMMA HistoryInvariant == Spec => []HistoryInv
BY HistoryInit, HistoryNext, PTL DEF Spec

\* A transfer's event that is in the log never changes the row again, whatever
\* was delivered twice, retried, or interrupted and run again.
THEOREM DuplicatesLeaveTransfers == Spec => TransferDuplicatesAreIgnored
<1> DEFINE Ignored ==
      \A c \in Code :
        /\ Working("save") /\ TheCode = c /\ rows'[c] # rows[c]
        /\ TheEvent \in (PixEvent \cup TedEvent) \ {"PIX_QRCODE_WAS_CREATED"}
        => ~Recorded(TheEvent, c)
<1>1. HistoryInv /\ [Next]_vars => Ignored
  <2> SUFFICES ASSUME HistoryInv, NEW c \in Code, Working("save"), TheCode = c,
                      TheEvent \in TransferEvent,
                      NEW i \in DOMAIN processed[c], processed[c][i] = TheEvent
               PROVE  FALSE
    BY DEF Recorded, TransferEvent
  <2>1. TheEvent \in EventsOf(c)
    BY WorkingDelivered DEF HistoryInv, LogInv
  <2>2. MayFollow(LastProcessed(c), TheEvent)
    <3>1. processed[c] # <<>>
      OBVIOUS
    <3> QED BY <3>1 DEF HistoryInv, LogInv, Decided, Working
  <2>3. Stage(TheEvent) < Stage(TheEvent)
    BY <2>1, <2>2, NextIsFurther
  <2>4. Stage(TheEvent) \in Nat
    BY DEF Stage
  <2> QED BY <2>3, <2>4
<1>2. HistoryInv /\ [Next]_vars => [Ignored]_vars
  BY <1>1
<1> QED BY <1>2, HistoryInvariant, PTL DEF Spec, TransferDuplicatesAreIgnored

-----------------------------------------------------------------------------
(* Payments that only webhooks create.  Only the first event of such a       *)
(* payment creates its row and transaction: a payment of another table that  *)
(* the API did not issue is never there (OnlyInboundExist), so that all the   *)
(* events it ever sees look at the log.                                      *)

OnlyInboundExist ==
  \A c \in Inbound : ~(EventsOf(c) \subseteq InboundEvent) =>
    rows[c] = NoRow /\ (step # "find" => TheCode # c)

IssuedByTheApi == \A c \in Code : issuing[c] = "rowSaved" => IssuedRow[c] # NoRow

InboundInv == HistoryInv /\ SavedRow /\ OnlyInboundExist /\ IssuedByTheApi

\* Where not all of a payment's events are inbound, none of them creates it.
LEMMA NeverCreated ==
  ASSUME NEW c \in Inbound, ~(EventsOf(c) \subseteq InboundEvent),
         NEW event \in EventsOf(c)
  PROVE  HandlerOf(event).onMissing \notin Creating
<1>1. PICK table \in PaymentTables : EventsOf(c) \subseteq table
  BY TablesAssumption DEF Inbound
<1>2. PICK other \in EventsOf(c) : other \notin InboundEvent
  OBVIOUS
<1>3. event \in table /\ other \in table /\ event # "PIX_QRCODE_WAS_CREATED"
  BY <1>1 DEF Inbound
<1>4. event \in WebhookEvent \ InboundEvent
  <2>1. CASE table \in {BoletoEvent, BillPaymentEvent}
    BY <1>3, <2>1 DEF WebhookEvent, BoletoEvent, BillPaymentEvent, InboundEvent,
       InboundTables
  <2>2. CASE table \notin {BoletoEvent, BillPaymentEvent}
    BY <1>2, <1>3, <2>2 DEF PaymentTables, WebhookEvent, PixEvent, TedEvent,
       InboundEvent, InboundTables
  <2> QED BY <2>1, <2>2
<1> QED BY <1>3, <1>4, OnlyInboundCreated

LEMMA InboundAreTransfers == InboundEvent \subseteq TransferEvent
BY DEF InboundEvent, InboundTables, TransferEvent, PixEvent, TedEvent

LEMMA OnlyInboundNext ==
  ASSUME InboundInv, [Next]_vars
  PROVE  OnlyInboundExist'
<1> SUFFICES ASSUME NEW c \in Inbound, ~(EventsOf(c) \subseteq InboundEvent)
             PROVE  rows'[c] = NoRow /\ (step' # "find" => TheCode' # c)
  BY DEF OnlyInboundExist, Inbound
<1>1. TypeInv /\ c \in Code \ QrCodes /\ IssuedRow[c] = NoRow
  BY DEF InboundInv, HistoryInv, LogInv, Inbound
<1>2. rows[c] = NoRow /\ (step # "find" => TheCode # c)
  BY DEF InboundInv, OnlyInboundExist
<1>3. rows'[c] = NoRow
  BY <1>1, <1>2, RowWriters DEF SaveRow, Working, IssueRow
<1>4. ASSUME step' # "find", TheCode' = c
      PROVE  FALSE
  <2>1. TheCode = c
    BY <1>1, <1>4, WorkerSteps
  <2>2. AcceptEvent
    BY <1>1, <1>2, <1>4, <2>1, WorkerSteps
       DEF SaveRow, MarkQrCodePaid, WriteTransaction, Working
  <2>3. TheEvent \in EventsOf(c)
    BY <1>1, <2>1, <2>2, WorkingDelivered DEF AcceptEvent
  <2>4. TheHandler.onMissing \in Creating
    BY <1>2, <2>1, <2>2 DEF AcceptEvent, Accepts, Creates, Creating
  <2> QED BY <2>3, <2>4, NeverCreated DEF TheHandler
<1> QED BY <1>3, <1>4

LEMMA InboundInit == Init => InboundInv
<1> SUFFICES ASSUME Init PROVE InboundInv
  OBVIOUS
<1>1. HistoryInv /\ SavedRow
  BY HistoryInit DEF Init, SavedRow
<1>2. OnlyInboundExist /\ IssuedByTheApi
  BY DEF Init, OnlyInboundExist, IssuedByTheApi, Inbound
<1> QED BY <1>1, <1>2 DEF InboundInv

LEMMA InboundNext == InboundInv /\ [Next]_vars => InboundInv'
<1> SUFFICES ASSUME InboundInv, [Next]_vars PROVE InboundInv'
  OBVIOUS
<1>1. HistoryInv' /\ SavedRow' /\ OnlyInboundExist'
  BY HistoryNext, SavedRowNext, OnlyInboundNext DEF InboundInv, HistoryInv
<1>2. issuing \in [Code -> {"no", "rowSaved", "done"}]
  BY DEF InboundInv, HistoryInv, LogInv, TypeInv, TypeOK
<1>3. IssuedByTheApi'
  <2>1. CASE issuing' = issuing
    BY <2>1 DEF InboundInv, IssuedByTheApi
  <2>2. CASE \/ Crash
             \/ \E c \in Code : IssueRow(c) \/ IssueTransaction(c)
    BY <1>2, <2>2 DEF InboundInv, IssuedByTheApi, Crash, IssueRow, IssueTransaction
  <2> QED
    BY <2>1, <2>2 DEF Next, Deliver, TakeJob, RecoverStalled, RetryLater, Work,
       SkipEvent, AcceptEvent, RefuseEvent, SaveRow, MarkQrCodePaid,
       WriteTransaction, LogEvent, FinishJob, DatabaseFault, AttemptFails,
       RegisterAccount, PurgeOldLogs, worldVars, vars
<1> QED BY <1>1, <1>3 DEF InboundInv

LEMMA InboundInvariant == Spec => []InboundInv
BY InboundInit, InboundNext, PTL DEF Spec

\* Who writes the row or the transaction of an inbound payment is its handler,
\* about an event that is one of an inbound payment.
LEMMA InboundWriters ==
  ASSUME InboundInv, [Next]_vars, NEW c \in Inbound,
         rows'[c] # rows[c] \/ txs'[c] # txs[c]
  PROVE  /\ rows'[c] # rows[c] => SaveRow
         /\ txs'[c] # txs[c] => WriteTransaction
         /\ TheCode = c /\ step # "find"
<1>1. TypeInv /\ c \in Code \ QrCodes /\ IssuedRow[c] = NoRow
  BY DEF InboundInv, HistoryInv, LogInv, Inbound
<1>2. ~IssueRow(c) /\ ~IssueTransaction(c)
  BY <1>1 DEF IssueRow, IssueTransaction, InboundInv, IssuedByTheApi
<1>3. /\ rows'[c] # rows[c] => SaveRow /\ TheCode = c
      /\ txs'[c] # txs[c] => WriteTransaction /\ TheCode = c
  BY <1>1, <1>2, RowWriters, TransactionWriters
<1> QED BY <1>3 DEF SaveRow, WriteTransaction, Working

LEMMA InboundUnderHand ==
  ASSUME InboundInv, NEW c \in Inbound, step # "find", TheCode = c
  PROVE  /\ TheEvent \in EventsOf(c) /\ TheEvent \in InboundEvent
         /\ EventsOf(c) \subseteq TransferEvent
<1>1. TheEvent \in EventsOf(c)
  BY StepWorking, WorkingDelivered DEF InboundInv, HistoryInv, LogInv
<1>2. EventsOf(c) \subseteq InboundEvent
  BY DEF InboundInv, OnlyInboundExist
<1> QED BY <1>1, <1>2, InboundAreTransfers

\* A transfer with a terminal event in its log takes no further event.
LEMMA TerminalIsLast ==
  ASSUME HistoryInv, NEW c \in Code, EventsOf(c) \subseteq TransferEvent,
         NEW event \in TransferEvent, MayFollow(LastProcessed(c), event),
         NEW i \in DOMAIN processed[c]
  PROVE  ~IsTerminalEvent(processed[c][i])
<1> DEFINE h == processed[c]
<1>1. h \in Seq(WebhookEvent) /\ h # <<>> /\ DOMAIN h = 1 .. Len(h) /\ Len(h) \in Nat
  BY DEF HistoryInv, LogInv, TypeInv, TypeOK
<1>2. ASSUME NEW e \in TransferEvent, NEW j \in DOMAIN h, MayFollow(h[j], e)
      PROVE  ~IsTerminalEvent(h[j])
  <2>1. h[j] \in WebhookEvent
    BY <1>1
  <2>2. e \in WebhookEvent /\ h[j] # NoEvent
    BY <2>1 DEF TransferEvent, WebhookEvent, PixEvent, BoletoEvent,
       BillPaymentEvent, TedEvent, NoEvent
  <2> QED BY <1>2, <2>2, TransfersAreGuarded DEF MayFollow, CanProcessWebhook
<1>3. CASE i = Len(h)
  BY <1>1, <1>2, <1>3 DEF LastProcessed
<1>4. CASE i # Len(h)
  <2>1. i \in 1 .. Len(h) - 1 /\ i + 1 \in DOMAIN h
    BY <1>1, <1>4
  <2>2. h[i + 1] \in TransferEvent
    BY <2>1 DEF HistoryInv, LoggedWereDelivered
  <2>3. MayFollow(h[i], h[i + 1])
    BY <2>1 DEF HistoryInv, LogInv, LogFollowsStateMachine
  <2> QED BY <1>2, <2>2, <2>3
<1> QED BY <1>3, <1>4

\* In every run, a terminal event in the log of a payment received through
\* webhooks is the last word on its row and its transaction.
THEOREM TerminalStaysFinal == Spec => TerminalIsFinal
<1> DEFINE Final ==
      \A c \in Inbound :
        (\E i \in DOMAIN processed[c] : IsTerminalEvent(processed[c][i]))
          => rows'[c] = rows[c] /\ txs'[c] = txs[c]
<1>1. InboundInv /\ [Next]_vars => Final
  <2> SUFFICES ASSUME InboundInv, [Next]_vars, NEW c \in Inbound,
                      NEW i \in DOMAIN processed[c], IsTerminalEvent(processed[c][i]),
                      rows'[c] # rows[c] \/ txs'[c] # txs[c]
               PROVE  FALSE
    OBVIOUS
  <2>1. TheCode = c /\ step # "find"
    BY InboundWriters
  <2>2. TheEvent \in EventsOf(c) /\ EventsOf(c) \subseteq TransferEvent /\ c \in Code
    BY <2>1, InboundUnderHand DEF Inbound
  <2>3. MayFollow(LastProcessed(c), TheEvent)
    <3>1. processed[c] # <<>>
      OBVIOUS
    <3> QED BY <2>1, <3>1 DEF InboundInv, HistoryInv, LogInv, Decided
  <2> QED BY <2>2, <2>3, TerminalIsLast DEF InboundInv
<1>2. InboundInv /\ [Next]_vars => [Final]_vars
  BY <1>1
<1> QED BY <1>2, InboundInvariant, PTL DEF Spec, TerminalIsFinal

-----------------------------------------------------------------------------
(* Row, transaction and log of an inbound payment.  Between the writes of a   *)
(* handler they disagree in a known way: after the save the row is one event  *)
(* ahead, and the transaction from the write before the log entry.           *)

RowAgrees(c) ==
  IF LastProcessed(c) = NoEvent THEN rows[c] = NoRow
  ELSE rows[c] = HandlerOf(LastProcessed(c)).row

TransactionAgrees(c) ==
  IF LastProcessed(c) = NoEvent THEN txs[c] = NoTx
  ELSE txs[c] = MapWebhookEventToTransactionStatus(LastProcessed(c))

Settling ==
  \A c \in Inbound : faults = 0 /\ purges = 0 =>
    /\ RowAgrees(c) \/ (step \in {"qr", "tx", "log"} /\ TheCode = c)
    /\ IF step = "log" /\ TheCode = c
       THEN txs[c] = MapWebhookEventToTransactionStatus(TheEvent)
       ELSE TransactionAgrees(c)

SettledInv == InboundInv /\ Settling

\* A handler that saved is only left at its log entry or by a fault.
LEMMA HandlerEnds ==
  ASSUME TypeInv, [Next]_vars, step # "find", step' = "find", faults' = 0
  PROVE  LogEvent
<1>1. ~(SkipEvent \/ RefuseEvent)
  BY DEF SkipEvent, RefuseEvent, Working
<1>2. ~FinishJob
  <2>1. pos \in DOMAIN Batch /\ Batch \in Seq(Code)
    BY StepWorking, WorkingTypes DEF Working
  <2> QED BY <2>1 DEF FinishJob
<1>3. ~(DatabaseFault \/ Crash)
  BY BoundsAssumption DEF DatabaseFault, Crash, TypeInv, TypeOK
<1>4. step' # step
  OBVIOUS
<1> QED
  BY <1>1, <1>2, <1>3, <1>4 DEF Next, Deliver, TakeJob, RecoverStalled, RetryLater, Work,
     AcceptEvent, SaveRow, MarkQrCodePaid, WriteTransaction, AfterSave, IssueRow,
     IssueTransaction, RegisterAccount, PurgeOldLogs, jobVars, vars

\* The transaction write of an inbound payment's handler always takes effect.
LEMMA TransactionIsWritten ==
  ASSUME SettledInv, NEW c \in Inbound, faults = 0, purges = 0,
         WriteTransaction, TheCode = c
  PROVE  txs'[c] = MapWebhookEventToTransactionStatus(TheEvent)
<1>1. step = "tx" /\ c \in Code /\ txs \in [Code -> TransactionStatus \cup {NoTx}]
  BY DEF WriteTransaction, Working, Inbound, SettledInv, InboundInv, HistoryInv,
     LogInv, TypeInv, TypeOK
<1>2. TheEvent \in InboundEvent /\ TheEvent \in TransferEvent
  BY <1>1, InboundUnderHand DEF SettledInv
<1>3. TransactionAgrees(c)
  BY <1>1 DEF SettledInv, Settling
<1>4. MayFollow(LastProcessed(c), TheEvent)
  BY <1>1 DEF SettledInv, InboundInv, HistoryInv, LogInv, Decided
<1>5. CanProcessWebhook(LastProcessed(c), TheEvent) /\ TheEvent \in WebhookEvent
  BY <1>2, <1>4, TransfersAreGuarded DEF MayFollow, TransferEvent, WebhookEvent
<1>6. CASE TheHandler.tx = "create" /\ AllowedPrevious(TheEvent) = {}
  <2>1. txs[c] = NoTx
    BY <1>3, <1>5, <1>6 DEF CanProcessWebhook, TransactionAgrees
  <2> QED BY <1>1, <1>6, <2>1 DEF WriteTransaction
<1>7. CASE TheHandler.tx = "update" /\ AllowedPrevious(TheEvent) # {}
  <2>1. txs[c] # NoTx
    BY <1>3, <1>5, <1>7, TransactionStatusOK, NoTxAssumption
       DEF CanProcessWebhook, TransactionAgrees
  <2> QED BY <1>1, <1>7, <2>1 DEF WriteTransaction
<1> QED BY <1>2, <1>6, <1>7, InboundHandlers DEF TheHandler

LEMMA SettlingNext ==
  ASSUME SettledInv, [Next]_vars
  PROVE  Settling'
<1> SUFFICES ASSUME NEW c \in Inbound, faults' = 0, purges' = 0
             PROVE  /\ RowAgrees(c)' \/ (step' \in {"qr", "tx", "log"} /\ TheCode' = c)
                    /\ IF step' = "log" /\ TheCode' = c
                       THEN txs'[c] = MapWebhookEventToTransactionStatus(TheEvent')
                       ELSE TransactionAgrees(c)'
  BY DEF Settling, Inbound
<1>1. TypeInv /\ InboundInv /\ c \in Code \ QrCodes /\ faults = 0 /\ purges = 0
  BY CountsGrow DEF SettledInv, InboundInv, HistoryInv, LogInv, Inbound
<1>2. /\ RowAgrees(c) \/ (step \in {"qr", "tx", "log"} /\ TheCode = c)
      /\ IF step = "log" /\ TheCode = c
         THEN txs[c] = MapWebhookEventToTransactionStatus(TheEvent)
         ELSE TransactionAgrees(c)
  BY <1>1 DEF SettledInv, Settling
<1>3. ~PurgeOldLogs(c)
  BY <1>1, BoundsAssumption DEF PurgeOldLogs
<1>4. CASE LogEvent /\ TheCode = c
  <2>1. processed \in [Code -> Seq(WebhookEvent)] /\ TheEvent \in WebhookEvent
    BY <1>1, <1>4, WorkingTypes DEF TypeInv, TypeOK, LogEvent
  <2>2. /\ processed'[c] = Append(processed[c], TheEvent)
        /\ rows' = rows /\ txs' = txs /\ step = "log" /\ step' = "find"
    BY <1>1, <1>4, <2>1 DEF LogEvent, Working
  <2>3. /\ Append(processed[c], TheEvent) # <<>>
        /\ Len(Append(processed[c], TheEvent)) = Len(processed[c]) + 1
        /\ Append(processed[c], TheEvent)[Len(processed[c]) + 1] = TheEvent
    BY <1>1, <2>1
  <2>4. LastProcessed(c)' = TheEvent
    BY <2>2, <2>3 DEF LastProcessed
  <2>5. TheEvent # NoEvent
    BY <2>1 DEF WebhookEvent, PixEvent, BoletoEvent, BillPaymentEvent, TedEvent, NoEvent
  <2>6. rows[c] = TheHandler.row
    BY <1>1, <1>4, <2>2 DEF InboundInv, SavedRow
  <2> QED BY <1>2, <1>4, <2>2, <2>4, <2>5, <2>6
             DEF RowAgrees, TransactionAgrees, TheHandler
<1>5. CASE ~(LogEvent /\ TheCode = c)
  <2>1. LastProcessed(c)' = LastProcessed(c)
    BY <1>1, <1>3, <1>5, LogWriters DEF LastProcessed
  \* If c is the payment under the worker's hands, it stays so.
  <2>2. step # "find" /\ TheCode = c => step' # "find" /\ TheCode' = c /\ TheEvent' = TheEvent
    BY <1>1, <1>5, HandlerEnds, WorkerSteps
  <2>3. RowAgrees(c)' \/ (step' \in {"qr", "tx", "log"} /\ TheCode' = c)
    <3>1. CASE rows'[c] # rows[c]
      <4>1. SaveRow /\ TheCode = c /\ step # "find"
        BY <1>1, <3>1, InboundWriters
      <4> QED BY <2>2, <4>1 DEF SaveRow, AfterSave
    <3>2. CASE rows'[c] = rows[c] /\ RowAgrees(c)
      BY <2>1, <3>2 DEF RowAgrees
    <3>3. CASE step \in {"qr", "tx", "log"} /\ TheCode = c
      <4>1. ~AcceptEvent /\ ~SaveRow
        BY <3>3 DEF AcceptEvent, SaveRow, Working
      <4> QED BY <1>1, <2>2, <3>3, <4>1, WorkerSteps
                 DEF MarkQrCodePaid, WriteTransaction, AfterSave
    <3> QED BY <1>2, <3>1, <3>2, <3>3
  <2>4. CASE step' = "log" /\ TheCode' = c
    <3>1. /\ TheCode = c /\ TheEvent' = TheEvent
          /\ \/ AcceptEvent \/ SaveRow \/ MarkQrCodePaid \/ WriteTransaction
             \/ step' = step
      BY <1>1, <2>4, WorkerSteps
    <3>2. ~AcceptEvent
      BY <2>4 DEF AcceptEvent
    <3>3. ASSUME SaveRow \/ MarkQrCodePaid PROVE FALSE
      <4>1. TheHandler.tx = "none"
        BY <2>4, <3>3 DEF SaveRow, MarkQrCodePaid, AfterSave
      <4>2. TheEvent \in InboundEvent
        BY <1>1, <3>1, <3>3, InboundUnderHand DEF SaveRow, MarkQrCodePaid, Working
      <4> QED BY <4>1, <4>2, InboundHandlers DEF TheHandler
    <3>4. CASE WriteTransaction
      BY <1>1, <2>4, <3>1, <3>4, TransactionIsWritten DEF SettledInv
    <3>5. CASE step' = step
      <4>1. ~WriteTransaction
        BY <2>4, <3>5 DEF WriteTransaction, Working
      <4>2. txs'[c] = txs[c]
        BY <1>1, <4>1, InboundWriters
      <4> QED BY <1>2, <2>4, <3>1, <3>5, <4>2
    <3> QED BY <2>3, <2>4, <3>1, <3>2, <3>3, <3>4, <3>5
  <2>5. CASE ~(step' = "log" /\ TheCode' = c)
    <3>1. ~(step = "log" /\ TheCode = c)
      <4> SUFFICES ASSUME step = "log", TheCode = c PROVE FALSE
        OBVIOUS
      <4>1. ~AcceptEvent /\ ~SaveRow /\ ~MarkQrCodePaid /\ ~WriteTransaction
        BY DEF AcceptEvent, SaveRow, MarkQrCodePaid, WriteTransaction, Working
      <4> QED BY <1>1, <2>2, <2>5, <4>1, WorkerSteps
    <3>2. txs'[c] = txs[c]
      <4> SUFFICES ASSUME txs'[c] # txs[c] PROVE FALSE
        OBVIOUS
      <4>1. WriteTransaction /\ TheCode = c /\ step # "find"
        BY <1>1, InboundWriters
      <4> QED BY <2>2, <2>5, <4>1 DEF WriteTransaction
    <3>3. TransactionAgrees(c)'
      BY <1>2, <2>1, <3>1, <3>2 DEF TransactionAgrees
    <3> QED BY <2>3, <2>5, <3>3
  <2> QED BY <2>4, <2>5
<1> QED BY <1>4, <1>5

LEMMA SettledInvariant == Spec => []SettledInv
<1>1. Init => SettledInv
  <2> SUFFICES ASSUME Init PROVE SettledInv
    OBVIOUS
  <2>1. InboundInv
    BY InboundInit
  <2>2. Settling
    BY DEF Init, Settling, Inbound, RowAgrees, TransactionAgrees, LastProcessed
  <2> QED BY <2>1, <2>2 DEF SettledInv
<1>2. SettledInv /\ [Next]_vars => SettledInv'
  <2> SUFFICES ASSUME SettledInv, [Next]_vars PROVE SettledInv'
    OBVIOUS
  <2>1. InboundInv'
    BY InboundNext DEF SettledInv
  <2> QED BY <2>1, SettlingNext DEF SettledInv
<1> QED BY <1>1, <1>2, PTL DEF Spec

\* In every run, a payment received through webhooks whose handler is not under
\* way has its row, its transaction and its log in agreement, unless a fault
\* lost one of the writes or the log was purged.
THEOREM SettledAgree == Spec => []SettledPaymentsAgree
<1>1. SettledInv => SettledPaymentsAgree
  <2> SUFFICES ASSUME SettledInv, NEW c \in Inbound, ~InProgress(c),
                      faults = 0, purges = 0
               PROVE  RowAgrees(c) /\ TransactionAgrees(c)
    BY DEF SettledPaymentsAgree, RowAgrees, TransactionAgrees
  <2>1. ~(step # "find" /\ TheCode = c)
    BY StepWorking DEF InProgress, SettledInv, InboundInv, HistoryInv, LogInv,
       TypeInv, TypeOK
  <2> QED BY <2>1 DEF SettledInv, Settling
<1> QED BY <1>1, SettledInvariant, PTL

-----------------------------------------------------------------------------
(* No event is lost.  The worker goes through the batch in order, so what it  *)
(* has passed is logged, or dropped for a reason that stands (Passed).       *)

\* The API issues payments for accounts it knows, so that a webhook about such
\* a payment is not dropped for an unknown account.
ApiKnowsAccounts ==
  \A c \in Code : IssuedRow[c] # NoRow => c \in KnownAtStart \ Unnumbered

\* What onFailed does not log is excluded: events without a code in their data,
\* and QR codes, whose handler only ever throws on a fault.
FailuresShow ==
  \A d \in Deliveries :
    d.coded /\ (d.event # "PIX_QRCODE_WAS_CREATED" \/ MaxFaults = 0)

IdleAtStart == active = NoJob => pos = 1

Passed ==
  active # NoJob /\ purges = 0 => \A i \in DOMAIN Batch : i < pos =>
    \/ Recorded(TheEvent, Batch[i])
    \/ MayBeDropped(TheEvent, Batch[i])
    \/ step # "find" /\ TheCode = Batch[i]

PassedInv == LogInv /\ KnownAtStart \subseteq accounts /\ IdleAtStart /\ Passed

\* A row never goes away.
LEMMA RowsStay ==
  ASSUME TypeInv, [Next]_vars, NEW c \in Code, rows[c] # NoRow
  PROVE  rows'[c] # NoRow
<1>1. rows \in [Code -> RowStatus \cup {NoRow}]
  BY DEF TypeInv, TypeOK
<1>2. CASE SaveRow
  <2>1. TheCode \in Code /\ TheHandler.row \in RowStatus
    BY <1>2, WorkingTypes, HandlerTableOK DEF SaveRow
  <2> QED BY <1>1, <1>2, <2>1, NoRowAssumption DEF SaveRow
<1>3. CASE MarkQrCodePaid
  <2>1. "PAID" # NoRow
    BY NoRowAssumption DEF RowStatus
  <2> QED BY <1>1, <1>3, <2>1 DEF MarkQrCodePaid
<1>4. CASE \E x \in Code : IssueRow(x)
  BY <1>1, <1>4 DEF IssueRow
<1>5. \/ rows' = rows \/ SaveRow \/ MarkQrCodePaid
      \/ \E x \in Code : IssueRow(x)
  BY DEF Next, Deliver, TakeJob, RecoverStalled, RetryLater, Work, SkipEvent,
     AcceptEvent, RefuseEvent, WriteTransaction, LogEvent, FinishJob,
     DatabaseFault, Crash, AttemptFails, IssueTransaction, RegisterAccount,
     PurgeOldLogs, storeVars, logVars, vars
<1> QED BY <1>2, <1>3, <1>4, <1>5

\* A row appears by the save of its handler or of the API.
LEMMA RowsAppear ==
  ASSUME TypeInv, [Next]_vars, NEW c \in Code, rows[c] = NoRow, rows'[c] # NoRow
  PROVE  (SaveRow /\ TheCode = c) \/ IssueRow(c)
<1>1. rows \in [Code -> RowStatus \cup {NoRow}]
  BY DEF TypeInv, TypeOK
<1>2. CASE SaveRow
  BY <1>1, <1>2 DEF SaveRow
<1>3. ~MarkQrCodePaid
  BY <1>1 DEF MarkQrCodePaid
<1>4. ASSUME NEW x \in Code, IssueRow(x)
      PROVE  x = c
  BY <1>1, <1>4 DEF IssueRow
<1>5. \/ rows' = rows \/ SaveRow \/ MarkQrCodePaid
      \/ \E x \in Code : IssueRow(x)
  BY DEF Next, Deliver, TakeJob, RecoverStalled, RetryLater, Work, SkipEvent,
     AcceptEvent, RefuseEvent, WriteTransaction, LogEvent, FinishJob,
     DatabaseFault, Crash, AttemptFails, IssueTransaction, RegisterAccount,
     PurgeOldLogs, storeVars, logVars, vars
<1> QED BY <1>2, <1>3, <1>4, <1>5

\* A reason to drop an event stands, unless a handler creates the row.
LEMMA DropStands ==
  ASSUME TypeInv, ApiKnowsAccounts, [Next]_vars, NEW c \in Code, NEW event,
         MayBeDropped(event, c)
  PROVE  MayBeDropped(event, c)' \/ (SaveRow /\ TheCode = c)
<1>1. CASE rows[c] # NoRow
  BY <1>1, RowsStay DEF MayBeDropped
<1>2. CASE rows[c] = NoRow /\ rows'[c] = NoRow
  BY <1>2 DEF MayBeDropped
<1>3. CASE IssueRow(c)
  BY <1>3 DEF IssueRow, MayBeDropped, ApiKnowsAccounts
<1> QED BY <1>1, <1>2, <1>3, RowsAppear

\* A skipped event is one that may be dropped.
LEMMA SkippedMayBeDropped ==
  ASSUME KnownAtStart \subseteq accounts, NEW c \in Code, NEW event,
         Skips(HandlerOf(event), c)
  PROVE  MayBeDropped(event, c)
BY DEF Skips, Creates, MayBeDropped, NamesUnknownAccount, IsKnown

\* A log entry stays, until the log is purged.
LEMMA EntriesStay ==
  ASSUME TypeInv, [Next]_vars, purges' = 0, NEW c \in Code, NEW event,
         Recorded(event, c)
  PROVE  Recorded(event, c)'
<1>1. processed \in [Code -> Seq(WebhookEvent)]
  BY DEF TypeInv, TypeOK
<1>2. CASE processed'[c] = processed[c]
  BY <1>2 DEF Recorded
<1>3. CASE LogEvent /\ TheCode = c
  <2>1. TheEvent \in WebhookEvent /\ processed'[c] = Append(processed[c], TheEvent)
    BY <1>1, <1>3, WorkingTypes DEF LogEvent
  <2>2. PICK i \in DOMAIN processed[c] : processed[c][i] = event
    BY DEF Recorded
  <2>3. /\ i \in DOMAIN Append(processed[c], TheEvent)
        /\ Append(processed[c], TheEvent)[i] = processed[c][i]
    BY <1>1, <2>1
  <2> QED BY <2>1, <2>2, <2>3 DEF Recorded
<1>4. ~PurgeOldLogs(c)
  BY BoundsAssumption DEF PurgeOldLogs, TypeInv, TypeOK
<1> QED BY <1>2, <1>3, <1>4, LogWriters

\* Where the worker goes between two events.
LEMMA WorkerMoves ==
  ASSUME TypeInv, [Next]_vars, active # NoJob, active' # NoJob
  PROVE  /\ active' = active /\ payload'[active] = payload[active]
         /\ \/ SkipEvent \/ LogEvent
            \/ pos' = pos /\ (step # "find" => step' # "find")
<1>1. CASE Work
  <2>1. ~(RefuseEvent \/ FinishJob)
    BY DEF RefuseEvent, FinishJob, AttemptFails, StopWorking
  <2> QED BY <1>1, <2>1 DEF Work, SkipEvent, AcceptEvent, SaveRow, MarkQrCodePaid,
       WriteTransaction, LogEvent, AfterSave, Working, queueVars
<1>2. CASE \/ \E d \in Deliveries : Deliver(d)
           \/ \E k \in JobId : RecoverStalled(k) \/ RetryLater(k)
  BY <1>2, ActiveJobKept DEF Deliver, RecoverStalled, RetryLater, jobVars
<1>3. CASE \E c \in Code : \/ IssueRow(c) \/ IssueTransaction(c)
                           \/ RegisterAccount(c) \/ PurgeOldLogs(c)
  BY <1>3 DEF IssueRow, IssueTransaction, RegisterAccount, PurgeOldLogs, queueVars,
     jobVars
<1>4. CASE UNCHANGED vars
  BY <1>4 DEF vars, queueVars, jobVars
<1>5. ~DatabaseFault /\ ~Crash /\ ~(\E k \in JobId : TakeJob(k))
  BY DEF DatabaseFault, Crash, AttemptFails, StopWorking, TakeJob
<1> QED BY <1>1, <1>2, <1>3, <1>4, <1>5 DEF Next

LEMMA IdleNext ==
  ASSUME TypeInv, IdleAtStart, [Next]_vars
  PROVE  IdleAtStart'
<1>1. CASE active # NoJob /\ active' = NoJob
  <2>1. ~(\E d \in Deliveries : Deliver(d))
    BY <1>1 DEF Deliver, jobVars
  <2> QED
    BY <1>1, <2>1 DEF IdleAtStart, Next, TakeJob, RecoverStalled, RetryLater, Work,
       SkipEvent, AcceptEvent, RefuseEvent, SaveRow, MarkQrCodePaid,
       WriteTransaction, LogEvent, FinishJob, DatabaseFault, Crash, AttemptFails,
       StopWorking, IssueRow, IssueTransaction, RegisterAccount, PurgeOldLogs,
       jobVars, vars
<1>2. CASE active = NoJob
  <2>1. ~(SkipEvent \/ AcceptEvent \/ RefuseEvent \/ SaveRow \/ MarkQrCodePaid
            \/ WriteTransaction \/ LogEvent \/ FinishJob \/ DatabaseFault)
    BY <1>2 DEF SkipEvent, AcceptEvent, RefuseEvent, SaveRow, MarkQrCodePaid,
       WriteTransaction, LogEvent, FinishJob, DatabaseFault, Working
  <2> QED
    BY <1>2, <2>1 DEF IdleAtStart, Next, Deliver, TakeJob, RecoverStalled,
       RetryLater, Work, Crash, StopWorking, IssueRow, IssueTransaction,
       RegisterAccount, PurgeOldLogs, jobVars, vars
<1> QED BY <1>1, <1>2 DEF IdleAtStart

LEMMA PassedNext ==
  ASSUME PassedInv, ApiKnowsAccounts, [Next]_vars
  PROVE  Passed'
<1> SUFFICES ASSUME active' # NoJob, purges' = 0,
                    NEW i \in DOMAIN Batch', i < pos',
                    NEW c, c = Batch'[i], NEW e, e = TheEvent'
             PROVE  \/ Recorded(e, c)'
                    \/ MayBeDropped(e, c)'
                    \/ step' # "find" /\ TheCode' = c
  BY DEF Passed, Recorded, MayBeDropped
<1>1. TypeInv /\ TypeInv' /\ purges = 0
  BY CountsGrow, TypeNext DEF PassedInv, LogInv
<1>2. CASE active = NoJob
  <2>1. pos' = 1
    <3>1. \E k \in JobId : TakeJob(k)
      BY <1>2 DEF Next, Deliver, RecoverStalled, RetryLater, Work, SkipEvent,
         AcceptEvent, RefuseEvent, SaveRow, MarkQrCodePaid, WriteTransaction,
         LogEvent, FinishJob, DatabaseFault, Crash, AttemptFails, StopWorking,
         IssueRow, IssueTransaction, RegisterAccount, PurgeOldLogs, Working,
         jobVars, vars
    <3> QED BY <1>2, <3>1 DEF PassedInv, IdleAtStart, TakeJob
  <2>2. active' \in JobId /\ payload'[active'] \in Delivery
    BY <1>1, DeliveriesAssumption DEF TypeInv, TypeOK, JobsHavePayload,
       WorkerHoldsJob, Exists
  <2>3. DOMAIN Batch' \subseteq Nat \ {0}
    <3>1. Batch' \in Seq(Code)
      BY <2>2 DEF Batch, Delivery
    <3> QED BY <3>1
  <2> QED BY <2>1, <2>3
<1>3. CASE active # NoJob
  <2>1. /\ active' = active /\ payload'[active] = payload[active]
        /\ \/ SkipEvent \/ LogEvent
           \/ pos' = pos /\ (step # "find" => step' # "find")
    BY <1>1, <1>3, WorkerMoves
  <2>2. Batch' = Batch /\ e = TheEvent /\ c = Batch[i]
    BY <2>1 DEF Batch, TheEvent
  <2>3. active \in JobId /\ payload[active] \in Delivery
    BY <1>1, <1>3, DeliveriesAssumption DEF TypeInv, TypeOK, JobsHavePayload,
       WorkerHoldsJob, Exists
  <2>4. Batch \in Seq(Code)
    BY <2>3 DEF Batch, Delivery
  <2>5. \A b \in Seq(Code) : \A j \in DOMAIN b : b[j] \in Code /\ j \in Nat
    OBVIOUS
  <2>6. c \in Code /\ i \in Nat /\ pos \in Nat
    BY <1>1, <2>2, <2>4, <2>5 DEF TypeInv, TypeOK
  \* Once logged, an event is in the log.
  <2>7. LogEvent /\ TheCode = c => Recorded(e, c)'
    <3> SUFFICES ASSUME LogEvent, TheCode = c PROVE Recorded(e, c)'
      OBVIOUS
    <3> DEFINE h == processed[c]
    <3>1. h \in Seq(WebhookEvent) /\ e \in WebhookEvent
      BY <1>1, <2>2, <2>6, WorkingTypes DEF TypeInv, TypeOK, LogEvent
    <3>2. processed'[c] = Append(h, e)
      BY <1>1, <2>2, <2>6 DEF LogEvent, TypeInv, TypeOK
    <3>3. /\ Len(h) + 1 \in DOMAIN Append(h, e)
          /\ Append(h, e)[Len(h) + 1] = e
      BY <3>1
    <3> QED BY <3>2, <3>3 DEF Recorded
  <2>8. CASE i = pos
    <3>1. SkipEvent \/ LogEvent
      BY <2>1, <2>6, <2>8
    <3>2. TheCode = c
      BY <2>2, <2>8 DEF TheCode
    <3>3. CASE SkipEvent
      <4>1. MayBeDropped(e, c)
        BY <2>2, <2>6, <3>2, <3>3, SkippedMayBeDropped
           DEF SkipEvent, PassedInv, TheHandler
      <4>2. ~SaveRow
        BY <3>3 DEF SkipEvent, SaveRow, Working
      <4> QED BY <1>1, <2>6, <4>1, <4>2, DropStands
    <3> QED BY <2>7, <3>1, <3>2, <3>3
  <2>9. CASE i # pos
    <3>1. i < pos
      BY <2>1, <2>6, <2>9 DEF SkipEvent, LogEvent
    <3>2. CASE Recorded(e, c)
      BY <1>1, <2>6, <3>2, EntriesStay
    <3>3. CASE MayBeDropped(e, c)
      <4>1. CASE SaveRow /\ TheCode = c
        <5>1. step' # "find"
          BY <4>1 DEF SaveRow, AfterSave
        <5> QED BY <1>1, <4>1, <5>1, WorkerSteps
      <4> QED BY <1>1, <2>6, <3>3, <4>1, DropStands
    <3>4. CASE step # "find" /\ TheCode = c
      <4>1. ~SkipEvent
        BY <3>4 DEF SkipEvent, Working
      <4>2. CASE step' # "find"
        BY <1>1, <3>4, <4>2, WorkerSteps
      <4> QED BY <2>1, <2>7, <3>4, <4>1, <4>2
    <3> QED BY <1>1, <1>3, <2>2, <3>1, <3>2, <3>3, <3>4 DEF PassedInv, Passed
  <2> QED BY <2>8, <2>9
<1> QED BY <1>2, <1>3

LEMMA PassedInvariant ==
  ASSUME ApiKnowsAccounts
  PROVE  Spec => []PassedInv
<1>1. Init => PassedInv
  <2> SUFFICES ASSUME Init PROVE PassedInv
    OBVIOUS
  <2>1. LogInv
    BY LogInit
  <2> QED BY <2>1 DEF Init, PassedInv, IdleAtStart, Passed
<1>2. PassedInv /\ [Next]_vars => PassedInv'
  <2> SUFFICES ASSUME PassedInv, [Next]_vars PROVE PassedInv'
    OBVIOUS
  <2>1. LogInv' /\ IdleAtStart' /\ Passed'
    BY LogNext, IdleNext, PassedNext DEF PassedInv, LogInv
  <2>2. accounts \subseteq accounts'
    BY DEF Next, Deliver, TakeJob, RecoverStalled, RetryLater, Work, SkipEvent,
       AcceptEvent, RefuseEvent, SaveRow, MarkQrCodePaid, WriteTransaction,
       LogEvent, FinishJob, DatabaseFault, Crash, AttemptFails, IssueRow,
       IssueTransaction, RegisterAccount, PurgeOldLogs, worldVars, vars
  <2> QED BY <2>1, <2>2 DEF PassedInv
<1> QED BY <1>1, <1>2, PTL DEF Spec

\* The job under the worker's hands only leaves the queue finished or refused.
LEMMA WaysOut ==
  ASSUME TypeInv, [Next]_vars, active # NoJob, place'[active] = "none"
  PROVE  \/ FinishJob
         \/ /\ AttemptFails
            /\ IsLastAttempt(active)
            /\ RefuseEvent \/ DatabaseFault
<1>1. active \in JobId /\ place[active] = "active" /\ place \in [JobId -> Place]
  BY DEF TypeInv, TypeOK, QueueTypeOK, WorkerHoldsJob
<1>2. ~(\E d \in Deliveries : Deliver(d)) /\ ~(\E k \in JobId : RecoverStalled(k) \/ RetryLater(k))
  BY <1>1, ActiveJobKept
<1>3. place' # place
  BY <1>1
<1>4. FinishJob \/ RefuseEvent \/ DatabaseFault
  BY <1>2, <1>3 DEF Next, TakeJob, Work, SkipEvent, AcceptEvent, SaveRow, MarkQrCodePaid,
     WriteTransaction, LogEvent, Crash, IssueRow, IssueTransaction,
     RegisterAccount, PurgeOldLogs, queueVars, vars
<1>5. ASSUME RefuseEvent \/ DatabaseFault
      PROVE  AttemptFails /\ IsLastAttempt(active)
  <2>1. AttemptFails
    BY <1>5 DEF RefuseEvent, DatabaseFault
  <2>2. FailAttempt(active)
    BY <2>1 DEF AttemptFails
  <2>3. IsLastAttempt(active)
    BY <1>1, <2>2 DEF FailAttempt
  <2> QED BY <2>1, <2>3
<1> QED BY <1>4, <1>5

\* The handler of a QR code always has something to do, or nothing.
LEMMA QrCodesAreNotRefused ==
  ASSUME NEW c \in Code
  PROVE  ~Refuses(HandlerOf("PIX_QRCODE_WAS_CREATED"), c)
<1>1. /\ HandlerOf("PIX_QRCODE_WAS_CREATED").onMissing = "createIfAccount"
      /\ HandlerOf("PIX_QRCODE_WAS_CREATED").onExisting = "overwrite"
  BY QrCodeHandler
<1> QED BY <1>1 DEF Refuses, Accepts, Skips

\* In every run, for any deliveries whose failures onFailed logs, a job that is
\* over has each of its events in the log, processed or failed, but those that
\* a handler may drop.
THEOREM NothingIsLost ==
  ASSUME ApiKnowsAccounts, FailuresShow
  PROVE  Spec => NoEventLost
<1> DEFINE NotLost ==
      \A d \in Deliveries :
        /\ active # NoJob /\ payload[active] = d
        /\ active \in JobId /\ place'[active] = "none"
        /\ purges = 0
        => \A i \in DOMAIN d.codes :
             \/ Recorded(d.event, d.codes[i])'
             \/ d.event \in failed'[d.codes[i]]
             \/ MayBeDropped(d.event, d.codes[i])'
<1>1. PassedInv /\ [Next]_vars => NotLost
  <2> SUFFICES ASSUME PassedInv, [Next]_vars, NEW d \in Deliveries,
                      active # NoJob, payload[active] = d, active \in JobId,
                      place'[active] = "none", purges = 0,
                      NEW i \in DOMAIN d.codes
               PROVE  \/ Recorded(d.event, d.codes[i])'
                      \/ d.event \in failed'[d.codes[i]]
                      \/ MayBeDropped(d.event, d.codes[i])'
    OBVIOUS
  <2>1. TypeInv /\ Batch = d.codes /\ TheEvent = d.event
    BY DEF PassedInv, LogInv, Batch, TheEvent
  <2>2. d.codes \in Seq(Code) /\ d.event \in WebhookEvent
    BY DeliveriesAssumption DEF Delivery
  <2>3. /\ DOMAIN d.codes = 1 .. Len(d.codes)
        /\ i \in 1 .. Len(d.codes) /\ Len(d.codes) \in Nat
        /\ d.codes[i] \in Code
    BY <2>2
  <2>4. CASE FinishJob
    <3>1. pos = Len(d.codes) + 1 /\ step = "find"
      BY <2>1, <2>3, <2>4 DEF FinishJob, TypeInv, WorkerHoldsJob
    <3>2. Recorded(d.event, d.codes[i]) \/ MayBeDropped(d.event, d.codes[i])
      BY <2>1, <2>3, <3>1 DEF PassedInv, Passed
    <3>3. processed' = processed /\ rows' = rows
      BY <2>4 DEF FinishJob, storeVars
    <3> QED BY <3>2, <3>3 DEF Recorded, MayBeDropped
  <2>5. CASE /\ AttemptFails
             /\ IsLastAttempt(active)
             /\ RefuseEvent \/ DatabaseFault
    <3>1. d.event # "PIX_QRCODE_WAS_CREATED"
      <4>1. CASE DatabaseFault
        BY <2>1, <4>1, BoundsAssumption DEF DatabaseFault, FailuresShow, TypeInv, TypeOK
      <4>2. CASE RefuseEvent
        <5>1. TheCode \in Code
          BY <2>1, <4>2, WorkingTypes DEF RefuseEvent
        <5> QED BY <2>1, <4>2, <5>1, QrCodesAreNotRefused DEF RefuseEvent, TheHandler
      <4> QED BY <2>5, <4>1, <4>2
    <3>2. FailureIsLogged(d.event, d.coded)
      BY <2>2, <3>1 DEF FailuresShow, FailureIsLogged, PixFailureIsLogged,
         TedFailureIsLogged, BoletoFailureIsLogged, BillPaymentFailureIsLogged,
         WebhookEvent
    <3>3. failed'[d.codes[i]] = failed[d.codes[i]] \cup {d.event}
      BY <2>1, <2>3, <2>5, <3>2 DEF AttemptFails
    <3> QED BY <3>3
  <2> QED BY <2>1, <2>4, <2>5, WaysOut
<1>2. PassedInv /\ [Next]_vars => [NotLost]_vars
  BY <1>1
<1> QED BY <1>2, PassedInvariant, PTL DEF Spec, NoEventLost

-----------------------------------------------------------------------------
(* How long a job can stay: what EveryJobLeavesQueue rests on besides fairness. *)
(* A job is tried again and again, but each time an attempt or a stall is used  *)
(* up, and in between every step takes it nearer to the end of its batch.       *)

\* How often it may still be taken up again.
RunsLeft(k) == (MaxAttempts - attemptsMade[k]) + (MaxStalledCount - stalledCount[k])

AccessesLeft(s) ==
  CASE s = "find" -> 5 [] s = "save" -> 4 [] s = "qr" -> 3 [] s = "tx" -> 2 [] s = "log" -> 1

\* The steps left, at most, until it leaves the queue or is to be taken up again.
StepsAhead(k) ==
  CASE place[k] = "delayed" -> 5 * Len(payload[k].codes) + 4
    [] place[k] = "waiting" -> 5 * Len(payload[k].codes) + 3
    [] place[k] = "active" /\ active = k ->
         5 * (Len(payload[k].codes) - pos) + AccessesLeft(step) + 2
    [] place[k] = "active" /\ active # k -> 1
    [] OTHER -> 0

LeftAlone(k) ==
  /\ place'[k] = place[k] /\ payload'[k] = payload[k]
  /\ attemptsMade'[k] = attemptsMade[k] /\ stalledCount'[k] = stalledCount[k]
  /\ (active' = k) <=> (active = k)
  /\ active = k => pos' = pos /\ step' = step

\* Whatever happens to a job takes it out of the queue, uses up one of its attempts or
\* stalls, or takes it nearer to where one of these happens.
JobsWearOut ==
  [][\A k \in JobId : Exists(k) /\ Exists(k)' =>
       \/ LeftAlone(k)
       \/ RunsLeft(k)' < RunsLeft(k)
       \/ RunsLeft(k)' = RunsLeft(k) /\ StepsAhead(k)' < StepsAhead(k)]_vars

InBatch == active # NoJob => pos <= Len(Batch) + 1

WearInv == TypeInv /\ IdleAtStart /\ InBatch

LEMMA JobsHaveLength ==
  ASSUME TypeInv, NEW k \in JobId, Exists(k)
  PROVE  Len(payload[k].codes) \in Nat /\ DOMAIN payload[k].codes = 1 .. Len(payload[k].codes)
<1>1. payload[k] \in Delivery
  BY DeliveriesAssumption DEF TypeInv, JobsHavePayload
<1>2. payload[k].codes \in Seq(Code)
  BY <1>1 DEF Delivery
<1> QED BY <1>2

\* How a step concerns the queue and the worker.
LEMMA StepsOfJobs ==
  ASSUME TypeInv, [Next]_vars
  PROVE  \/ UNCHANGED <<queueVars, jobVars>>
         \/ \E d \in Deliveries : Add(d.key, d) /\ UNCHANGED jobVars
         \/ \E k \in JobId : TakeJob(k)
         \/ /\ UNCHANGED <<queueVars, active>>
            /\ \E s \in Step : Working(s)
            /\ \/ pos' = pos + 1 /\ step' = "find"
               \/ pos' = pos /\ AccessesLeft(step') < AccessesLeft(step)
         \/ FailAttempt(active) /\ StopWorking /\ \E s \in Step : Working(s)
         \/ Complete(active) /\ StopWorking /\ active # NoJob
         \/ UNCHANGED queueVars /\ StopWorking
         \/ \E k \in JobId : k # active /\ Stall(k) /\ UNCHANGED jobVars
         \/ \E k \in JobId : Promote(k) /\ UNCHANGED jobVars
<1>1. CASE UNCHANGED vars
  BY <1>1 DEF vars
<1>2. CASE \E d \in Deliveries : Deliver(d)
  BY <1>2 DEF Deliver
<1>3. CASE \E k \in JobId : TakeJob(k)
  BY <1>3
<1>4. CASE \E k \in JobId : RecoverStalled(k)
  BY <1>4 DEF RecoverStalled
<1>5. CASE \E k \in JobId : RetryLater(k)
  BY <1>5 DEF RetryLater
<1>6. CASE SkipEvent
  BY <1>6 DEF SkipEvent, Working, Step
<1>7. CASE AcceptEvent
  BY <1>7 DEF AcceptEvent, Working, Step, AccessesLeft
<1>8. CASE RefuseEvent
  BY <1>8 DEF RefuseEvent, AttemptFails, Step
<1>9. CASE SaveRow
  <2>1. step = "save" /\ step' \in {"qr", "tx", "log"}
    BY <1>9 DEF SaveRow, Working, AfterSave
  <2> QED BY <1>9, <2>1 DEF SaveRow, Step, AccessesLeft
<1>10. CASE MarkQrCodePaid
  <2>1. step = "qr" /\ step' \in {"tx", "log"}
    BY <1>10 DEF MarkQrCodePaid, Working, AfterSave
  <2> QED BY <1>10, <2>1 DEF MarkQrCodePaid, Step, AccessesLeft
<1>11. CASE WriteTransaction
  BY <1>11 DEF WriteTransaction, Working, Step, AccessesLeft
<1>12. CASE LogEvent
  BY <1>12 DEF LogEvent, Step
<1>13. CASE FinishJob
  BY <1>13 DEF FinishJob
<1>14. CASE DatabaseFault
  BY <1>14 DEF DatabaseFault, AttemptFails
<1>15. CASE Crash
  BY <1>15 DEF Crash
<1>16. CASE \E c \in Code : IssueRow(c) \/ IssueTransaction(c) \/ RegisterAccount(c)
                            \/ PurgeOldLogs(c)
  BY <1>16 DEF IssueRow, IssueTransaction, RegisterAccount, PurgeOldLogs
<1> QED
  BY <1>1, <1>2, <1>3, <1>4, <1>5, <1>6, <1>7, <1>8, <1>9, <1>10, <1>11, <1>12, <1>13,
     <1>14, <1>15, <1>16 DEF Next, Work

LEMMA InBatchNext ==
  ASSUME WearInv, [Next]_vars
  PROVE  InBatch'
<1>1. TypeInv /\ TypeInv' /\ IdleAtStart /\ InBatch
  BY TypeNext DEF WearInv
<1> SUFFICES ASSUME active' # NoJob PROVE pos' <= Len(Batch') + 1
  BY DEF InBatch
<1>2. active' \in JobId /\ place'[active'] # "none"
  BY <1>1 DEF TypeInv, TypeOK, WorkerHoldsJob
<1>3. CASE active = NoJob
  <2>1. \E k \in JobId : TakeJob(k)
    BY <1>3, StepsOfJobs, <1>1 DEF StopWorking, Working, jobVars
  <2>2. pos' = 1
    BY <1>1, <1>3, <2>1 DEF IdleAtStart, TakeJob
  <2>3. Len(Batch') \in Nat
    <3>1. payload'[active'] \in Delivery
      BY <1>1, <1>2, DeliveriesAssumption DEF TypeInv, JobsHavePayload, Exists
    <3>2. payload'[active'].codes \in Seq(Code)
      BY <3>1 DEF Delivery
    <3> QED BY <3>2 DEF Batch
  <2> QED BY <2>2, <2>3
<1>4. CASE active # NoJob
  <2>1. /\ active' = active /\ payload'[active] = payload[active]
        /\ SkipEvent \/ LogEvent \/ pos' = pos
    BY <1>1, <1>4, WorkerMoves
  <2>2. Batch' = Batch
    BY <2>1 DEF Batch
  <2>3. active \in JobId /\ Exists(active) /\ pos \in Nat
    BY <1>1, <1>4 DEF TypeInv, TypeOK, WorkerHoldsJob, Exists
  <2>4. Len(Batch) \in Nat /\ DOMAIN Batch = 1 .. Len(Batch)
    BY <1>1, <2>3, JobsHaveLength DEF Batch
  <2>5. CASE SkipEvent \/ LogEvent
    BY <2>2, <2>4, <2>5 DEF SkipEvent, LogEvent, Working
  <2> QED BY <1>1, <1>4, <2>1, <2>2, <2>5 DEF InBatch
<1> QED BY <1>3, <1>4

\* What is left is a number, so that it cannot go down for ever.
LEMMA NumbersLeft ==
  ASSUME WearInv, NEW k \in JobId
  PROVE  RunsLeft(k) \in Nat /\ StepsAhead(k) \in Nat
<1>1. TypeInv /\ InBatch
  BY DEF WearInv
<1>2. /\ attemptsMade[k] \in 0 .. MaxAttempts /\ stalledCount[k] \in 0 .. MaxStalledCount
      /\ place[k] \in Place /\ step \in Step /\ pos \in Nat
  BY <1>1 DEF TypeInv, TypeOK, QueueTypeOK
<1>3. RunsLeft(k) \in Nat
  BY <1>2, LimitsAssumption DEF RunsLeft
<1>4. CASE ~Exists(k) \/ place[k] = "failed"
  <2>1. place[k] \in {"none", "failed"}
    BY <1>4 DEF Exists
  <2>2. StepsAhead(k) = 0
    BY <2>1 DEF StepsAhead
  <2> QED BY <1>3, <2>2
<1>5. CASE Exists(k) /\ place[k] # "failed"
  <2> DEFINE length == Len(payload[k].codes)
  <2>1. length \in Nat
    BY <1>1, <1>5, JobsHaveLength
  <2>2. CASE place[k] = "active" /\ active = k
    <3>1. pos <= length + 1 /\ (step # "find" => pos <= length)
      <4>1. pos <= length + 1
        BY <1>1, <2>2, NoJobAssumption DEF InBatch, Batch
      <4>2. step # "find" => pos \in 1 .. length
        BY <1>1, <1>5, <2>2, JobsHaveLength DEF TypeInv, WorkerHoldsJob, Batch
      <4> QED BY <4>1, <4>2
    <3>2. AccessesLeft(step) \in 1 .. 5 /\ (step = "find" => AccessesLeft(step) = 5)
      BY <1>2 DEF AccessesLeft, Step
    <3>3. StepsAhead(k) = 5 * (length - pos) + AccessesLeft(step) + 2
      BY <2>2 DEF StepsAhead
    <3> HIDE DEF length
    <3> QED BY <1>2, <1>3, <2>1, <3>1, <3>2, <3>3
  <2>3. CASE place[k] = "active" /\ active # k
    BY <1>3, <2>3 DEF StepsAhead
  <2>4. CASE place[k] \in {"waiting", "delayed"}
    <3>1. StepsAhead(k) \in {5 * length + 3, 5 * length + 4}
      BY <2>4 DEF StepsAhead
    <3> HIDE DEF length
    <3> QED BY <1>3, <2>1, <3>1
  <2> QED BY <1>2, <1>5, <2>2, <2>3, <2>4 DEF Place, Exists
<1> QED BY <1>3, <1>4, <1>5

\* An operation on one job leaves the counts of the others alone.
LEMMA OtherCountsUntouched ==
  ASSUME QueueTypeOK, NEW k \in JobId, NEW other \in JobId, other # k,
         Take(k) \/ Promote(k) \/ Stall(k) \/ FailAttempt(k) \/ Complete(k)
  PROVE  attemptsMade'[other] = attemptsMade[other] /\ stalledCount'[other] = stalledCount[other]
<1>1. CASE Take(k) \/ Promote(k)
  BY <1>1 DEF Take, Promote
<1>2. CASE Remove(k)
  BY <1>2 DEF QueueTypeOK, Remove
<1>3. CASE ~Remove(k) /\ (Stall(k) \/ FailAttempt(k))
  BY <1>3 DEF QueueTypeOK, Stall, FailAttempt
<1> QED BY <1>1, <1>2, <1>3 DEF Complete

LEMMA JobWearsOut ==
  ASSUME WearInv, [Next]_vars, NEW k \in JobId, Exists(k), Exists(k)'
  PROVE  \/ LeftAlone(k)
         \/ RunsLeft(k)' < RunsLeft(k)
         \/ RunsLeft(k)' = RunsLeft(k) /\ StepsAhead(k)' < StepsAhead(k)
<1>1. TypeInv /\ TypeInv' /\ QueueTypeOK /\ IdleAtStart /\ InBatch
  BY TypeNext DEF WearInv, TypeInv, TypeOK
<1>2. /\ attemptsMade[k] \in 0 .. MaxAttempts /\ stalledCount[k] \in 0 .. MaxStalledCount
      /\ place[k] \in Place /\ step \in Step /\ pos \in Nat
  BY <1>1 DEF TypeInv, TypeOK, QueueTypeOK
<1> DEFINE length == Len(payload[k].codes)
<1>3. length \in Nat /\ DOMAIN payload[k].codes = 1 .. length
  BY <1>1, JobsHaveLength
<1>4. active # NoJob => active \in JobId /\ place[active] = "active"
  BY <1>1 DEF TypeInv, TypeOK, WorkerHoldsJob
<1>5. StepsAhead(k) \in Nat
  BY NumbersLeft
<1>6. CASE UNCHANGED <<queueVars, jobVars>>
  BY <1>6 DEF LeftAlone, queueVars, jobVars
<1>7. ASSUME NEW d \in Deliveries, Add(d.key, d), UNCHANGED jobVars
      PROVE  LeftAlone(k)
  <2>1. d.key \in JobId
    BY DeliveriesAssumption DEF Delivery
  <2>2. place'[k] = place[k] /\ payload'[k] = payload[k]
    BY <1>1, <1>7, <2>1, AddLeavesJobsAlone
  <2>3. attemptsMade' = attemptsMade /\ stalledCount' = stalledCount
    BY <1>7 DEF Add, queueVars
  <2> QED BY <1>7, <2>2, <2>3 DEF LeftAlone, jobVars
\* An operation on another job.
<1>8. ASSUME NEW j \in JobId, j # k,
             Take(j) \/ Promote(j) \/ Stall(j) \/ FailAttempt(j) \/ Complete(j),
             (active' = k) <=> (active = k), active = k => pos' = pos /\ step' = step
      PROVE  LeftAlone(k)
  BY <1>1, <1>8, OtherJobsUntouched, OtherCountsUntouched DEF LeftAlone
<1>9. ASSUME NEW j \in JobId, TakeJob(j)
      PROVE  LeftAlone(k) \/ (RunsLeft(k)' = RunsLeft(k) /\ StepsAhead(k)' < StepsAhead(k))
  <2>1. active = NoJob /\ active' = j /\ Take(j) /\ pos' = pos /\ step' = step
    BY <1>9 DEF TakeJob
  <2>2. CASE j # k
    <3>1. active # k /\ active' # k
      BY <2>1, <2>2, NoJobAssumption
    <3> QED BY <1>8, <2>1, <2>2, <3>1
  <2>3. CASE j = k
    <3>1. pos' = 1 /\ step' = "find"
      BY <1>1, <2>1 DEF IdleAtStart, TypeInv, WorkerHoldsJob
    <3>2. place[k] = "waiting" /\ place'[k] = "active"
          /\ UNCHANGED <<payload, attemptsMade, stalledCount>>
      BY <1>1, <2>1, <2>3 DEF Take, QueueTypeOK
    <3>3. StepsAhead(k) = 5 * length + 3
      BY <3>2 DEF StepsAhead
    <3>4. StepsAhead(k)' = 5 * (length - 1) + 5 + 2
      BY <2>1, <2>3, <3>1, <3>2 DEF StepsAhead, AccessesLeft
    <3>5. RunsLeft(k)' = RunsLeft(k)
      BY <3>2 DEF RunsLeft
    <3> HIDE DEF length
    <3> QED BY <1>3, <3>3, <3>4, <3>5
  <2> QED BY <2>2, <2>3
\* A step of the handler.
<1>10. ASSUME UNCHANGED <<queueVars, active>>, \E s \in Step : Working(s),
              \/ pos' = pos + 1 /\ step' = "find"
              \/ pos' = pos /\ AccessesLeft(step') < AccessesLeft(step)
       PROVE  LeftAlone(k) \/ (RunsLeft(k)' = RunsLeft(k) /\ StepsAhead(k)' < StepsAhead(k))
  <2>1. CASE active # k
    <3>1. active' # k /\ UNCHANGED <<place, payload, attemptsMade, stalledCount>>
      BY <1>10, <2>1 DEF queueVars
    <3> QED BY <2>1, <3>1 DEF LeftAlone
  <2>2. CASE active = k
    <3>1. place[k] = "active" /\ place' = place /\ payload' = payload /\ active' = k
          /\ attemptsMade' = attemptsMade /\ stalledCount' = stalledCount
      BY <1>4, <1>10, <2>2 DEF queueVars, Working
    <3>2. /\ StepsAhead(k) = 5 * (length - pos) + AccessesLeft(step) + 2
          /\ StepsAhead(k)' = 5 * (length - pos') + AccessesLeft(step') + 2
      BY <2>2, <3>1 DEF StepsAhead
    <3>3. step' \in Step /\ pos' \in Nat
      BY <1>1 DEF TypeInv, TypeOK
    <3>4. /\ AccessesLeft(step) \in 1 .. 5 /\ AccessesLeft(step') \in 1 .. 5
          /\ (step' = "find" => AccessesLeft(step') = 5)
      BY <1>2, <3>3 DEF AccessesLeft, Step
    <3>5. RunsLeft(k)' = RunsLeft(k)
      BY <3>1 DEF RunsLeft
    <3> HIDE DEF length
    <3>6. CASE pos' = pos + 1 /\ step' = "find"
      BY <1>2, <1>3, <3>2, <3>4, <3>5, <3>6
    <3>7. CASE pos' = pos /\ AccessesLeft(step') < AccessesLeft(step)
      BY <1>2, <1>3, <3>2, <3>4, <3>5, <3>7
    <3> QED BY <1>10, <3>6, <3>7
  <2> QED BY <2>1, <2>2
\* The attempt ends in an error: it is counted.
<1>11. ASSUME FailAttempt(active), StopWorking, \E s \in Step : Working(s)
       PROVE  LeftAlone(k) \/ RunsLeft(k)' < RunsLeft(k)
  <2>1. active \in JobId /\ active # NoJob
    BY <1>4, <1>11 DEF Working
  <2>2. CASE active # k
    BY <1>8, <1>11, <2>1, <2>2, NoJobAssumption DEF StopWorking
  <2>3. CASE active = k
    <3>1. ~Remove(k)
      BY <1>1 DEF Remove, QueueTypeOK, Exists
    <3>2. attemptsMade' = [attemptsMade EXCEPT ![k] = @ + 1] /\ stalledCount' = stalledCount
      BY <1>11, <2>3, <3>1 DEF FailAttempt
    <3>3. attemptsMade'[k] = attemptsMade[k] + 1
      BY <1>1, <3>2 DEF QueueTypeOK
    <3> QED BY <1>2, <3>2, <3>3, LimitsAssumption DEF RunsLeft
  <2> QED BY <2>2, <2>3
<1>12. ASSUME Complete(active), StopWorking, active # NoJob
       PROVE  LeftAlone(k)
  <2>1. active # k
    BY <1>1, <1>12 DEF Complete, Remove, QueueTypeOK, Exists
  <2> QED BY <1>4, <1>8, <1>12, <2>1, NoJobAssumption DEF StopWorking
\* The process dies: nobody works on the job until it is found stalled.
<1>13. ASSUME UNCHANGED queueVars, StopWorking
       PROVE  LeftAlone(k) \/ (RunsLeft(k)' = RunsLeft(k) /\ StepsAhead(k)' < StepsAhead(k))
  <2>1. CASE active # k
    <3>1. active' # k /\ UNCHANGED <<place, payload, attemptsMade, stalledCount>>
      BY <1>13, NoJobAssumption DEF StopWorking, queueVars
    <3> QED BY <2>1, <3>1 DEF LeftAlone
  <2>2. CASE active = k
    <3>1. place[k] = "active" /\ place' = place /\ active' # k
          /\ attemptsMade' = attemptsMade /\ stalledCount' = stalledCount
      BY <1>4, <1>13, <2>2, NoJobAssumption DEF queueVars, StopWorking
    <3>2. /\ StepsAhead(k) = 5 * (length - pos) + AccessesLeft(step) + 2
          /\ StepsAhead(k)' = 1
      BY <2>2, <3>1 DEF StepsAhead
    <3>3. /\ pos <= length + 1
          /\ step # "find" => pos \in 1 .. length
      BY <1>1, <1>3, <2>2, NoJobAssumption DEF InBatch, TypeInv, WorkerHoldsJob, Batch
    <3>4. AccessesLeft(step) \in 1 .. 5 /\ (step = "find" => AccessesLeft(step) = 5)
      BY <1>2 DEF AccessesLeft, Step
    <3>5. RunsLeft(k)' = RunsLeft(k)
      BY <3>1 DEF RunsLeft
    <3> HIDE DEF length
    <3> QED BY <1>2, <1>3, <3>2, <3>3, <3>4, <3>5
  <2> QED BY <2>1, <2>2
<1>14. ASSUME NEW j \in JobId, j # active, Stall(j), UNCHANGED jobVars
       PROVE  \/ LeftAlone(k)
              \/ RunsLeft(k)' < RunsLeft(k)
              \/ RunsLeft(k)' = RunsLeft(k) /\ StepsAhead(k)' < StepsAhead(k)
  <2>1. CASE j # k
    <3>1. active' = active /\ pos' = pos /\ step' = step
      BY <1>14 DEF jobVars
    <3> QED BY <1>8, <1>14, <2>1, <3>1
  <2>2. CASE j = k
    <3>1. ~Remove(k)
      BY <1>1 DEF Remove, QueueTypeOK, Exists
    <3>2. CASE stalledCount' = [stalledCount EXCEPT ![k] = @ + 1] /\ attemptsMade' = attemptsMade
      <4>1. stalledCount'[k] = stalledCount[k] + 1
        BY <1>1, <3>2 DEF QueueTypeOK
      <4> QED BY <1>2, <3>2, <4>1, LimitsAssumption DEF RunsLeft
    <3>3. CASE /\ place' = [place EXCEPT ![k] = "failed"]
               /\ UNCHANGED <<payload, attemptsMade, stalledCount>>
      <4>1. place[k] = "active" /\ place'[k] = "failed" /\ active # k
        BY <1>1, <1>14, <2>2, <3>3 DEF Stall, QueueTypeOK
      <4>2. StepsAhead(k) = 1 /\ StepsAhead(k)' = 0
        BY <4>1 DEF StepsAhead
      <4>3. RunsLeft(k)' = RunsLeft(k)
        BY <3>3 DEF RunsLeft
      <4> QED BY <4>2, <4>3
    <3> QED BY <1>14, <2>2, <3>1, <3>2, <3>3 DEF Stall
  <2> QED BY <2>1, <2>2
<1>15. ASSUME NEW j \in JobId, Promote(j), UNCHANGED jobVars
       PROVE  LeftAlone(k) \/ (RunsLeft(k)' = RunsLeft(k) /\ StepsAhead(k)' < StepsAhead(k))
  <2>1. CASE j # k
    <3>1. active' = active /\ pos' = pos /\ step' = step
      BY <1>15 DEF jobVars
    <3> QED BY <1>8, <1>15, <2>1, <3>1
  <2>2. CASE j = k
    <3>1. place[k] = "delayed" /\ place'[k] = "waiting"
          /\ UNCHANGED <<payload, attemptsMade, stalledCount>>
      BY <1>1, <1>15, <2>2 DEF Promote, QueueTypeOK
    <3>2. StepsAhead(k) = 5 * length + 4 /\ StepsAhead(k)' = 5 * length + 3
      BY <3>1 DEF StepsAhead
    <3>3. RunsLeft(k)' = RunsLeft(k)
      BY <3>1 DEF RunsLeft
    <3> HIDE DEF length
    <3> QED BY <1>3, <3>2, <3>3
  <2> QED BY <2>1, <2>2
<1> QED
  BY <1>1, <1>6, <1>7, <1>9, <1>10, <1>11, <1>12, <1>13, <1>14, <1>15, StepsOfJobs

\* A job goes through finitely many steps in the queue, however often its handler fails,
\* the process dies or the event is delivered again meanwhile: what is left of it, the
\* runs first and then the steps of the run, only goes down.
THEOREM JobsAreBounded ==
  Spec => [](\A k \in JobId : RunsLeft(k) \in Nat /\ StepsAhead(k) \in Nat) /\ JobsWearOut
<1>1. Init => WearInv
  BY TypeInit DEF Init, WearInv, IdleAtStart, InBatch
<1>2. WearInv /\ [Next]_vars => WearInv'
  BY TypeNext, IdleNext, InBatchNext DEF WearInv
<1>3. WearInv => \A k \in JobId : RunsLeft(k) \in Nat /\ StepsAhead(k) \in Nat
  BY NumbersLeft
<1>4. WearInv /\ [Next]_vars =>
        [\A k \in JobId : Exists(k) /\ Exists(k)' =>
           \/ LeftAlone(k)
           \/ RunsLeft(k)' < RunsLeft(k)
           \/ RunsLeft(k)' = RunsLeft(k) /\ StepsAhead(k)' < StepsAhead(k)]_vars
  BY JobWearsOut
<1> QED BY <1>1, <1>2, <1>3, <1>4, PTL DEF Spec, JobsWearOut
=============================================================================
