-------------------------- MODULE WebhookProcessor --------------------------
(***************************************************************************)
(* A webhook queue end to end: the controller enqueues a batch of events,  *)
(* one Bull worker takes jobs and runs the event's handler over the batch, *)
(* each handler makes its database writes one await at a time, and around  *)
(* it the HTTP API creates rows and transactions of its own, accounts      *)
(* appear, the cron job purges the event log, writes fail and the process  *)
(* dies.                                                                   *)
(*                                                                         *)
(* Each of the four queues (pix, ted, boleto, bill payment) has one        *)
(* processor with one unnamed @Process, and pm2 runs one instance: one     *)
(* worker per queue.  A payment's code belongs to one queue, so a single   *)
(* queue and worker is modelled, and MC modules choose the deliveries.     *)
(* jobs are taken in any order, of which Bull's is one.                    *)
(***************************************************************************)
EXTENDS BullQueue, WebhookHandlers, Sequences

CONSTANTS
  Code,           \* authentication codes (conciliation ids for QR codes)
  Deliveries,     \* the webhook requests the provider can send
  NoJob,          \* not a job id: the worker is idle
  Unnumbered,     \* codes whose payload names no recipient account number
  RelatedTo,      \* code of a refund -> code of what it refunds, or NoCode
  QrCodeOf,       \* code of a cash-in -> the QR code it paid, or NoCode
  NoCode,
  IssuedRow,      \* code -> status of the row the API saves, or NoRow
  IssuedTx,       \* codes for which the API also creates a transaction
  NoRow,
  NoTx,
  KnownAtStart,   \* codes whose account exists from the start
  MaxDeliveries,  \* bounds the requests sent
  MaxFaults,      \* bounds database errors and crashes
  MaxPurges       \* bounds runs of the cleanup job

\* key: the idempotency key of the batch's first event, the job id;
\* event: the endpoint it is posted to; codes: the payments of the batch;
\* coded: the events' data carry the code (else only the envelope does).
Delivery ==
  [key : JobId, event : WebhookEvent, codes : Seq(Code) \ {<<>>}, coded : BOOLEAN]

ASSUME DeliveriesAssumption ==
  /\ Deliveries \subseteq Delivery
  /\ Payload = Deliveries
\* The events the provider sends about a payment.  A code names a payment of
\* one kind, so all of them are about one table: rows has one entry per code.
EventsOf(c) ==
  {d.event : d \in {x \in Deliveries : \E i \in DOMAIN x.codes : x.codes[i] = c}}

ASSUME TablesAssumption ==
  \A c \in Code : \E table \in PaymentTables : EventsOf(c) \subseteq table
ASSUME NoJobAssumption == NoJob \notin JobId
ASSUME NoRowAssumption == NoRow \notin RowStatus
ASSUME NoTxAssumption == NoTx \notin TransactionStatus
ASSUME CodeAssumption ==
  /\ NoCode \notin Code
  /\ Unnumbered \subseteq Code
  /\ KnownAtStart \subseteq Code
  /\ RelatedTo \in [Code -> Code \cup {NoCode}]
  /\ QrCodeOf \in [Code -> Code \cup {NoCode}]
  /\ IssuedRow \in [Code -> RowStatus \cup {NoRow}]
  /\ IssuedTx \subseteq Code
ASSUME BoundsAssumption ==
  MaxDeliveries \in Nat /\ MaxFaults \in Nat /\ MaxPurges \in Nat

VARIABLES
  active,     \* the job the worker runs, or NoJob
  pos,        \* index in the batch of the event being handled
  step,       \* the handler's next database access
  rows,       \* the payment tables: status of each code's row
  txs,        \* the transaction table: status of each code's transaction
  processed,  \* event log, wasProcessed = true, oldest first
  failed,     \* event log, wasProcessed = false
  accounts,   \* codes whose recipient account is registered
  issuing,    \* progress of the API request that creates the code's row
  sent, faults, purges

jobVars == <<active, pos, step>>
logVars == <<processed, failed>>
storeVars == <<rows, txs, processed, failed>>
worldVars == <<accounts, issuing>>
boundVars == <<sent, faults, purges>>
vars == <<queueVars, jobVars, storeVars, worldVars, boundVars>>

Step == {"find", "save", "qr", "tx", "log"}

TypeOK ==
  /\ QueueTypeOK
  /\ active \in JobId \cup {NoJob}
  /\ pos \in Nat \ {0}
  /\ step \in Step
  /\ rows \in [Code -> RowStatus \cup {NoRow}]
  /\ txs \in [Code -> TransactionStatus \cup {NoTx}]
  /\ processed \in [Code -> Seq(WebhookEvent)]
  /\ failed \in [Code -> SUBSET WebhookEvent]
  /\ accounts \in SUBSET Code
  /\ issuing \in [Code -> {"no", "rowSaved", "done"}]
  /\ sent \in 0 .. MaxDeliveries
  /\ faults \in 0 .. MaxFaults
  /\ purges \in 0 .. MaxPurges

Init ==
  /\ QueueInit
  /\ active = NoJob
  /\ pos = 1
  /\ step = "find"
  /\ rows = [c \in Code |-> NoRow]
  /\ txs = [c \in Code |-> NoTx]
  /\ processed = [c \in Code |-> <<>>]
  /\ failed = [c \in Code |-> {}]
  /\ accounts = KnownAtStart
  /\ issuing = [c \in Code |-> "no"]
  /\ sent = 0
  /\ faults = 0
  /\ purges = 0

-----------------------------------------------------------------------------
(* The event under the worker's hands. *)

Batch == payload[active].codes
TheEvent == payload[active].event
TheCode == Batch[pos]
TheHandler == HandlerOf(TheEvent)

Working(s) ==
  /\ active # NoJob
  /\ step = s
  /\ pos \in DOMAIN Batch

\* getLastProcessedEvent: the processed entry with the latest createdAt.
FirstProcessed(c) ==  \* variant: ordered by createdAt ascending
  IF processed[c] = <<>> THEN NoEvent ELSE processed[c][1]
LastProcessed(c) ==
  IF processed[c] = <<>> THEN NoEvent ELSE processed[c][Len(processed[c])]

IsKnown(c) == c \in accounts
NamesUnknownAccount(c) == c \notin Unnumbered /\ ~IsKnown(c)
HasRelatedRow(c) == RelatedTo[c] # NoCode /\ rows[RelatedTo[c]] # NoRow

Creates(h, c) ==
  \/ h.onMissing = "create"
  \/ h.onMissing = "createIfAccount" /\ c \notin Unnumbered /\ IsKnown(c)
  \/ h.onMissing = "createUnlessUnknown"
       /\ (HasRelatedRow(c) \/ ~NamesUnknownAccount(c))

\* The event is dropped: the loop goes on with the next one.
Skips(h, c) ==
  IF rows[c] = NoRow
  THEN \/ h.onMissing = "skip"
       \/ h.onMissing = "retryUnlessUnknown" /\ NamesUnknownAccount(c)
       \/ h.onMissing \in {"createIfAccount", "createUnlessUnknown"} /\ ~Creates(h, c)
  ELSE h.onExisting = "skip"

AcceptsUnguarded(h, c) ==  \* variant: no sequence check
  IF rows[c] = NoRow THEN Creates(h, c) ELSE h.onExisting # "skip"

\* The event is applied.
Accepts(h, c) ==
  IF rows[c] = NoRow
  THEN Creates(h, c)
  ELSE \/ h.onExisting = "overwrite"
       \/ /\ h.onExisting = "guard"
          /\ CanProcessWebhook(LastProcessed(c), h.event)

\* A retryable error is thrown: the whole job fails this attempt.
Refuses(h, c) == ~Accepts(h, c) /\ ~Skips(h, c)

PaysQrCode(c) ==
  /\ TheHandler = PixCashInReceived
  /\ QrCodeOf[c] # NoCode

-----------------------------------------------------------------------------
(* Enqueueing: controllers, WebhookPublicKeyGuard, enqueueWebhookEvent.     *)
(* A request with an invalid public key is answered like any other and      *)
(* changes nothing, so it is no action.                                     *)

Deliver(d) ==
  /\ sent < MaxDeliveries
  /\ sent' = sent + 1
  /\ Add(d.key, d)
  /\ UNCHANGED <<jobVars, storeVars, worldVars, faults, purges>>

-----------------------------------------------------------------------------
(* The worker. *)

TakeJob(k) ==
  /\ active = NoJob
  /\ Take(k)
  /\ active' = k
  /\ UNCHANGED <<pos, step, storeVars, worldVars, boundVars>>

\* findOne, findByNumber and getLastProcessedEvent are three reads.  No row or
\* account is ever removed, so taking them at the moment of the last is exact.
SkipEvent ==
  /\ Working("find")
  /\ Skips(TheHandler, TheCode)
  /\ pos' = pos + 1
  /\ UNCHANGED <<queueVars, active, step, storeVars, worldVars, boundVars>>

AcceptEvent ==
  /\ Working("find")
  /\ Accepts(TheHandler, TheCode)
  /\ step' = "save"
  /\ UNCHANGED <<queueVars, active, pos, storeVars, worldVars, boundVars>>

StopWorking ==
  /\ active' = NoJob
  /\ pos' = 1
  /\ step' = "find"

AttemptFailsLoggingOneEvent ==  \* variant: only the event that threw is logged
  /\ FailAttempt(active)
  /\ StopWorking
  /\ failed' = [failed EXCEPT ![TheCode] =
       IF IsLastAttempt(active) THEN @ \cup {TheEvent} ELSE @]
  /\ UNCHANGED <<rows, txs, processed, worldVars>>

\* The handler threw: Bull counts the attempt and, if it was the last one,
\* onFailed writes a wasProcessed = false entry for the events of the batch.
AttemptFails ==
  /\ FailAttempt(active)
  /\ StopWorking
  /\ failed' = [c \in Code |->
       IF /\ IsLastAttempt(active)
          /\ \E i \in DOMAIN Batch : Batch[i] = c
          /\ FailureIsLogged(TheEvent, payload[active].coded)
       THEN failed[c] \cup {TheEvent} ELSE failed[c]]
  /\ UNCHANGED <<rows, txs, processed, worldVars>>

RefuseEvent ==
  /\ Working("find")
  /\ Refuses(TheHandler, TheCode)
  /\ AttemptFails
  /\ UNCHANGED boundVars

AfterSave == IF TheHandler.tx = "none" THEN "log" ELSE "tx"

SaveRow ==
  /\ Working("save")
  /\ rows' = [rows EXCEPT ![TheCode] = TheHandler.row]
  /\ step' = IF PaysQrCode(TheCode) THEN "qr" ELSE AfterSave
  /\ UNCHANGED <<queueVars, active, pos, txs, logVars, worldVars, boundVars>>

\* A cash-in paid with a known QR code marks the code as used.
MarkQrCodePaid ==
  /\ Working("qr")
  /\ rows' = [rows EXCEPT ![QrCodeOf[TheCode]] = IF @ = NoRow THEN NoRow ELSE "PAID"]
  /\ step' = AfterSave
  /\ UNCHANGED <<queueVars, active, pos, txs, logVars, worldVars, boundVars>>

\* createFromWebhook keeps an existing transaction as it is; updateStatus and
\* updateFromWebhook do nothing when there is none.
WriteTransaction ==
  /\ Working("tx")
  /\ LET writes == (TheHandler.tx = "create") <=> (txs[TheCode] = NoTx)
     IN  txs' = IF writes
                THEN [txs EXCEPT ![TheCode] = MapWebhookEventToTransactionStatus(TheEvent)]
                ELSE txs
  /\ step' = "log"
  /\ UNCHANGED <<queueVars, active, pos, rows, logVars, worldVars, boundVars>>

LogEvent ==
  /\ Working("log")
  /\ processed' = [processed EXCEPT ![TheCode] = Append(@, TheEvent)]
  /\ step' = "find"
  /\ pos' = pos + 1
  /\ UNCHANGED <<queueVars, active, rows, txs, failed, worldVars, boundVars>>

FinishJob ==
  /\ active # NoJob
  /\ pos = Len(Batch) + 1
  /\ Complete(active)
  /\ StopWorking
  /\ UNCHANGED <<storeVars, worldVars, boundVars>>

Work ==
  \/ SkipEvent \/ AcceptEvent \/ RefuseEvent
  \/ SaveRow \/ MarkQrCodePaid \/ WriteTransaction \/ LogEvent
  \/ FinishJob

-----------------------------------------------------------------------------
(* Failures and retries. *)

\* Any database access of the handler may fail; the handler does not catch it.
DatabaseFault ==
  /\ faults < MaxFaults
  /\ \E s \in Step : Working(s)
  /\ faults' = faults + 1
  /\ AttemptFails
  /\ UNCHANGED <<sent, purges>>

\* The process dies and is restarted: the job stays active in Redis, and API
\* requests under way are lost between their two writes.
Crash ==
  /\ faults < MaxFaults
  /\ \/ active # NoJob
     \/ \E c \in Code : issuing[c] = "rowSaved"
  /\ faults' = faults + 1
  /\ StopWorking
  /\ issuing' = [c \in Code |-> IF issuing[c] = "rowSaved" THEN "done" ELSE issuing[c]]
  /\ UNCHANGED <<queueVars, storeVars, accounts, sent, purges>>

RecoverStalled(k) ==
  /\ k # active
  /\ Stall(k)
  /\ UNCHANGED <<jobVars, storeVars, worldVars, boundVars>>

RetryLater(k) ==
  /\ Promote(k)
  /\ UNCHANGED <<jobVars, storeVars, worldVars, boundVars>>

-----------------------------------------------------------------------------
(* Around the queue. *)

\* An API request has its answer from the provider and saves the row.
IssueRow(c) ==
  /\ IssuedRow[c] # NoRow
  /\ issuing[c] = "no"
  /\ rows[c] = NoRow
  /\ issuing' = [issuing EXCEPT ![c] = IF c \in IssuedTx THEN "rowSaved" ELSE "done"]
  /\ rows' = [rows EXCEPT ![c] = IssuedRow[c]]
  /\ UNCHANGED <<queueVars, jobVars, txs, logVars, accounts, boundVars>>

\* ... and then creates its transaction, with the status the row had.
IssueTransaction(c) ==
  /\ issuing[c] = "rowSaved"
  /\ issuing' = [issuing EXCEPT ![c] = "done"]
  /\ txs' = [txs EXCEPT ![c] = IF @ = NoTx THEN "PENDING" ELSE @]
  /\ UNCHANGED <<queueVars, jobVars, rows, logVars, accounts, boundVars>>

RegisterAccount(c) ==
  /\ ~IsKnown(c)
  /\ accounts' = accounts \cup {c}
  /\ UNCHANGED <<queueVars, jobVars, storeVars, issuing, boundVars>>

\* cleanupOldLogs: the oldest entries of a code go.
PurgeOldLogs(c) ==
  /\ purges < MaxPurges
  /\ processed[c] # <<>> \/ failed[c] # {}
  /\ purges' = purges + 1
  /\ \E n \in 0 .. Len(processed[c]), kept \in SUBSET failed[c] :
       /\ processed' = [processed EXCEPT ![c] = SubSeq(@, n + 1, Len(@))]
       /\ failed' = [failed EXCEPT ![c] = kept]
  /\ UNCHANGED <<queueVars, jobVars, rows, txs, worldVars, sent, faults>>

Next ==
  \/ \E d \in Deliveries : Deliver(d)
  \/ \E k \in JobId : TakeJob(k) \/ RecoverStalled(k) \/ RetryLater(k)
  \/ Work
  \/ DatabaseFault
  \/ Crash
  \/ \E c \in Code : \/ IssueRow(c) \/ IssueTransaction(c)
                     \/ RegisterAccount(c) \/ PurgeOldLogs(c)

Spec == Init /\ [][Next]_vars

(***************************************************************************)
(* The event loop runs a started handler on, Bull's timers fire and its    *)
(* wait list is first in first out, so a waiting job is not passed over    *)
(* for ever.  Nothing is assumed of the provider, the API, faults, purges. *)
(***************************************************************************)
Fairness ==
  /\ WF_vars(Work)
  /\ \A k \in JobId : /\ SF_vars(TakeJob(k))
                      /\ WF_vars(RetryLater(k))
                      /\ WF_vars(RecoverStalled(k))

FairSpec == Spec /\ Fairness

-----------------------------------------------------------------------------
(* Correctness. *)

QrCodes == {QrCodeOf[c] : c \in Code} \ {NoCode}

\* Codes of payments (a QR code is none) that only webhooks create.
Inbound ==
  {c \in Code : IssuedRow[c] = NoRow /\ "PIX_QRCODE_WAS_CREATED" \notin EventsOf(c)}
    \ QrCodes

InProgress(c) == \E s \in Step \ {"find"} : Working(s) /\ TheCode = c

Recorded(event, c) == \E i \in DOMAIN processed[c] : processed[c][i] = event

\* The processed entries of a payment are a path of the state machine, but
\* for the events whose handler does not look at the log; and the path has
\* its beginning, as long as nothing was purged.
LogFollowsStateMachine ==
  \A c \in Code :
    /\ \A i \in 1 .. Len(processed[c]) - 1 :
         MayFollow(processed[c][i], processed[c][i + 1])
    /\ purges = 0 /\ processed[c] # <<>> => MayFollow(NoEvent, processed[c][1])

\* Whatever fails between the writes, the status stored for a payment is that
\* of the last logged event, or of one that may come right after it: it never
\* runs two events ahead of the log nor falls behind it.
RowAtMostOneEventAhead ==
  \A c \in Code :
    c \notin QrCodes /\ rows[c] # NoRow /\ purges = 0 =>
      \/ LastProcessed(c) = NoEvent /\ rows[c] = IssuedRow[c]
      \/ LastProcessed(c) # NoEvent /\ rows[c] = HandlerOf(LastProcessed(c)).row
      \/ \E e \in WebhookEvent :
           MayFollow(LastProcessed(c), e) /\ rows[c] = HandlerOf(e).row

\* With no handler under way and no write lost, a payment received through
\* webhooks has its row, its transaction and its log in agreement.
SettledPaymentsAgree ==
  \A c \in Inbound :
    ~InProgress(c) /\ faults = 0 /\ purges = 0 =>
      IF LastProcessed(c) = NoEvent
      THEN rows[c] = NoRow /\ txs[c] = NoTx
      ELSE /\ rows[c] = HandlerOf(LastProcessed(c)).row
           /\ txs[c] = MapWebhookEventToTransactionStatus(LastProcessed(c))

\* Once a terminal event is logged for a payment received through webhooks,
\* its row and its transaction stay as they are.
TerminalIsFinal ==
  [][\A c \in Inbound :
       (\E i \in DOMAIN processed[c] : IsTerminalEvent(processed[c][i]))
         => rows'[c] = rows[c] /\ txs'[c] = txs[c]]_vars

\* An event that was processed for a payment, delivered again, leaves the
\* payment's row alone: what webhook/docs/webhooks.manual.ts:30 says of every
\* webhook.
DuplicatesAreIgnored ==
  [][\A c \in Code :
       Working("save") /\ TheCode = c /\ rows'[c] # rows[c]
         => ~Recorded(TheEvent, c)]_vars

\* The same for PIX and TED payments, whose every handler looks at the event
\* log or for an existing row: not after crashes nor re-runs either.
TransferDuplicatesAreIgnored ==
  [][\A c \in Code :
       /\ Working("save") /\ TheCode = c /\ rows'[c] # rows[c]
       /\ TheEvent \in (PixEvent \cup TedEvent) \ {"PIX_QRCODE_WAS_CREATED"}
       => ~Recorded(TheEvent, c)]_vars

\* Why an event may leave the queue with no trace: its payment was created
\* by an earlier delivery, or its handler skips a payment it does not find,
\* or one whose account was not there (from the start) or is not named.
MayBeDropped(event, c) ==
  LET h == HandlerOf(event)
  IN  \/ rows[c] # NoRow /\ h.onExisting = "skip"
      \/ h.onMissing = "skip"
      \/ /\ rows[c] = NoRow
         /\ \/ h.onMissing = "createIfAccount" /\ c \in Unnumbered
            \/ h.onMissing \notin {"retry", "create"} /\ c \notin KnownAtStart

\* When the worker is done with a job, for good or after the last attempt,
\* each of its events is in the event log as processed or as failed.
NoEventLost ==
  [][\A d \in Deliveries :
       /\ active # NoJob /\ payload[active] = d
       /\ active \in JobId /\ place'[active] = "none"
       /\ purges = 0
       => \A i \in DOMAIN d.codes :
            \/ Recorded(d.event, d.codes[i])'
            \/ d.event \in failed'[d.codes[i]]
            \/ MayBeDropped(d.event, d.codes[i])']_vars

\* A job that completes, at whichever attempt, leaves every payment its events
\* create with a transaction: the automatic retry of
\* webhook/docs/webhooks.manual.ts:28 finishes the work.
RetriesCompleteTheWork ==
  [][\A d \in Deliveries :
       /\ active # NoJob /\ payload[active] = d
       /\ pos = Len(d.codes) + 1 /\ place'[active] = "none"
       /\ HandlerOf(d.event).tx = "create"
       => \A i \in DOMAIN d.codes :
            rows[d.codes[i]] # NoRow => txs[d.codes[i]] # NoTx]_vars

\* Every job ends: completed, given up, or stalled once too often.
EveryJobLeavesQueue ==
  \A k \in JobId : Exists(k) ~> place[k] \in {"none", "failed"}

\* The log of every payment is a run of PaymentFlow.
Flow == INSTANCE PaymentFlow WITH history <- processed, forgotten <- purges > 0

FlowSpec == Flow!Spec
=============================================================================
