-------------------------- MODULE OutgoingTransfer --------------------------
(***************************************************************************)
(* One payment the API makes through the provider, of one of three kinds:  *)
(*   "pix"  PixService.transfer and PixSyncHelper                          *)
(*   "ted"  TedService.createTransfer and TedSyncHelper                    *)
(*   "bill" BillPaymentService.confirmPayment and BillPaymentSyncHelper    *)
(* Three parties write its row and its transaction, each awaiting between  *)
(* its writes: the request that makes it, the webhook worker, and every    *)
(* GET of the payment, which asks the provider and repairs what differs    *)
(* (read-repair).  The provider moves on meanwhile, answers get lost,      *)
(* writes fail and the process dies.                                       *)
(*                                                                         *)
(* createFromWebhook's look-up and insert are one step: losing the race to *)
(* another insert is an error of that write, and so one of the faults.     *)
(***************************************************************************)
EXTENDS WebhookHandlers, Naturals

CONSTANTS
  Kinds,      \* the kinds of payment a behaviour may be about
  Reader,     \* GET requests under way at the same time
  NoRow,      \* no row, or no status
  NoTx,       \* no transaction
  MaxFaults   \* bounds lost answers, failed writes and crashes

PaymentStatus ==
  {"CREATED", "IN_PROCESS", "APPROVED", "REPROVED", "DONE", "UNDONE", "CANCELED",
   "FAILED", "Created", "Completed", "Confirmed", "Cancelled"}

ASSUME KindsAssumption == Kinds \subseteq {"pix", "ted", "bill"}
ASSUME NoStatusAssumption == NoRow \notin PaymentStatus /\ NoTx \notin TransactionStatus
ASSUME MaxFaultsAssumption == MaxFaults \in Nat

VARIABLES
  kind,
  provider,   \* status of the payment at the provider, NoRow before it has it
  had,        \* every status it has had there
  events,     \* webhooks sent and not yet done with
  row,        \* status of the pix_transfer, ted_transfer or bill_payment row
  coded,      \* the row carries its authentication code
  tx,         \* status of the transaction
  lastEvent,  \* last processed event of the event log
  api,        \* what the request that makes the payment does next
  apiStatus,  \* status in that request's memory once the provider answered
  worker,     \* the event the webhook worker applies, or NoEvent
  workerStep,
  readers,    \* each GET: its next step, and the status it read or will write
  faults

providerVars == <<provider, had>>
storeVars == <<row, coded, tx>>
apiVars == <<api, apiStatus>>
workerVars == <<worker, workerStep, lastEvent>>
vars == <<kind, providerVars, events, storeVars, apiVars, workerVars, readers, faults>>

ApiStep == {"idle", "asking", "accepted", "saving", "tx", "failing", "over"}
WorkerStep == {"save", "tx", "log"}
Read == [step : {"idle", "ask", "save", "tx"}, status : PaymentStatus \cup {NoRow}]
IdleRead == [step |-> "idle", status |-> NoRow]

TypeOK ==
  /\ kind \in Kinds
  /\ provider \in PaymentStatus \cup {NoRow}
  /\ had \in SUBSET PaymentStatus
  /\ events \in SUBSET WebhookEvent
  /\ row \in PaymentStatus \cup {NoRow}
  /\ coded \in BOOLEAN
  /\ tx \in TransactionStatus \cup {NoTx}
  /\ lastEvent \in WebhookEvent \cup {NoEvent}
  /\ api \in ApiStep
  /\ apiStatus \in PaymentStatus \cup {NoRow}
  /\ worker \in WebhookEvent \cup {NoEvent}
  /\ workerStep \in WorkerStep
  /\ readers \in [Reader -> Read]
  /\ faults \in 0 .. MaxFaults

Init ==
  /\ kind \in Kinds
  /\ provider = NoRow
  /\ had = {}
  /\ events = {}
  /\ row = NoRow
  /\ coded = FALSE
  /\ tx = NoTx
  /\ lastEvent = NoEvent
  /\ api = "idle"
  /\ apiStatus = NoRow
  /\ worker = NoEvent
  /\ workerStep = "save"
  /\ readers = [r \in Reader |-> IdleRead]
  /\ faults = 0

-----------------------------------------------------------------------------
(* Statuses and what they become. *)

FirstStatus == IF kind = "bill" THEN "Created" ELSE "CREATED"

TransactionStatusOfTransfer(status) ==  \* variant: the bill statuses are forgotten
  IF status = "CREATED" THEN "PENDING"
  ELSE IF status \in {"IN_PROCESS", "APPROVED"} THEN "IN_PROCESS" ELSE status

TransactionDoneWhileInProcess(status) ==  \* variant: in process counts as done
  CASE status \in {"CREATED", "Created"}       -> "PENDING"
    [] status \in {"IN_PROCESS", "APPROVED", "Completed", "Confirmed"} -> "DONE"
    [] status = "Cancelled"                    -> "CANCELED"
    [] OTHER                                   -> status

\* mapPixTransferStatusToTransactionStatus and its TED and bill twins.
TransactionStatusOf(status) ==
  CASE status \in {"CREATED", "Created"}       -> "PENDING"
    [] status \in {"IN_PROCESS", "APPROVED"}   -> "IN_PROCESS"
    [] status \in {"Completed", "Confirmed"}   -> "DONE"
    [] status = "Cancelled"                    -> "CANCELED"
    [] OTHER                                   -> status

\* What read-repair makes of the provider's status, NoRow if nothing: WAITING
\* and CHECKING are other words for CREATED and IN_PROCESS, REFUSED for
\* CANCELED, ERROR for FAILED.
SyncedPixStatus(status) ==
  IF status \in {"DONE", "CREATED", "CANCELED", "UNDONE", "REPROVED", "IN_PROCESS"}
  THEN status ELSE NoRow
SyncedTedStatus(status) ==
  CASE status \in {"DONE", "APPROVED"}             -> "DONE"
    [] status \in {"CREATED", "FAILED", "CANCELED"} -> status
    [] OTHER                                       -> NoRow
ParseBillStatus(status) ==
  IF status \in {"Created", "Completed", "Confirmed", "Cancelled"}
  THEN status ELSE "Created"

OptimisticSyncedStatus(status) ==  \* variant: a payment in process counts as done
  CASE kind = "pix"  -> IF status = "IN_PROCESS" THEN "DONE" ELSE SyncedPixStatus(status)
    [] kind = "ted"  -> SyncedTedStatus(status)
    [] kind = "bill" -> ParseBillStatus(status)
SyncedStatus(status) ==
  CASE kind = "pix"  -> SyncedPixStatus(status)
    [] kind = "ted"  -> SyncedTedStatus(status)
    [] kind = "bill" -> ParseBillStatus(status)

(***************************************************************************)
(* The provider: its statuses are those the code knows, in the order that  *)
(* the webhook state machine gives the events they are announced with.     *)
(***************************************************************************)
ProviderMove(k, from, to, announced) ==
  [kind |-> k, from |-> from, to |-> to, announced |-> announced]

ProviderMoves ==
  {ProviderMove("pix", "CREATED", "IN_PROCESS", {}),
   ProviderMove("pix", "CREATED", "REPROVED", {}),
   ProviderMove("pix", "IN_PROCESS", "DONE", {"PIX_CASHOUT_WAS_COMPLETED"}),
   ProviderMove("pix", "IN_PROCESS", "CANCELED", {"PIX_CASHOUT_WAS_CANCELED"}),
   ProviderMove("pix", "CANCELED", "UNDONE", {"PIX_CASHOUT_WAS_UNDONE"}),
   ProviderMove("ted", "CREATED", "APPROVED", {"TED_CASH_OUT_WAS_APPROVED"}),
   ProviderMove("ted", "CREATED", "REPROVED", {"TED_CASH_OUT_WAS_REPROVED"}),
   ProviderMove("ted", "CREATED", "FAILED", {}),
   ProviderMove("ted", "APPROVED", "DONE", {"TED_CASH_OUT_WAS_DONE"}),
   ProviderMove("ted", "APPROVED", "CANCELED", {"TED_CASH_OUT_WAS_CANCELED"}),
   ProviderMove("ted", "CANCELED", "UNDONE", {"TED_CASH_OUT_WAS_UNDONE"}),
   ProviderMove("bill", "Created", "Completed", {}),
   ProviderMove("bill", "Completed", "Confirmed", {"BILL_PAYMENT_WAS_CONFIRMED"}),
   ProviderMove("bill", "Created", "Cancelled",
                {"BILL_PAYMENT_HAS_FAILED", "BILL_PAYMENT_WAS_CANCELLED"}),
   ProviderMove("bill", "Confirmed", "Cancelled", {"BILL_PAYMENT_WAS_REFUSED"})}

AnnouncedAtOnce ==
  IF kind = "bill" THEN {"BILL_PAYMENT_WAS_RECEIVED", "BILL_PAYMENT_WAS_CREATED"} ELSE {}

ProviderGoesOn ==
  /\ \E m \in ProviderMoves :
       /\ m.kind = kind
       /\ m.from = provider
       /\ provider' = m.to
       /\ had' = had \cup {m.to}
       /\ events' = events \cup m.announced
  /\ UNCHANGED <<kind, storeVars, apiVars, workerVars, readers, faults>>

-----------------------------------------------------------------------------
(* The request that makes the payment. *)

\* A transfer's row is saved before the provider is asked, a bill's after.
Submit ==
  /\ api = "idle"
  /\ api' = "asking"
  /\ row' = IF kind = "bill" THEN NoRow ELSE "CREATED"
  /\ UNCHANGED <<kind, providerVars, events, coded, tx, apiStatus, workerVars,
                 readers, faults>>

ProviderAccepts ==
  /\ api = "asking"
  /\ api' = "accepted"
  /\ provider' = FirstStatus
  /\ had' = {FirstStatus}
  /\ events' = AnnouncedAtOnce
  /\ UNCHANGED <<kind, storeVars, apiStatus, workerVars, readers, faults>>

ProviderRefuses ==
  /\ api = "asking"
  /\ api' = "failing"
  /\ UNCHANGED <<kind, providerVars, events, storeVars, apiStatus, workerVars,
                 readers, faults>>

\* The answer: a PIX response may carry the status the transfer has by now.
ProviderAnswers ==
  /\ api = "accepted"
  /\ api' = "saving"
  /\ apiStatus' \in {FirstStatus} \cup (IF kind = "pix" THEN {provider} ELSE {})
  /\ UNCHANGED <<kind, providerVars, events, storeVars, workerVars, readers, faults>>

SaveAnswerAndLeaveTheRest ==  \* variant: the transaction is left to the webhooks
  /\ api = "saving"
  /\ api' = "over"
  /\ coded' = TRUE
  /\ row' = IF kind = "ted" THEN row ELSE apiStatus
  /\ UNCHANGED <<kind, providerVars, events, tx, apiStatus, workerVars, readers, faults>>

\* The row gets the authentication code (TED: nothing else of it is written).
SaveAnswer ==
  /\ api = "saving"
  /\ api' = "tx"
  /\ coded' = TRUE
  /\ row' = IF kind = "ted" THEN row ELSE apiStatus
  /\ UNCHANGED <<kind, providerVars, events, tx, apiStatus, workerVars, readers, faults>>

CreateTransaction ==
  /\ api = "tx"
  /\ api' = "over"
  /\ tx' = IF tx = NoTx THEN TransactionStatusOf(apiStatus) ELSE tx
  /\ UNCHANGED <<kind, providerVars, events, row, coded, apiStatus, workerVars,
                 readers, faults>>

\* The catch block.  PIX saves the whole entity, with its code if the answer
\* had come; TED the status only; confirmPayment nothing.
RecordFailure ==
  /\ api = "failing"
  /\ api' = "over"
  /\ row' = CASE kind = "pix"  -> "REPROVED"
              [] kind = "ted"  -> "FAILED"
              [] kind = "bill" -> row
  /\ coded' = (coded \/ (kind = "pix" /\ apiStatus # NoRow))
  /\ UNCHANGED <<kind, providerVars, events, tx, apiStatus, workerVars, readers, faults>>

\* The answer is lost or a write fails.  Only TED takes a failure to create the
\* transaction for a failure of the transfer.
RequestFault ==
  /\ faults < MaxFaults
  /\ faults' = faults + 1
  /\ \/ api \in {"accepted", "saving"} /\ api' = "failing"
     \/ api = "tx" /\ api' = IF kind = "ted" THEN "failing" ELSE "over"
     \/ api = "failing" /\ api' = "over"
  /\ UNCHANGED <<kind, providerVars, events, storeVars, apiStatus, workerVars, readers>>

-----------------------------------------------------------------------------
(* The webhook worker. *)

Applicable(event) ==
  coded /\ MayFollow(lastEvent, event)

TakeEvent ==
  /\ worker = NoEvent
  /\ \E event \in events :
       /\ Applicable(event)
       /\ worker' = event
  /\ workerStep' = "save"
  /\ UNCHANGED <<kind, providerVars, events, storeVars, apiVars, lastEvent, readers, faults>>

\* An event that could not be applied is retried (it stays) until its attempts
\* are used up.
GiveUpEvent ==
  /\ worker = NoEvent
  /\ \E event \in events :
       /\ ~Applicable(event)
       /\ events' = events \ {event}
  /\ UNCHANGED <<kind, providerVars, storeVars, apiVars, workerVars, readers, faults>>

ApplyToRow ==
  /\ worker # NoEvent
  /\ workerStep = "save"
  /\ row' = HandlerOf(worker).row
  /\ workerStep' = IF HandlerOf(worker).tx = "none" THEN "log" ELSE "tx"
  /\ UNCHANGED <<kind, providerVars, events, coded, tx, apiVars, worker, lastEvent,
                 readers, faults>>

ApplyToTransaction ==
  /\ worker # NoEvent
  /\ workerStep = "tx"
  /\ LET writes == (HandlerOf(worker).tx = "create") <=> (tx = NoTx)
     IN  tx' = IF writes THEN MapWebhookEventToTransactionStatus(worker) ELSE tx
  /\ workerStep' = "log"
  /\ UNCHANGED <<kind, providerVars, events, row, coded, apiVars, worker, lastEvent,
                 readers, faults>>

LogEvent ==
  /\ worker # NoEvent
  /\ workerStep = "log"
  /\ lastEvent' = worker
  /\ events' = events \ {worker}
  /\ worker' = NoEvent
  /\ UNCHANGED <<kind, providerVars, storeVars, apiVars, workerStep, readers, faults>>

Apply == ApplyToRow \/ ApplyToTransaction \/ LogEvent

\* A write of the handler fails: the event is retried, or was at its last attempt.
WorkerFault ==
  /\ faults < MaxFaults
  /\ faults' = faults + 1
  /\ worker # NoEvent
  /\ worker' = NoEvent
  /\ events' \in {events, events \ {worker}}
  /\ UNCHANGED <<kind, providerVars, storeVars, apiVars, workerStep, lastEvent, readers>>

-----------------------------------------------------------------------------
(* Read-repair: a GET of the payment. *)

\* Without a code there is nothing to ask the provider about.
ReadRow(r) ==
  /\ readers[r].step = "idle"
  /\ coded
  /\ readers' = [readers EXCEPT ![r] = [step |-> "ask", status |-> row]]
  /\ UNCHANGED <<kind, providerVars, events, storeVars, apiVars, workerVars, faults>>

AskProviderUnlessClosed(r) ==  \* variant: a closed payment is not looked up again
  /\ readers[r].step = "ask"
  /\ LET new == SyncedStatus(provider)
         differs == /\ new \notin {NoRow, readers[r].status}
                    /\ readers[r].status \notin {"DONE", "CANCELED", "FAILED", "REPROVED"}
     IN  \/ /\ differs \/ kind = "bill"
            /\ readers' = [readers EXCEPT ![r] = [step |-> "save", status |-> new]]
         \/ /\ ~differs
            /\ readers' = [readers EXCEPT ![r] = IdleRead]
  /\ UNCHANGED <<kind, providerVars, events, storeVars, apiVars, workerVars, faults>>

\* Equal statuses end the read, but for a bill whose other data differ.
AskProvider(r) ==
  /\ readers[r].step = "ask"
  /\ LET new == SyncedStatus(provider)
         differs == new \notin {NoRow, readers[r].status}
     IN  \/ /\ differs \/ kind = "bill"
            /\ readers' = [readers EXCEPT ![r] = [step |-> "save", status |-> new]]
         \/ /\ ~differs
            /\ readers' = [readers EXCEPT ![r] = IdleRead]
  /\ UNCHANGED <<kind, providerVars, events, storeVars, apiVars, workerVars, faults>>

SaveSynced(r) ==
  /\ readers[r].step = "save"
  /\ row' = readers[r].status
  /\ readers' = [readers EXCEPT ![r].step = "tx"]
  /\ UNCHANGED <<kind, providerVars, events, coded, tx, apiVars, workerVars, faults>>

\* updateStatus does nothing without a transaction; for a bill one is created.
SyncTransaction(r) ==
  /\ readers[r].step = "tx"
  /\ tx' = IF tx = NoTx /\ kind # "bill"
           THEN NoTx ELSE TransactionStatusOf(readers[r].status)
  /\ readers' = [readers EXCEPT ![r] = IdleRead]
  /\ UNCHANGED <<kind, providerVars, events, row, coded, apiVars, workerVars, faults>>

Repair(r) == AskProvider(r) \/ SaveSynced(r) \/ SyncTransaction(r)

\* Every error of a repair is swallowed.
ReaderFault(r) ==
  /\ faults < MaxFaults
  /\ faults' = faults + 1
  /\ readers[r].step # "idle"
  /\ readers' = [readers EXCEPT ![r] = IdleRead]
  /\ UNCHANGED <<kind, providerVars, events, storeVars, apiVars, workerVars>>

\* The process dies: requests under way are gone, the worker's job is not.
Crash ==
  /\ faults < MaxFaults
  /\ faults' = faults + 1
  /\ \/ api \notin {"idle", "over"}
     \/ worker # NoEvent
     \/ \E r \in Reader : readers[r].step # "idle"
  /\ api' = IF api = "idle" THEN "idle" ELSE "over"
  /\ worker' = NoEvent
  /\ readers' = [r \in Reader |-> IdleRead]
  /\ UNCHANGED <<kind, providerVars, events, storeVars, apiStatus, workerStep, lastEvent>>

-----------------------------------------------------------------------------
Request ==
  ProviderAnswers \/ SaveAnswer \/ CreateTransaction \/ RecordFailure

Next ==
  \/ Submit \/ ProviderAccepts \/ ProviderRefuses \/ ProviderGoesOn
  \/ Request \/ RequestFault
  \/ TakeEvent \/ GiveUpEvent \/ Apply \/ WorkerFault
  \/ \E r \in Reader : ReadRow(r) \/ Repair(r) \/ ReaderFault(r)
  \/ Crash

Spec == Init /\ [][Next]_vars

(***************************************************************************)
(* What was started in the process goes on.  Nothing is assumed of the     *)
(* provider, of clients, or of when the worker takes an event.             *)
(***************************************************************************)
FairSpec ==
  /\ Spec
  /\ WF_vars(Request)
  /\ WF_vars(Apply)
  /\ \A r \in Reader : WF_vars(Repair(r))

-----------------------------------------------------------------------------
(* Correctness. *)

\* The error path's status, when the payment failed as far as the API knows.
FailureStatus == CASE kind = "pix" -> {"REPROVED"} [] kind = "ted" -> {"FAILED"}
                   [] OTHER -> {}

\* However the three writers interleave, the row never shows a status the
\* payment has not had at the provider (a TED that was approved may be shown as
\* done); and without faults, the API's own failure status is no exception: it
\* is only there when the provider does not have the payment.
RowWasTrue ==
  \/ row \in {NoRow, FirstStatus}
  \/ row \in had
  \/ kind = "ted" /\ row = "DONE" /\ "APPROVED" \in had
  \/ row \in FailureStatus /\ (faults > 0 \/ provider = NoRow)

\* The transaction, which clients read, says DONE only if the provider carried
\* the payment out (for a TED: at least approved it).
DoneWasExecuted ==
  tx = "DONE" => had \cap {"DONE", "APPROVED", "Completed", "Confirmed"} # {}

\* A request that ended without a fault leaves no coded payment without a
\* transaction: webhooks and read-repair of transfers only update one.
CodedPaymentsHaveTransaction ==
  api = "over" /\ coded /\ faults = 0 => tx # NoTx

\* If clients keep reading the payment, its row ends up showing the provider's
\* status for good, stale repairs, late webhooks, faults and crashes regardless,
\* whenever read-repair knows that status.
RowAgrees == SyncedStatus(provider) \in {NoRow, row}
RepeatedReadsCatchUp ==
  []<><<\E r \in Reader : ReadRow(r)>>_vars => <>[]RowAgrees

\* transaction-status.enum.ts comments DONE as "Transação concluída com
\* sucesso": a transaction shown as done was done at the provider.
DoneMeansDone ==
  tx = "DONE" => had \cap {"DONE", "Completed", "Confirmed"} # {}

\* Nothing is under way and no webhook is left to apply.
Quiet ==
  /\ api = "over"
  /\ worker = NoEvent
  /\ events = {}
  /\ \A r \in Reader : readers[r].step = "idle"

\* The same file comments PENDING as "Transação pendente de processamento": with
\* everything at rest, no transaction is left pending by a payment whose own row
\* says that it is done.
PendingMeansPending ==
  Quiet /\ tx = "PENDING" => TransactionStatusOf(row) # "DONE"
=============================================================================
