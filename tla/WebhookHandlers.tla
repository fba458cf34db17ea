-------------------------- MODULE WebhookHandlers --------------------------
(***************************************************************************)
(* The 27 webhook handlers of the four *-webhook.service.ts files.  They   *)
(* share one shape - look the payment's row up by authentication code,     *)
(* decide, save the row, write the transaction, log the event - and differ *)
(* in five choices, recorded here one record per handler:                  *)
(*                                                                         *)
(*   event      the event it handles and logs                              *)
(*   onMissing  what it does when the row does not exist                   *)
(*     "createIfAccount"     create it if the payload's account is known,  *)
(*                           else skip the event                           *)
(*     "createUnlessUnknown" create it, unless no related row was found    *)
(*                           and the payload names an unknown account      *)
(*     "create"              create it                                     *)
(*     "retry"               throw a retryable error                       *)
(*     "retryUnlessUnknown"  throw, unless the payload names an account    *)
(*                           that is unknown: then skip the event          *)
(*     "skip"                skip the event                                *)
(*   onExisting what it does when the row exists                           *)
(*     "skip"                nothing, the event is taken as already done   *)
(*     "overwrite"           apply it, with no look at the event log       *)
(*     "guard"               apply it if canProcessWebhook allows it after *)
(*                           the last processed event, else throw          *)
(*   row        the status it gives the row                                *)
(*   tx         "create" the transaction if there is none, "update" it if  *)
(*              there is one, or "none"                                    *)
(*                                                                         *)
(* Definitions commented as variants are plausible mistakes; nothing uses  *)
(* them but the experiments that show the properties can fail.             *)
(*                                                                         *)
(* Every handler starts with `if (!validPublicKey) return`; a job is only  *)
(* enqueued with validPublicKey = true, so that branch is never taken.     *)
(***************************************************************************)
EXTENDS WebhookStateMachine

Handler(event, onMissing, onExisting, row, tx) ==
  [event |-> event, onMissing |-> onMissing, onExisting |-> onExisting,
   row |-> row, tx |-> tx]

(* PIX: pix-webhook.service.ts *)
PixCashInReceived ==
  Handler("PIX_CASH_IN_WAS_RECEIVED", "createIfAccount", "skip", "RECEIVED", "create")
PixCashInClearedWithoutTransaction ==  \* variant: the update is forgotten
  Handler("PIX_CASH_IN_WAS_CLEARED", "retryUnlessUnknown", "guard", "CLEARED", "none")
PixCashInCleared ==
  Handler("PIX_CASH_IN_WAS_CLEARED", "retryUnlessUnknown", "guard", "CLEARED", "update")
PixCashOutEvent(event, row) == Handler(event, "retry", "guard", row, "update")
PixCashOutCompleted == PixCashOutEvent("PIX_CASHOUT_WAS_COMPLETED", "DONE")
PixCashOutCanceled  == PixCashOutEvent("PIX_CASHOUT_WAS_CANCELED", "CANCELED")
PixCashOutUndone    == PixCashOutEvent("PIX_CASHOUT_WAS_UNDONE", "UNDONE")
PixRefundReceived ==
  Handler("PIX_REFUND_WAS_RECEIVED", "createUnlessUnknown", "skip", "RECEIVED", "create")
PixRefundCleared ==
  Handler("PIX_REFUND_WAS_CLEARED", "retryUnlessUnknown", "guard", "CLEARED", "update")
PixQrCodeCreated ==
  Handler("PIX_QRCODE_WAS_CREATED", "createIfAccount", "overwrite", "CREATED", "none")

(* Boleto: boleto-webhook.service.ts *)
BoletoRegistered ==
  Handler("BOLETO_WAS_REGISTERED", "skip", "overwrite", "Registered", "none")
BoletoReceivedAsTransfer ==  \* variant: the row status of a transfer
  Handler("BOLETO_CASH_IN_WAS_RECEIVED", "skip", "guard", "RECEIVED", "create")
BoletoCashInReceived ==
  Handler("BOLETO_CASH_IN_WAS_RECEIVED", "skip", "guard", "Processing", "create")
BoletoCashInCleared ==
  Handler("BOLETO_CASH_IN_WAS_CLEARED", "skip", "guard", "Paid", "update")
BoletoCancelled ==
  Handler("BOLETO_WAS_CANCELLED", "skip", "guard", "Cancelled", "update")

(* Bill payment: bill-payment-webhook.service.ts *)
BillPaymentReceived ==
  Handler("BILL_PAYMENT_WAS_RECEIVED", "retry", "overwrite", "Created", "create")
BillPaymentCreated ==
  Handler("BILL_PAYMENT_WAS_CREATED", "retry", "guard", "Created", "none")
BillPaymentConfirmed ==
  Handler("BILL_PAYMENT_WAS_CONFIRMED", "retry", "guard", "Confirmed", "update")
BillPaymentFailed ==
  Handler("BILL_PAYMENT_HAS_FAILED", "retry", "guard", "Cancelled", "update")
BillPaymentCancelled ==
  Handler("BILL_PAYMENT_WAS_CANCELLED", "retry", "guard", "Cancelled", "update")
BillPaymentRefused ==
  Handler("BILL_PAYMENT_WAS_REFUSED", "retry", "guard", "Cancelled", "update")

(* TED: ted-webhook.service.ts *)
TedCashOutEvent(event, row) == Handler(event, "retry", "guard", row, "update")
TedCashOutApproved == TedCashOutEvent("TED_CASH_OUT_WAS_APPROVED", "APPROVED")
TedCashOutDone     == TedCashOutEvent("TED_CASH_OUT_WAS_DONE", "DONE")
TedCashOutCanceled == TedCashOutEvent("TED_CASH_OUT_WAS_CANCELED", "CANCELED")
TedCashOutReproved == TedCashOutEvent("TED_CASH_OUT_WAS_REPROVED", "REPROVED")
TedCashOutUndone   == TedCashOutEvent("TED_CASH_OUT_WAS_UNDONE", "UNDONE")
TedCashInReceivedAgain ==  \* variant: an existing row is not looked for
  Handler("TED_CASH_IN_WAS_RECEIVED", "createIfAccount", "overwrite", "RECEIVED", "create")
TedCashInReceived ==
  Handler("TED_CASH_IN_WAS_RECEIVED", "createIfAccount", "skip", "RECEIVED", "create")
TedCashInCleared ==
  Handler("TED_CASH_IN_WAS_CLEARED", "retryUnlessUnknown", "guard", "CLEARED", "update")
TedRefundReceived ==
  Handler("TED_REFUND_WAS_RECEIVED", "create", "skip", "RECEIVED", "create")
TedRefundCleared ==
  Handler("TED_REFUND_WAS_CLEARED", "retry", "guard", "CLEARED", "update")

(***************************************************************************)
(* The switch of each processor's handleJob: which handlers its queue runs.*)
(***************************************************************************)
PixHandlers ==
  {PixCashInReceived, PixCashInCleared, PixCashOutCompleted,
   PixCashOutCanceled, PixCashOutUndone, PixRefundReceived,
   PixRefundCleared, PixQrCodeCreated}

BoletoHandlers ==
  {BoletoRegistered, BoletoCashInReceived, BoletoCashInCleared,
   BoletoCancelled}

BillPaymentHandlers ==
  {BillPaymentReceived, BillPaymentCreated, BillPaymentConfirmed,
   BillPaymentFailed, BillPaymentCancelled, BillPaymentRefused}

TedHandlers ==
  {TedCashOutApproved, TedCashOutDone, TedCashOutCanceled,
   TedCashOutReproved, TedCashOutUndone, TedCashInReceived,
   TedCashInCleared, TedRefundReceived, TedRefundCleared}

Handlers == PixHandlers \cup BoletoHandlers \cup BillPaymentHandlers \cup TedHandlers

HandlerTable == [event \in WebhookEvent |-> CHOOSE h \in Handlers : h.event = event]
HandlerOf(event) == HandlerTable[event]

\* Each handler looks the code up in one table; the events about its rows.
PaymentTables ==
  {{"PIX_CASH_IN_WAS_RECEIVED", "PIX_CASH_IN_WAS_CLEARED"},
   {"PIX_CASHOUT_WAS_COMPLETED", "PIX_CASHOUT_WAS_CANCELED", "PIX_CASHOUT_WAS_UNDONE"},
   {"PIX_REFUND_WAS_RECEIVED", "PIX_REFUND_WAS_CLEARED"},
   {"PIX_QRCODE_WAS_CREATED"},
   {"TED_CASH_OUT_WAS_APPROVED", "TED_CASH_OUT_WAS_DONE", "TED_CASH_OUT_WAS_CANCELED",
    "TED_CASH_OUT_WAS_REPROVED", "TED_CASH_OUT_WAS_UNDONE"},
   {"TED_CASH_IN_WAS_RECEIVED", "TED_CASH_IN_WAS_CLEARED"},
   {"TED_REFUND_WAS_RECEIVED", "TED_REFUND_WAS_CLEARED"},
   BoletoEvent, BillPaymentEvent}

RowStatus ==
  {"CREATED", "RECEIVED", "CLEARED", "PAID", "APPROVED", "DONE", "CANCELED",
   "UNDONE", "REPROVED", "Pending", "Registered", "Processing", "Paid", "Cancelled",
   "Created", "Confirmed"}

\* What the code lets come after prev in a payment's event log: the handlers
\* that overwrite never consult the log.
MayFollow(prev, event) ==
  \/ HandlerOf(event).onExisting = "overwrite"
  \/ CanProcessWebhook(prev, event)

(***************************************************************************)
(* onFailed of each processor, after the last attempt: for which events of *)
(* the batch a wasProcessed = false entry is written.  The PIX and TED     *)
(* processors skip an event whose data has no authenticationCode: the data *)
(* of a QR code event never has one (its key is conciliationId), a TED's   *)
(* always does, the normaliser copies the envelope's into it.              *)
(***************************************************************************)
PixFailureIsLogged(event, coded) ==
  event \in PixEvent /\ event # "PIX_QRCODE_WAS_CREATED" /\ coded
TedFailureIsLogged(event) == event \in TedEvent
BoletoFailureIsLogged(event) == event \in BoletoEvent
BillPaymentFailureIsLogged(event) == event \in BillPaymentEvent

FailureIsLogged(event, coded) ==
  \/ PixFailureIsLogged(event, coded)
  \/ TedFailureIsLogged(event)
  \/ BoletoFailureIsLogged(event)
  \/ BillPaymentFailureIsLogged(event)
=============================================================================
