----------------------- MODULE WebhookHandlers_proofs -----------------------
(***************************************************************************)
(* What the handler table gives for each event: the facts the proofs about *)
(* its users cite instead of expanding its 27 records.                     *)
(***************************************************************************)
EXTENDS WebhookHandlers, Integers, TLAPS

\* Every event has a handler in the table, and it is the handler of that event.
LEMMA HandlerOfEvent ==
  ASSUME NEW event \in WebhookEvent
  PROVE  HandlerOf(event) \in Handlers /\ HandlerOf(event).event = event
<1>1. \A e \in PixEvent : \E h \in PixHandlers : h.event = e
  BY DEF PixEvent, PixHandlers, PixCashInReceived,
     PixCashInCleared, PixCashOutEvent, PixCashOutCompleted, PixCashOutCanceled,
     PixCashOutUndone, PixRefundReceived, PixRefundCleared, PixQrCodeCreated,
     Handler
<1>2. \A e \in BoletoEvent : \E h \in BoletoHandlers : h.event = e
  BY DEF BoletoEvent, BoletoHandlers, BoletoRegistered,
     BoletoCashInReceived, BoletoCashInCleared, BoletoCancelled, Handler
<1>3. \A e \in BillPaymentEvent : \E h \in BillPaymentHandlers : h.event = e
  BY DEF BillPaymentEvent, BillPaymentHandlers,
     BillPaymentReceived, BillPaymentCreated, BillPaymentConfirmed,
     BillPaymentFailed, BillPaymentCancelled, BillPaymentRefused, Handler
<1>4. \A e \in TedEvent : \E h \in TedHandlers : h.event = e
  BY DEF TedEvent, TedHandlers, TedCashOutEvent,
     TedCashOutApproved, TedCashOutDone, TedCashOutCanceled,
     TedCashOutReproved, TedCashOutUndone, TedCashInReceived,
     TedCashInCleared, TedRefundReceived, TedRefundCleared, Handler
<1>5. \E h \in Handlers : h.event = event
  BY <1>1, <1>2, <1>3, <1>4 DEF WebhookEvent, Handlers
<1> QED BY <1>5 DEF HandlerOf, HandlerTable

\* The choices of every handler are among those the model knows, and an event
\* whose handler creates the row is one that may come first.
LEMMA HandlerTableOK ==
  ASSUME NEW h \in Handlers
  PROVE  /\ h.event \in WebhookEvent
         /\ h.row \in RowStatus
         /\ h.onMissing \in {"create", "createIfAccount", "createUnlessUnknown"}
              => AllowedPrevious(h.event) = {}
<1>1. CASE h \in PixHandlers
  BY <1>1 DEF WebhookEvent, PixEvent, RowStatus, AllowedPrevious, StateMachine,
     PixHandlers, PixCashInReceived, PixCashInCleared, PixCashOutEvent,
     PixCashOutCompleted, PixCashOutCanceled, PixCashOutUndone,
     PixRefundReceived, PixRefundCleared, PixQrCodeCreated, Handler
<1>2. CASE h \in BoletoHandlers
  BY <1>2 DEF WebhookEvent, BoletoEvent, RowStatus, BoletoHandlers,
     BoletoRegistered, BoletoCashInReceived, BoletoCashInCleared,
     BoletoCancelled, Handler
<1>3. CASE h \in BillPaymentHandlers
  BY <1>3 DEF WebhookEvent, BillPaymentEvent, RowStatus, BillPaymentHandlers,
     BillPaymentReceived, BillPaymentCreated, BillPaymentConfirmed,
     BillPaymentFailed, BillPaymentCancelled, BillPaymentRefused, Handler
<1>4. CASE h \in TedHandlers
  BY <1>4 DEF WebhookEvent, TedEvent, RowStatus, AllowedPrevious, StateMachine,
     TedHandlers, TedCashOutEvent, TedCashOutApproved, TedCashOutDone,
     TedCashOutCanceled, TedCashOutReproved, TedCashOutUndone,
     TedCashInReceived, TedCashInCleared, TedRefundReceived,
     TedRefundCleared, Handler
<1> QED BY <1>1, <1>2, <1>3, <1>4 DEF Handlers

\* Every event gives a transaction a status of the enumeration.
LEMMA TransactionStatusOK ==
  ASSUME NEW event
  PROVE  MapWebhookEventToTransactionStatus(event) \in TransactionStatus
BY DEF MapWebhookEventToTransactionStatus, TransactionStatus

\* The webhooks of outgoing payments, each with the row status it announces.
Announcement ==
  {<<"PIX_CASHOUT_WAS_COMPLETED", "DONE">>,
   <<"PIX_CASHOUT_WAS_CANCELED", "CANCELED">>,
   <<"PIX_CASHOUT_WAS_UNDONE", "UNDONE">>,
   <<"TED_CASH_OUT_WAS_APPROVED", "APPROVED">>,
   <<"TED_CASH_OUT_WAS_DONE", "DONE">>,
   <<"TED_CASH_OUT_WAS_CANCELED", "CANCELED">>,
   <<"TED_CASH_OUT_WAS_REPROVED", "REPROVED">>,
   <<"TED_CASH_OUT_WAS_UNDONE", "UNDONE">>,
   <<"BILL_PAYMENT_WAS_RECEIVED", "Created">>,
   <<"BILL_PAYMENT_WAS_CREATED", "Created">>,
   <<"BILL_PAYMENT_WAS_CONFIRMED", "Confirmed">>,
   <<"BILL_PAYMENT_HAS_FAILED", "Cancelled">>,
   <<"BILL_PAYMENT_WAS_CANCELLED", "Cancelled">>,
   <<"BILL_PAYMENT_WAS_REFUSED", "Cancelled">>}

\* The handler of such an event gives the row that status.
LEMMA AnnouncedRows ==
  ASSUME NEW event, NEW status, <<event, status>> \in Announcement
  PROVE  event \in WebhookEvent /\ HandlerOf(event).row = status
<1>1. event \in WebhookEvent
  BY DEF Announcement, WebhookEvent, PixEvent, TedEvent, BillPaymentEvent
<1> DEFINE Fits(h) == h.event = event => h.row = status
<1>2. \A h \in PixHandlers : Fits(h)
  BY DEF Announcement, PixHandlers, PixCashInReceived, PixCashInCleared,
     PixCashOutEvent, PixCashOutCompleted, PixCashOutCanceled, PixCashOutUndone,
     PixRefundReceived, PixRefundCleared, PixQrCodeCreated, Handler
<1>3. \A h \in BoletoHandlers : Fits(h)
  BY DEF Announcement, BoletoHandlers, BoletoRegistered,
     BoletoCashInReceived, BoletoCashInCleared, BoletoCancelled, Handler
<1>4. \A h \in BillPaymentHandlers : Fits(h)
  BY DEF Announcement, BillPaymentHandlers, BillPaymentReceived,
     BillPaymentCreated, BillPaymentConfirmed, BillPaymentFailed,
     BillPaymentCancelled, BillPaymentRefused, Handler
<1>5. \A h \in TedHandlers : Fits(h)
  BY DEF Announcement, TedHandlers, TedCashOutEvent, TedCashOutApproved,
     TedCashOutDone, TedCashOutCanceled, TedCashOutReproved, TedCashOutUndone,
     TedCashInReceived, TedCashInCleared, TedRefundReceived, TedRefundCleared,
     Handler
<1>6. \A h \in Handlers : Fits(h)
  BY <1>2, <1>3, <1>4, <1>5 DEF Handlers
<1>7. HandlerOf(event) \in Handlers /\ HandlerOf(event).event = event
  BY <1>1, HandlerOfEvent
<1> QED BY <1>1, <1>6, <1>7

-----------------------------------------------------------------------------
(* The tables of payments that webhooks create, and the order of the events  *)
(* of a transfer.                                                            *)

InboundTables ==
  {{"PIX_CASH_IN_WAS_RECEIVED", "PIX_CASH_IN_WAS_CLEARED"},
   {"PIX_REFUND_WAS_RECEIVED", "PIX_REFUND_WAS_CLEARED"},
   {"TED_CASH_IN_WAS_RECEIVED", "TED_CASH_IN_WAS_CLEARED"},
   {"TED_REFUND_WAS_RECEIVED", "TED_REFUND_WAS_CLEARED"}}

InboundEvent == UNION InboundTables

\* An inbound payment is created by the event that comes first, with its
\* transaction; its other events look at the log and update the transaction.
LEMMA InboundHandlers ==
  ASSUME NEW event \in InboundEvent
  PROVE  \/ /\ HandlerOf(event).onExisting = "skip"
            /\ HandlerOf(event).tx = "create"
            /\ AllowedPrevious(event) = {}
         \/ /\ HandlerOf(event).onExisting = "guard"
            /\ HandlerOf(event).tx = "update"
            /\ AllowedPrevious(event) # {}
<1>1. event \in WebhookEvent
  BY DEF InboundEvent, InboundTables, WebhookEvent, PixEvent, TedEvent
<1> DEFINE Fits(h) == h.event = event =>
             \/ h.onExisting = "skip" /\ h.tx = "create" /\ AllowedPrevious(event) = {}
             \/ h.onExisting = "guard" /\ h.tx = "update" /\ AllowedPrevious(event) # {}
<1>2. \A h \in PixHandlers : Fits(h)
  <2>1. "PIX_CASH_IN_WAS_RECEIVED" \in AllowedPrevious("PIX_CASH_IN_WAS_CLEARED")
    BY DEF AllowedPrevious, StateMachine, WebhookEvent, PixEvent
  <2>2. "PIX_REFUND_WAS_RECEIVED" \in AllowedPrevious("PIX_REFUND_WAS_CLEARED")
    BY DEF AllowedPrevious, StateMachine, WebhookEvent, PixEvent
  <2>3. /\ AllowedPrevious("PIX_CASH_IN_WAS_RECEIVED") = {}
        /\ AllowedPrevious("PIX_REFUND_WAS_RECEIVED") = {}
    BY DEF AllowedPrevious, StateMachine
  <2> QED
    BY <2>1, <2>2, <2>3 DEF InboundEvent, InboundTables, PixHandlers,
       PixCashInReceived, PixCashInCleared, PixCashOutEvent, PixCashOutCompleted,
       PixCashOutCanceled, PixCashOutUndone, PixRefundReceived, PixRefundCleared,
       PixQrCodeCreated, Handler
<1>3. \A h \in BoletoHandlers : Fits(h)
  BY DEF InboundEvent, InboundTables, BoletoHandlers, BoletoRegistered,
     BoletoCashInReceived, BoletoCashInCleared, BoletoCancelled, Handler
<1>4. \A h \in BillPaymentHandlers : Fits(h)
  BY DEF InboundEvent, InboundTables, BillPaymentHandlers, BillPaymentReceived,
     BillPaymentCreated, BillPaymentConfirmed, BillPaymentFailed,
     BillPaymentCancelled, BillPaymentRefused, Handler
<1>5. \A h \in TedHandlers : Fits(h)
  <2>1. "TED_CASH_IN_WAS_RECEIVED" \in AllowedPrevious("TED_CASH_IN_WAS_CLEARED")
    BY DEF AllowedPrevious, StateMachine, WebhookEvent, TedEvent
  <2>2. "TED_REFUND_WAS_RECEIVED" \in AllowedPrevious("TED_REFUND_WAS_CLEARED")
    BY DEF AllowedPrevious, StateMachine, WebhookEvent, TedEvent
  <2>3. /\ AllowedPrevious("TED_CASH_IN_WAS_RECEIVED") = {}
        /\ AllowedPrevious("TED_REFUND_WAS_RECEIVED") = {}
    BY DEF AllowedPrevious, StateMachine
  <2> QED
    BY <2>1, <2>2, <2>3 DEF InboundEvent, InboundTables, TedHandlers,
       TedCashOutEvent, TedCashOutApproved, TedCashOutDone, TedCashOutCanceled,
       TedCashOutReproved, TedCashOutUndone, TedCashInReceived, TedCashInCleared,
       TedRefundReceived, TedRefundCleared, Handler
<1>6. \A h \in Handlers : Fits(h)
  BY <1>2, <1>3, <1>4, <1>5 DEF Handlers
<1>7. HandlerOf(event) \in Handlers /\ HandlerOf(event).event = event
  BY <1>1, HandlerOfEvent
<1> QED BY <1>6, <1>7

Creating == {"create", "createIfAccount", "createUnlessUnknown"}

\* No other event but that of a QR code makes its handler create a row.
LEMMA OnlyInboundCreated ==
  ASSUME NEW event \in WebhookEvent \ InboundEvent, event # "PIX_QRCODE_WAS_CREATED"
  PROVE  HandlerOf(event).onMissing \notin Creating
<1> DEFINE Fits(h) == h.event = event => h.onMissing \notin Creating
<1> USE DEF Creating, InboundEvent, InboundTables, Handler
<1>1. \A h \in PixHandlers : Fits(h)
  BY DEF PixHandlers, PixCashInReceived, PixCashInCleared, PixCashOutEvent,
     PixCashOutCompleted, PixCashOutCanceled, PixCashOutUndone, PixRefundReceived,
     PixRefundCleared, PixQrCodeCreated
<1>2. \A h \in BoletoHandlers : Fits(h)
  BY DEF BoletoHandlers, BoletoRegistered, BoletoCashInReceived,
     BoletoCashInCleared, BoletoCancelled
<1>3. \A h \in BillPaymentHandlers : Fits(h)
  BY DEF BillPaymentHandlers, BillPaymentReceived, BillPaymentCreated,
     BillPaymentConfirmed, BillPaymentFailed, BillPaymentCancelled,
     BillPaymentRefused
<1>4. \A h \in TedHandlers : Fits(h)
  BY DEF TedHandlers, TedCashOutEvent, TedCashOutApproved, TedCashOutDone,
     TedCashOutCanceled, TedCashOutReproved, TedCashOutUndone, TedCashInReceived,
     TedCashInCleared, TedRefundReceived, TedRefundCleared
<1>5. \A h \in Handlers : Fits(h)
  BY <1>1, <1>2, <1>3, <1>4 DEF Handlers
<1> QED BY <1>5, HandlerOfEvent

TransferEvent == (PixEvent \cup TedEvent) \ {"PIX_QRCODE_WAS_CREATED"}

\* Every handler of a transfer's event looks at the log of an existing row, or
\* leaves it alone.
LEMMA TransfersAreGuarded ==
  ASSUME NEW event \in TransferEvent
  PROVE  HandlerOf(event).onExisting # "overwrite"
<1> DEFINE Fits(h) == h.event = event => h.onExisting # "overwrite"
<1> USE DEF TransferEvent, PixEvent, TedEvent, Handler
<1>1. \A h \in PixHandlers : Fits(h)
  BY DEF PixHandlers, PixCashInReceived, PixCashInCleared, PixCashOutEvent,
     PixCashOutCompleted, PixCashOutCanceled, PixCashOutUndone, PixRefundReceived,
     PixRefundCleared, PixQrCodeCreated
<1>2. \A h \in BoletoHandlers : Fits(h)
  BY DEF BoletoHandlers, BoletoRegistered, BoletoCashInReceived,
     BoletoCashInCleared, BoletoCancelled
<1>3. \A h \in BillPaymentHandlers : Fits(h)
  BY DEF BillPaymentHandlers, BillPaymentReceived, BillPaymentCreated,
     BillPaymentConfirmed, BillPaymentFailed, BillPaymentCancelled,
     BillPaymentRefused
<1>4. \A h \in TedHandlers : Fits(h)
  BY DEF TedHandlers, TedCashOutEvent, TedCashOutApproved, TedCashOutDone,
     TedCashOutCanceled, TedCashOutReproved, TedCashOutUndone, TedCashInReceived,
     TedCashInCleared, TedRefundReceived, TedRefundCleared
<1>5. \A h \in Handlers : Fits(h)
  BY <1>1, <1>2, <1>3, <1>4 DEF Handlers
<1>6. event \in WebhookEvent
  BY DEF WebhookEvent
<1> QED BY <1>5, <1>6, HandlerOfEvent

\* How far along its payment's way an event is.
Stage(event) ==
  IF event = "TED_CASH_OUT_WAS_UNDONE" THEN 3
  ELSE IF event \in {"PIX_CASH_IN_WAS_CLEARED", "PIX_CASHOUT_WAS_UNDONE",
                     "PIX_REFUND_WAS_CLEARED", "TED_CASH_OUT_WAS_DONE",
                     "TED_CASH_OUT_WAS_CANCELED", "TED_CASH_IN_WAS_CLEARED",
                     "TED_REFUND_WAS_CLEARED"} THEN 2
  ELSE 1

\* A transfer only goes on: an event that may follow another is further along.
LEMMA TransfersGoOn ==
  ASSUME NEW event \in TransferEvent, NEW previous \in AllowedPrevious(event)
  PROVE  Stage(previous) < Stage(event)
<1>1. <<previous, event>> \in StateMachine
  BY DEF AllowedPrevious
<1> QED BY <1>1 DEF TransferEvent, PixEvent, TedEvent, StateMachine, Stage

\* What the handler of a QR code does with a row it finds or misses.
LEMMA QrCodeHandler ==
  /\ HandlerOf("PIX_QRCODE_WAS_CREATED").onMissing = "createIfAccount"
  /\ HandlerOf("PIX_QRCODE_WAS_CREATED").onExisting = "overwrite"
<1> DEFINE Fits(h) == h.event = "PIX_QRCODE_WAS_CREATED" =>
             h.onMissing = "createIfAccount" /\ h.onExisting = "overwrite"
<1>1. \A h \in PixHandlers : Fits(h)
  BY DEF PixHandlers, PixCashInReceived, PixCashInCleared, PixCashOutEvent,
     PixCashOutCompleted, PixCashOutCanceled, PixCashOutUndone, PixRefundReceived,
     PixRefundCleared, PixQrCodeCreated, Handler
<1>2. \A h \in BoletoHandlers : Fits(h)
  BY DEF BoletoHandlers, BoletoRegistered, BoletoCashInReceived,
     BoletoCashInCleared, BoletoCancelled, Handler
<1>3. \A h \in BillPaymentHandlers : Fits(h)
  BY DEF BillPaymentHandlers, BillPaymentReceived, BillPaymentCreated,
     BillPaymentConfirmed, BillPaymentFailed, BillPaymentCancelled,
     BillPaymentRefused, Handler
<1>4. \A h \in TedHandlers : Fits(h)
  BY DEF TedHandlers, TedCashOutEvent, TedCashOutApproved, TedCashOutDone,
     TedCashOutCanceled, TedCashOutReproved, TedCashOutUndone, TedCashInReceived,
     TedCashInCleared, TedRefundReceived, TedRefundCleared, Handler
<1>5. \A h \in Handlers : Fits(h)
  BY <1>1, <1>2, <1>3, <1>4 DEF Handlers
<1>6. "PIX_QRCODE_WAS_CREATED" \in WebhookEvent
  BY DEF WebhookEvent, PixEvent
<1> QED BY <1>5, <1>6, HandlerOfEvent
=============================================================================
