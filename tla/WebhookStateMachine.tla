------------------------ MODULE WebhookStateMachine ------------------------
(***************************************************************************)
(* The table of webhook events and the sequence check every handler runs   *)
(* before it touches a payment: which event may come after which, and      *)
(* which events end a payment                                              *)
(* (helpers/webhook-state-machine.helper.ts, enums/webhook-event.enum.ts). *)
(***************************************************************************)

PixEvent ==
  {"PIX_CASH_IN_WAS_RECEIVED", "PIX_CASH_IN_WAS_CLEARED",
   "PIX_CASHOUT_WAS_COMPLETED", "PIX_CASHOUT_WAS_CANCELED",
   "PIX_CASHOUT_WAS_UNDONE",
   "PIX_REFUND_WAS_RECEIVED", "PIX_REFUND_WAS_CLEARED",
   "PIX_QRCODE_WAS_CREATED"}

BoletoEvent ==
  {"BOLETO_WAS_REGISTERED", "BOLETO_CASH_IN_WAS_RECEIVED",
   "BOLETO_CASH_IN_WAS_CLEARED", "BOLETO_WAS_CANCELLED"}

BillPaymentEvent ==
  {"BILL_PAYMENT_WAS_RECEIVED", "BILL_PAYMENT_WAS_CREATED",
   "BILL_PAYMENT_WAS_CONFIRMED", "BILL_PAYMENT_HAS_FAILED",
   "BILL_PAYMENT_WAS_CANCELLED", "BILL_PAYMENT_WAS_REFUSED"}

TedEvent ==
  {"TED_CASH_OUT_WAS_APPROVED", "TED_CASH_OUT_WAS_DONE",
   "TED_CASH_OUT_WAS_CANCELED", "TED_CASH_OUT_WAS_REPROVED",
   "TED_CASH_OUT_WAS_UNDONE",
   "TED_CASH_IN_WAS_RECEIVED", "TED_CASH_IN_WAS_CLEARED",
   "TED_REFUND_WAS_RECEIVED", "TED_REFUND_WAS_CLEARED"}

WebhookEvent == PixEvent \cup BoletoEvent \cup BillPaymentEvent \cup TedEvent

\* "No event was processed yet": what getLastProcessedEvent returns as null.
NoEvent == "none"

(***************************************************************************)
(* STATE_MACHINE as a relation: <<previous, event>> is in it when previous *)
(* is in the allowedPrevious of event.  An event that is the second        *)
(* component of no pair has an empty allowedPrevious: it can only come     *)
(* first.                                                                  *)
(***************************************************************************)
StateMachine ==
  {<<"PIX_CASH_IN_WAS_RECEIVED", "PIX_CASH_IN_WAS_CLEARED">>,
   <<"PIX_CASHOUT_WAS_CANCELED", "PIX_CASHOUT_WAS_UNDONE">>,
   <<"PIX_REFUND_WAS_RECEIVED", "PIX_REFUND_WAS_CLEARED">>,
   <<"BOLETO_WAS_REGISTERED", "BOLETO_CASH_IN_WAS_RECEIVED">>,
   <<"BOLETO_CASH_IN_WAS_RECEIVED", "BOLETO_CASH_IN_WAS_CLEARED">>,
   <<"BOLETO_WAS_REGISTERED", "BOLETO_WAS_CANCELLED">>,
   <<"BOLETO_CASH_IN_WAS_RECEIVED", "BOLETO_WAS_CANCELLED">>,
   <<"BILL_PAYMENT_WAS_RECEIVED", "BILL_PAYMENT_WAS_CREATED">>,
   <<"BILL_PAYMENT_WAS_CREATED", "BILL_PAYMENT_WAS_CONFIRMED">>,
   <<"BILL_PAYMENT_WAS_RECEIVED", "BILL_PAYMENT_HAS_FAILED">>,
   <<"BILL_PAYMENT_WAS_CREATED", "BILL_PAYMENT_HAS_FAILED">>,
   <<"BILL_PAYMENT_HAS_FAILED", "BILL_PAYMENT_WAS_CANCELLED">>,
   <<"BILL_PAYMENT_WAS_CONFIRMED", "BILL_PAYMENT_WAS_REFUSED">>,
   <<"TED_CASH_OUT_WAS_APPROVED", "TED_CASH_OUT_WAS_DONE">>,
   <<"TED_CASH_OUT_WAS_APPROVED", "TED_CASH_OUT_WAS_CANCELED">>,
   <<"TED_CASH_OUT_WAS_CANCELED", "TED_CASH_OUT_WAS_UNDONE">>,
   <<"TED_CASH_IN_WAS_RECEIVED", "TED_CASH_IN_WAS_CLEARED">>,
   <<"TED_REFUND_WAS_RECEIVED", "TED_REFUND_WAS_CLEARED">>}

AllowedPrevious(event) == {p \in WebhookEvent : <<p, event>> \in StateMachine}

TERMINAL_EVENTS ==
  {"PIX_CASH_IN_WAS_CLEARED", "PIX_CASHOUT_WAS_COMPLETED",
   "PIX_CASHOUT_WAS_UNDONE", "PIX_REFUND_WAS_CLEARED",
   "PIX_QRCODE_WAS_CREATED",
   "BOLETO_CASH_IN_WAS_CLEARED", "BOLETO_WAS_CANCELLED",
   "BILL_PAYMENT_WAS_CANCELLED", "BILL_PAYMENT_WAS_REFUSED",
   "TED_CASH_OUT_WAS_DONE", "TED_CASH_OUT_WAS_REPROVED",
   "TED_CASH_OUT_WAS_UNDONE", "TED_CASH_IN_WAS_CLEARED",
   "TED_REFUND_WAS_CLEARED"}

IsTerminalEvent(event) == event \in TERMINAL_EVENTS

\* canProcessWebhook: an event outside the table passes; otherwise it is an
\* initial event with nothing processed before, or the current event is not
\* terminal and the table lists it as a predecessor.
CanProcessWebhook(current, event) ==
  \/ event \notin WebhookEvent
  \/ /\ current = NoEvent
     /\ AllowedPrevious(event) = {}
  \/ /\ current # NoEvent
     /\ ~IsTerminalEvent(current)
     /\ current \in AllowedPrevious(event)

(***************************************************************************)
(* mapWebhookEventToTransactionStatus: the status of the client-visible    *)
(* transaction after an event.  PENDING is the default branch.             *)
(***************************************************************************)
TransactionStatus ==
  {"CREATED", "PENDING", "IN_PROCESS", "DONE", "CANCELED", "UNDONE", "REPROVED",
   "FAILED", "REFUND_PENDING", "REFUNDED"}

MapWebhookEventToTransactionStatus(event) ==
  CASE event \in {"PIX_CASH_IN_WAS_RECEIVED", "BOLETO_CASH_IN_WAS_RECEIVED",
                  "BILL_PAYMENT_WAS_RECEIVED", "BILL_PAYMENT_WAS_CREATED",
                  "TED_CASH_OUT_WAS_APPROVED", "TED_CASH_IN_WAS_RECEIVED"}
         -> "IN_PROCESS"
    [] event \in {"PIX_CASH_IN_WAS_CLEARED", "PIX_CASHOUT_WAS_COMPLETED",
                  "BOLETO_CASH_IN_WAS_CLEARED", "BILL_PAYMENT_WAS_CONFIRMED",
                  "TED_CASH_OUT_WAS_DONE", "TED_CASH_IN_WAS_CLEARED"}
         -> "DONE"
    [] event \in {"PIX_CASHOUT_WAS_CANCELED", "BOLETO_WAS_CANCELLED",
                  "BILL_PAYMENT_WAS_CANCELLED", "TED_CASH_OUT_WAS_CANCELED"}
         -> "CANCELED"
    [] event \in {"PIX_CASHOUT_WAS_UNDONE", "TED_CASH_OUT_WAS_UNDONE"}
         -> "UNDONE"
    [] event = "TED_CASH_OUT_WAS_REPROVED" -> "REPROVED"
    [] event \in {"BILL_PAYMENT_HAS_FAILED", "BILL_PAYMENT_WAS_REFUSED"}
         -> "FAILED"
    [] event \in {"PIX_REFUND_WAS_RECEIVED", "TED_REFUND_WAS_RECEIVED"}
         -> "REFUND_PENDING"
    [] event \in {"PIX_REFUND_WAS_CLEARED", "TED_REFUND_WAS_CLEARED"}
         -> "REFUNDED"
    [] OTHER -> "PENDING"
=============================================================================
