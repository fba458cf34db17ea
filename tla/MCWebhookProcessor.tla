------------------------- MODULE MCWebhookProcessor -------------------------
(***************************************************************************)
(* Instances of WebhookProcessor for TLC.  Payments of different kinds     *)
(* share nothing but the worker, so each behaviour looks at one scenario,  *)
(* chosen at the start: the payments of one kind and every event the       *)
(* provider can send about them.                                           *)
(***************************************************************************)
EXTENDS WebhookProcessor

CONSTANT Scenarios  \* the scenarios of the run

VARIABLE scenario

Request(key, event, codes) ==
  [key |-> key, event |-> event, codes |-> codes, coded |-> TRUE]

AllRequests == [
  \* A PIX cash-in paid with a QR code the API issued, and its refund.
  pixInbound |->
    {Request("k1", "PIX_CASH_IN_WAS_RECEIVED", <<"cashin">>),
     Request("k2", "PIX_CASH_IN_WAS_CLEARED", <<"cashin">>),
     Request("k3", "PIX_REFUND_WAS_RECEIVED", <<"refund">>),
     Request("k4", "PIX_REFUND_WAS_CLEARED", <<"refund">>),
     Request("k5", "PIX_QRCODE_WAS_CREATED", <<"qrcode">>)},
  \* TED cash-ins delivered in one batch, one of them again on its own.
  tedInbound |->
    {Request("k1", "TED_CASH_IN_WAS_RECEIVED", <<"tedin", "tedin2">>),
     Request("k2", "TED_CASH_IN_WAS_CLEARED", <<"tedin", "tedin2">>),
     Request("k3", "TED_CASH_IN_WAS_RECEIVED", <<"tedin2">>)},
  tedRefund |->
    {Request("k1", "TED_REFUND_WAS_RECEIVED", <<"tedrefund">>),
     Request("k2", "TED_REFUND_WAS_CLEARED", <<"tedrefund">>)},
  \* Transfers the API makes.
  tedOutgoing |->
    {Request("k1", "TED_CASH_OUT_WAS_APPROVED", <<"tedout">>),
     Request("k2", "TED_CASH_OUT_WAS_DONE", <<"tedout">>),
     Request("k3", "TED_CASH_OUT_WAS_CANCELED", <<"tedout">>),
     Request("k4", "TED_CASH_OUT_WAS_UNDONE", <<"tedout">>),
     Request("k5", "TED_CASH_OUT_WAS_REPROVED", <<"tedout">>)},
  pixOutgoing |->
    {Request("k1", "PIX_CASHOUT_WAS_COMPLETED", <<"pixout", "pixout2">>),
     Request("k2", "PIX_CASHOUT_WAS_CANCELED", <<"pixout">>),
     Request("k3", "PIX_CASHOUT_WAS_UNDONE", <<"pixout">>)},
  \* A boleto, issued by the API without a transaction.
  boleto |->
    {Request("k1", "BOLETO_WAS_REGISTERED", <<"boleto">>),
     Request("k2", "BOLETO_CASH_IN_WAS_RECEIVED", <<"boleto">>),
     Request("k3", "BOLETO_CASH_IN_WAS_CLEARED", <<"boleto">>),
     Request("k4", "BOLETO_WAS_CANCELLED", <<"boleto">>)},
  \* A bill payment, issued by the API with a transaction.
  bill |->
    {Request("k1", "BILL_PAYMENT_WAS_RECEIVED", <<"bill">>),
     Request("k2", "BILL_PAYMENT_WAS_CREATED", <<"bill">>),
     Request("k3", "BILL_PAYMENT_WAS_CONFIRMED", <<"bill">>),
     Request("k4", "BILL_PAYMENT_HAS_FAILED", <<"bill">>),
     Request("k5", "BILL_PAYMENT_WAS_CANCELLED", <<"bill">>),
     Request("k6", "BILL_PAYMENT_WAS_REFUSED", <<"bill">>)},
  \* A cash-in whose second event carries its code in the envelope only.
  uncoded |->
    {Request("k1", "PIX_CASH_IN_WAS_RECEIVED", <<"pixin">>),
     [Request("k2", "PIX_CASH_IN_WAS_CLEARED", <<"pixin">>) EXCEPT !.coded = FALSE]}]

MCDeliveries == UNION {AllRequests[s] : s \in Scenarios}

MCCode ==
  {d.codes[i] : d \in {r \in MCDeliveries : Len(r.codes) = 1}, i \in {1}}
    \cup UNION {{d.codes[1], d.codes[2]} : d \in {r \in MCDeliveries : Len(r.codes) = 2}}

Without(value) == [c \in Code |-> value]
MCRelatedTo == [c \in Code |-> IF c = "refund" THEN "cashin" ELSE NoCode]
MCQrCodeOf == [c \in Code |-> IF c = "cashin" THEN "qrcode" ELSE NoCode]
MCIssuedRow == [c \in Code |->
  CASE c \in {"tedout", "pixout", "pixout2", "qrcode"} -> "CREATED"
    [] c = "boleto" -> "Pending"
    [] c = "bill" -> "Created"
    [] OTHER -> NoRow]
MCIssuedTx == Code \cap {"tedout", "pixout", "pixout2", "bill"}
MCUnnumbered == Code \cap {"refund"}
MCKnownAtStart == Code \ {"cashin"}

CodesOf ==
  [s \in Scenarios |->
    {c \in Code : \E d \in AllRequests[s] : \E i \in DOMAIN d.codes : d.codes[i] = c}]

MCInit == Init /\ scenario \in Scenarios

\* Next, with requests, API calls and purges about the scenario's payments.
MCNext ==
  /\ UNCHANGED scenario
  /\ \/ \E d \in AllRequests[scenario] : Deliver(d)
     \/ \E k \in JobId : TakeJob(k) \/ RecoverStalled(k) \/ RetryLater(k)
     \/ Work
     \/ DatabaseFault
     \/ Crash
     \/ \E c \in CodesOf[scenario] : \/ IssueRow(c) \/ IssueTransaction(c)
                                   \/ RegisterAccount(c) \/ PurgeOldLogs(c)

mcVars == <<vars, scenario>>

MCSpec == MCInit /\ [][MCNext]_mcVars

MCFairSpec == MCSpec /\ Fairness
=============================================================================
