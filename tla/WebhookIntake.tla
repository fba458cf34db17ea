--------------------------- MODULE WebhookIntake ---------------------------
(***************************************************************************)
(* The provider's webhook requests up to the queues: the guard that looks  *)
(* the public key up, the 27 endpoints of the four webhook controllers,    *)
(* the normaliser of the provider, and enqueueWebhookEvent; then the       *)
(* switch by which a processor picks the handler of a job.                 *)
(*                                                                         *)
(* A webhook's row is saved by the registration job some time after the    *)
(* provider knows the webhook, and deleted some time after the provider    *)
(* forgot it (WebhookRegistration), while requests arrive.                 *)
(*                                                                         *)
(* What the handlers do with an event is WebhookProcessor's; here a job    *)
(* hands its events over and is gone.                                      *)
(***************************************************************************)
EXTENDS WebhookHandlers, Sequences

CONSTANTS
  PublicKey,      \* the keys of the webhooks registered at the provider
  KeyOwner,       \* key -> the client that registered the webhook
  Post,           \* webhook requests
  Posting         \* request -> what it may carry

\* An event of a request: its data carry an authentication code, or not; the
\* envelope has an entity id or a correlation id, or not.
NoCode == ""
Notice == [id : STRING, code : STRING, envelope : STRING]

ASSUME PostAssumption ==
  \A r \in Post : \A p \in Posting[r] :
    /\ p.publicKey \in PublicKey
    /\ p.event \in WebhookEvent
    /\ p.notices \in Seq(Notice) \ {<<>>}

VARIABLES
  keys,       \* the row of each key: not saved yet, saved, or deleted
  posts,      \* progress of each request
  jobs,       \* the jobs in the queues
  handled,    \* events the handlers were given
  displaced   \* <<r, other>>: r's job was refused, the job of other was in the queue

intakeVars == <<keys, posts, jobs, handled, displaced>>

-----------------------------------------------------------------------------
(* The endpoints: queue, the event its documentation names, and the type of *)
(* the job it enqueues.                                                     *)

Route(queue, event, type) == [queue |-> queue, event |-> event, type |-> type]

PixRoutes ==
  {Route("webhook-pix", "PIX_CASH_IN_WAS_RECEIVED", "CASH_IN_RECEIVED"),
   Route("webhook-pix", "PIX_CASH_IN_WAS_CLEARED", "CASH_IN_CLEARED"),
   Route("webhook-pix", "PIX_CASHOUT_WAS_COMPLETED", "CASH_OUT_COMPLETED"),
   Route("webhook-pix", "PIX_CASHOUT_WAS_CANCELED", "CASH_OUT_CANCELED"),
   Route("webhook-pix", "PIX_CASHOUT_WAS_UNDONE", "CASH_OUT_UNDONE"),
   Route("webhook-pix", "PIX_REFUND_WAS_RECEIVED", "REFUND_RECEIVED"),
   Route("webhook-pix", "PIX_REFUND_WAS_CLEARED", "REFUND_CLEARED"),
   Route("webhook-pix", "PIX_QRCODE_WAS_CREATED", "QRCODE_CREATED")}
TedRoutes ==
  {Route("webhook-ted", "TED_CASH_OUT_WAS_APPROVED", "CASH_OUT_APPROVED"),
   Route("webhook-ted", "TED_CASH_OUT_WAS_DONE", "CASH_OUT_DONE"),
   Route("webhook-ted", "TED_CASH_OUT_WAS_CANCELED", "CASH_OUT_CANCELED"),
   Route("webhook-ted", "TED_CASH_OUT_WAS_REPROVED", "CASH_OUT_REPROVED"),
   Route("webhook-ted", "TED_CASH_OUT_WAS_UNDONE", "CASH_OUT_UNDONE"),
   Route("webhook-ted", "TED_CASH_IN_WAS_RECEIVED", "CASH_IN_RECEIVED"),
   Route("webhook-ted", "TED_CASH_IN_WAS_CLEARED", "CASH_IN_CLEARED"),
   Route("webhook-ted", "TED_REFUND_WAS_RECEIVED", "REFUND_RECEIVED"),
   Route("webhook-ted", "TED_REFUND_WAS_CLEARED", "REFUND_CLEARED")}
BoletoRoutes ==
  {Route("webhook-boleto", "BOLETO_WAS_REGISTERED", "REGISTERED"),
   Route("webhook-boleto", "BOLETO_CASH_IN_WAS_RECEIVED", "CASH_IN_RECEIVED"),
   Route("webhook-boleto", "BOLETO_CASH_IN_WAS_CLEARED", "CASH_IN_CLEARED"),
   Route("webhook-boleto", "BOLETO_WAS_CANCELLED", "CANCELLED")}
BillPaymentRoutes ==
  {Route("webhook-bill-payment", "BILL_PAYMENT_WAS_RECEIVED", "RECEIVED"),
   Route("webhook-bill-payment", "BILL_PAYMENT_WAS_CREATED", "CREATED"),
   Route("webhook-bill-payment", "BILL_PAYMENT_WAS_CONFIRMED", "CONFIRMED"),
   Route("webhook-bill-payment", "BILL_PAYMENT_HAS_FAILED", "FAILED"),
   Route("webhook-bill-payment", "BILL_PAYMENT_WAS_CANCELLED", "CANCELLED"),
   Route("webhook-bill-payment", "BILL_PAYMENT_WAS_REFUSED", "REFUSED")}

Routes == PixRoutes \cup TedRoutes \cup BoletoRoutes \cup BillPaymentRoutes
RouteOf(event) == CHOOSE route \in Routes : route.event = event

(* The processors' switches: the handler of each type of job. *)

PixSwitch ==
  [CASH_IN_RECEIVED |-> PixCashInReceived, CASH_IN_CLEARED |-> PixCashInCleared,
   CASH_OUT_COMPLETED |-> PixCashOutCompleted, CASH_OUT_CANCELED |-> PixCashOutCanceled,
   CASH_OUT_UNDONE |-> PixCashOutUndone, REFUND_RECEIVED |-> PixRefundReceived,
   REFUND_CLEARED |-> PixRefundCleared, QRCODE_CREATED |-> PixQrCodeCreated]
TedSwitch ==
  [CASH_OUT_APPROVED |-> TedCashOutApproved, CASH_OUT_DONE |-> TedCashOutDone,
   CASH_OUT_CANCELED |-> TedCashOutCanceled, CASH_OUT_REPROVED |-> TedCashOutReproved,
   CASH_OUT_UNDONE |-> TedCashOutUndone, CASH_IN_RECEIVED |-> TedCashInReceived,
   CASH_IN_CLEARED |-> TedCashInCleared, REFUND_RECEIVED |-> TedRefundReceived,
   REFUND_CLEARED |-> TedRefundCleared]
BoletoSwitch ==
  [REGISTERED |-> BoletoRegistered, CASH_IN_RECEIVED |-> BoletoCashInReceived,
   CASH_IN_CLEARED |-> BoletoCashInCleared, CANCELLED |-> BoletoCancelled]
BillPaymentSwitch ==
  [RECEIVED |-> BillPaymentReceived, CREATED |-> BillPaymentCreated,
   CONFIRMED |-> BillPaymentConfirmed, FAILED |-> BillPaymentFailed,
   CANCELLED |-> BillPaymentCancelled, REFUSED |-> BillPaymentRefused]

SwitchOf(queue) ==
  CASE queue = "webhook-pix"          -> PixSwitch
    [] queue = "webhook-ted"          -> TedSwitch
    [] queue = "webhook-boleto"       -> BoletoSwitch
    [] queue = "webhook-bill-payment" -> BillPaymentSwitch

(* The normalisers: only TED's changes anything. *)

NormalizeTedOverwriting(notice) ==  \* variant: the envelope's id replaces the code
  [notice EXCEPT !.code = IF notice.envelope # NoCode THEN notice.envelope ELSE @]

NormalizeTed(notice) ==
  [notice EXCEPT !.code = IF @ # NoCode THEN @ ELSE notice.envelope]

NormalizeEvents(queue, notices) ==
  IF queue = "webhook-ted"
  THEN [i \in DOMAIN notices |-> NormalizeTed(notices[i])]
  ELSE notices

-----------------------------------------------------------------------------
Job == [queue : {route.queue : route \in Routes}, id : STRING,
        type : {route.type : route \in Routes}, notices : Seq(Notice),
        client : {KeyOwner[k] : k \in PublicKey}, from : Post]

IntakeTypeOK ==
  /\ keys \in [PublicKey -> {"unsaved", "saved", "deleted"}]
  /\ \A r \in Post :
       posts[r].step # "idle" => posts[r].post \in Posting[r]
  /\ jobs \subseteq Job
  /\ \A j, other \in jobs : j.queue = other.queue /\ j.id = other.id => j = other
  /\ displaced \subseteq Post \X Post

IntakeInit ==
  /\ keys = [k \in PublicKey |-> "unsaved"]
  /\ posts = [r \in Post |-> [step |-> "idle"]]
  /\ jobs = {}
  /\ handled = {}
  /\ displaced = {}

SaveKeyRow(k) ==
  /\ keys[k] = "unsaved"
  /\ keys' = [keys EXCEPT ![k] = "saved"]
  /\ UNCHANGED <<posts, jobs, handled, displaced>>

DeleteKeyRow(k) ==
  /\ keys[k] = "saved"
  /\ keys' = [keys EXCEPT ![k] = "deleted"]
  /\ UNCHANGED <<posts, jobs, handled, displaced>>

\* WebhookPublicKeyGuard: an unknown key lets the request through, marked.
CanActivate(r, p) ==
  /\ posts[r].step = "idle"
  /\ posts' = [posts EXCEPT ![r] =
       [step |-> "guarded", post |-> p, validPublicKey |-> keys[p.publicKey] = "saved"]]
  /\ UNCHANGED <<keys, jobs, handled, displaced>>

JobOf(r) ==
  LET p == posts[r].post
      route == RouteOf(p.event)
  IN  [queue |-> route.queue, id |-> p.notices[1].id, type |-> route.type,
       notices |-> NormalizeEvents(route.queue, p.notices),
       client |-> KeyOwner[p.publicKey], from |-> r]

QueuedAnywhere(job) == {j \in jobs : j.id = job.id}  \* variant: ids shared by the queues
Queued(job) == {j \in jobs : j.queue = job.queue /\ j.id = job.id}

\* The endpoint: every request is answered { received: true }.
EnqueueWebhookEvent(r) ==
  /\ posts[r].step = "guarded"
  /\ posts' = [posts EXCEPT ![r].step = "received"]
  /\ LET job == JobOf(r)
         accepted == posts[r].validPublicKey
     IN  /\ jobs' = IF accepted /\ Queued(job) = {} THEN jobs \cup {job} ELSE jobs
         /\ displaced' = IF accepted
                         THEN displaced \cup {<<r, j.from>> : j \in Queued(job)}
                         ELSE displaced
  /\ UNCHANGED <<keys, handled>>

\* The processor hands the events of a job to the handler, and the job is over.
HandleJob(job) ==
  /\ jobs' = jobs \ {job}
  /\ handled' = handled \cup
       {[by |-> SwitchOf(job.queue)[job.type].event, notice |-> job.notices[i],
         client |-> job.client, from |-> job.from] : i \in DOMAIN job.notices}
  /\ UNCHANGED <<keys, posts, displaced>>

IntakeNext ==
  \/ \E k \in PublicKey : SaveKeyRow(k) \/ DeleteKeyRow(k)
  \/ \E r \in Post : EnqueueWebhookEvent(r) \/ \E p \in Posting[r] : CanActivate(r, p)
  \/ \E job \in jobs : HandleJob(job)

IntakeSpec == IntakeInit /\ [][IntakeNext]_intakeVars

-----------------------------------------------------------------------------
(* Correctness. *)

\* A request that found its webhook's row is not lost: each event it was answered
\* for waits in its queue, or was given to the handler of the event its endpoint
\* documents, for the client that owns the key and under the payment's own code
\* (for a TED that came without one, its envelope's id), unless a job of the same
\* queue whose first event is the same one was still there.
HandedOver(r, notice) ==
  \E h \in handled :
    /\ h.from = r
    /\ h.by = posts[r].post.event
    /\ h.client = KeyOwner[posts[r].post.publicKey]
    /\ h.notice.id = notice.id
    /\ IF notice.code = NoCode /\ h.by \in TedEvent THEN h.notice.code = notice.envelope
       ELSE h.notice.code = notice.code

Displaced(r) ==
  \E other \in Post :
    /\ <<r, other>> \in displaced
    /\ RouteOf(posts[other].post.event).queue = RouteOf(posts[r].post.event).queue
    /\ posts[other].post.notices[1].id = posts[r].post.notices[1].id

ReceivedEventsAreHandled ==
  \A r \in Post : posts[r].step = "received" /\ posts[r].validPublicKey =>
    \/ \E j \in jobs : j.from = r
    \/ \A i \in DOMAIN posts[r].post.notices : HandedOver(r, posts[r].post.notices[i])
    \/ Displaced(r)
=============================================================================
