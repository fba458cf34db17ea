-------------------------- MODULE BoletoLifecycle --------------------------
(***************************************************************************)
(* One boleto, from its emission to its payment or cancellation            *)
(* (boleto.service.ts, helpers/boleto-sync.helper.ts, and the boleto       *)
(* handlers of the webhook worker).  Four parties write its row:           *)
(* createBoleto, after the provider issued the boleto; cancelBoleto, after *)
(* the provider agreed; the webhook worker; and every GET, which asks the  *)
(* provider and writes what it answers.  A save of an entity puts back     *)
(* every column as the writer read it, however old that copy is.           *)
(*                                                                         *)
(* updateBoleto and processWebhookUpdate have no caller and are left out.  *)
(***************************************************************************)
EXTENDS WebhookHandlers, Naturals

CONSTANTS
  BoletoReader,     \* GET requests under way at the same time
  MaxBoletoFaults   \* bounds lost answers, failed writes and crashes

ASSUME MaxBoletoFaultsAssumption == MaxBoletoFaults \in Nat

VARIABLES
  issuer,        \* status of the boleto at the provider
  issuerHad,     \* every status it has had there
  notices,       \* webhooks sent and not yet done with
  missed,        \* a webhook was dropped, or given up after its attempts
  boleto,        \* the row
  boletoTx,      \* status of the boleto's transaction
  boletoLog,     \* its last processed event
  emission,      \* next step of createBoleto
  cancellation,  \* next step of cancelBoleto, and the entity it holds
  clerk,         \* the webhook worker: its event, next step and entity
  syncs,         \* each GET: its next step and the status it was told
  boletoFaults

boletoVars == <<issuer, issuerHad, notices, missed, boleto, boletoTx, boletoLog,
                emission, cancellation, clerk, syncs, boletoFaults>>

BoletoStatus ==
  {"Failure", "Processing", "Pending", "Approved", "Paid", "Expired", "Cancelled",
   "Overdue", "Registered"}
NoStatus == "none"
NoTransaction == "none"

\* details: the row has what only the provider knows (ourNumber, payments, ...).
Boleto == [status : BoletoStatus \cup {NoStatus}, details : BOOLEAN]
NoBoleto == [status |-> NoStatus, details |-> FALSE]

IdleCancellation == [step |-> "idle", entity |-> NoBoleto]
IdleClerk == [event |-> NoEvent, step |-> "save", entity |-> NoBoleto]
IdleSync == [step |-> "idle", status |-> NoStatus]

BoletoTypeOK ==
  /\ issuer \in BoletoStatus \cup {NoStatus}
  /\ issuerHad \in SUBSET BoletoStatus
  /\ notices \in SUBSET BoletoEvent
  /\ missed \in BOOLEAN
  /\ boleto \in Boleto
  /\ boletoTx \in TransactionStatus \cup {NoTransaction}
  /\ boletoLog \in BoletoEvent \cup {NoEvent}
  /\ emission \in {"idle", "asking", "issued", "over"}
  /\ cancellation \in [step : {"idle", "asking", "agreed", "over"}, entity : Boleto]
  /\ clerk \in [event : BoletoEvent \cup {NoEvent}, step : {"save", "tx", "log"},
                entity : Boleto]
  /\ syncs \in [BoletoReader -> [step : {"idle", "ask", "save", "tx"},
                                 status : BoletoStatus \cup {NoStatus}]]
  /\ boletoFaults \in 0 .. MaxBoletoFaults

BoletoInit ==
  /\ issuer = NoStatus
  /\ issuerHad = {}
  /\ notices = {}
  /\ missed = FALSE
  /\ boleto = NoBoleto
  /\ boletoTx = NoTransaction
  /\ boletoLog = NoEvent
  /\ emission = "idle"
  /\ cancellation = IdleCancellation
  /\ clerk = IdleClerk
  /\ syncs = [r \in BoletoReader |-> IdleSync]
  /\ boletoFaults = 0

-----------------------------------------------------------------------------
(* The provider. *)

\* A status the API does not know is taken for Processing.
ParseBoletoStatus(status) == IF status \in BoletoStatus THEN status ELSE "Processing"

IssuerMove(from, to, announced) == [from |-> from, to |-> to, announced |-> announced]

IssuerMoves ==
  {IssuerMove("Processing", "Registered", {"BOLETO_WAS_REGISTERED"}),
   IssuerMove("Registered", "Overdue", {}),
   IssuerMove("Registered", "Approved", {"BOLETO_CASH_IN_WAS_RECEIVED"}),
   IssuerMove("Overdue", "Approved", {"BOLETO_CASH_IN_WAS_RECEIVED"}),
   IssuerMove("Approved", "Paid", {"BOLETO_CASH_IN_WAS_CLEARED"}),
   IssuerMove("Approved", "Cancelled", {"BOLETO_WAS_CANCELLED"})}

IssuerGoesOn ==
  /\ \E move \in IssuerMoves :
       /\ move.from = issuer
       /\ issuer' = move.to
       /\ issuerHad' = issuerHad \cup {move.to}
       /\ notices' = notices \cup move.announced
  /\ UNCHANGED <<missed, boleto, boletoTx, boletoLog, emission, cancellation, clerk,
                 syncs, boletoFaults>>

-----------------------------------------------------------------------------
(* createBoleto: the provider first, then the row. *)

RequestEmission ==
  /\ emission = "idle"
  /\ emission' = "asking"
  /\ UNCHANGED <<issuer, issuerHad, notices, missed, boleto, boletoTx, boletoLog,
                 cancellation, clerk, syncs, boletoFaults>>

IssueBoleto ==
  /\ emission = "asking"
  /\ emission' = "issued"
  /\ issuer' = "Processing"
  /\ issuerHad' = {"Processing"}
  /\ UNCHANGED <<notices, missed, boleto, boletoTx, boletoLog, cancellation, clerk,
                 syncs, boletoFaults>>

\* A failure here is answered with BOLETO_EMISSION_FAILED and nothing is undone.
SaveEmitted ==
  /\ emission = "issued"
  /\ emission' = "over"
  /\ boleto' = [status |-> ParseBoletoStatus("Processing"), details |-> FALSE]
  /\ UNCHANGED <<issuer, issuerHad, notices, missed, boletoTx, boletoLog,
                 cancellation, clerk, syncs, boletoFaults>>

EmissionFails ==
  /\ \/ emission = "asking" /\ boletoFaults' = boletoFaults
     \/ /\ emission = "issued"
        /\ boletoFaults < MaxBoletoFaults
        /\ boletoFaults' = boletoFaults + 1
  /\ emission' = "over"
  /\ UNCHANGED <<issuer, issuerHad, notices, missed, boleto, boletoTx, boletoLog,
                 cancellation, clerk, syncs>>

-----------------------------------------------------------------------------
(* cancelBoleto. *)

NonCancellableStatuses == {"Paid", "Cancelled"}

RequestCancellation ==
  /\ cancellation.step = "idle"
  /\ boleto # NoBoleto
  /\ boleto.status \notin NonCancellableStatuses
  /\ cancellation' = [step |-> "asking", entity |-> boleto]
  /\ UNCHANGED <<issuer, issuerHad, notices, missed, boleto, boletoTx, boletoLog,
                 emission, clerk, syncs, boletoFaults>>

IssuerAgrees ==
  /\ cancellation.step = "asking"
  /\ issuer \in {"Processing", "Registered", "Overdue"}
  /\ issuer' = "Cancelled"
  /\ issuerHad' = issuerHad \cup {"Cancelled"}
  /\ notices' = notices \cup {"BOLETO_WAS_CANCELLED"}
  /\ cancellation' = [cancellation EXCEPT !.step = "agreed"]
  /\ UNCHANGED <<missed, boleto, boletoTx, boletoLog, emission, clerk, syncs,
                 boletoFaults>>

IssuerDisagreesButSaved ==  \* variant: the row is cancelled whatever the provider says
  /\ cancellation.step = "asking"
  /\ cancellation' = [cancellation EXCEPT !.step = "agreed"]
  /\ UNCHANGED <<issuer, issuerHad, notices, missed, boleto, boletoTx, boletoLog,
                 emission, clerk, syncs, boletoFaults>>

\* The exception passes through the catch block; the row is left alone.
IssuerDisagrees ==
  /\ cancellation.step = "asking"
  /\ cancellation' = [step |-> "over", entity |-> NoBoleto]
  /\ UNCHANGED <<issuer, issuerHad, notices, missed, boleto, boletoTx, boletoLog,
                 emission, clerk, syncs, boletoFaults>>

SaveCancelled ==
  /\ cancellation.step = "agreed"
  /\ boleto' = [cancellation.entity EXCEPT !.status = "Cancelled"]
  /\ cancellation' = [step |-> "over", entity |-> NoBoleto]
  /\ UNCHANGED <<issuer, issuerHad, notices, missed, boletoTx, boletoLog, emission,
                 clerk, syncs, boletoFaults>>

CancellationFails ==
  /\ boletoFaults < MaxBoletoFaults
  /\ boletoFaults' = boletoFaults + 1
  /\ cancellation.step = "agreed"
  /\ cancellation' = [step |-> "over", entity |-> NoBoleto]
  /\ UNCHANGED <<issuer, issuerHad, notices, missed, boleto, boletoTx, boletoLog,
                 emission, clerk, syncs>>

-----------------------------------------------------------------------------
(* The webhook worker: the handlers of boleto-webhook.service.ts. *)

TakeNotice ==
  /\ clerk.event = NoEvent
  /\ boleto # NoBoleto
  /\ \E event \in notices :
       /\ MayFollow(boletoLog, event)
       /\ clerk' = [event |-> event, step |-> "save", entity |-> boleto]
  /\ UNCHANGED <<issuer, issuerHad, notices, missed, boleto, boletoTx, boletoLog,
                 emission, cancellation, syncs, boletoFaults>>

\* An event of an unknown boleto is skipped at once, one out of sequence when
\* its attempts are used up.
MissNotice ==
  /\ clerk.event = NoEvent
  /\ \E event \in notices :
       /\ boleto = NoBoleto \/ ~MayFollow(boletoLog, event)
       /\ notices' = notices \ {event}
  /\ missed' = TRUE
  /\ UNCHANGED <<issuer, issuerHad, boleto, boletoTx, boletoLog, emission,
                 cancellation, clerk, syncs, boletoFaults>>

\* REGISTERED brings ourNumber along; the others put back what they read.
ApplyNotice ==
  /\ clerk.event # NoEvent
  /\ clerk.step = "save"
  /\ boleto' = [status |-> HandlerOf(clerk.event).row,
                details |-> clerk.entity.details \/ clerk.event = "BOLETO_WAS_REGISTERED"]
  /\ clerk' = [clerk EXCEPT !.step = IF HandlerOf(clerk.event).tx = "none"
                                     THEN "log" ELSE "tx"]
  /\ UNCHANGED <<issuer, issuerHad, notices, missed, boletoTx, boletoLog, emission,
                 cancellation, syncs, boletoFaults>>

NoticeTransactionOnlyOnce ==  \* variant: a transaction is never updated
  /\ clerk.event # NoEvent
  /\ clerk.step = "tx"
  /\ boletoTx' = IF boletoTx = NoTransaction THEN MapWebhookEventToTransactionStatus(clerk.event)
                 ELSE boletoTx
  /\ clerk' = [clerk EXCEPT !.step = "log"]
  /\ UNCHANGED <<issuer, issuerHad, notices, missed, boleto, boletoLog, emission,
                 cancellation, syncs, boletoFaults>>

NoticeTransaction ==
  /\ clerk.event # NoEvent
  /\ clerk.step = "tx"
  /\ LET writes == (HandlerOf(clerk.event).tx = "create") <=> (boletoTx = NoTransaction)
     IN  boletoTx' = IF writes THEN MapWebhookEventToTransactionStatus(clerk.event)
                               ELSE boletoTx
  /\ clerk' = [clerk EXCEPT !.step = "log"]
  /\ UNCHANGED <<issuer, issuerHad, notices, missed, boleto, boletoLog, emission,
                 cancellation, syncs, boletoFaults>>

LogNotice ==
  /\ clerk.event # NoEvent
  /\ clerk.step = "log"
  /\ boletoLog' = clerk.event
  /\ notices' = notices \ {clerk.event}
  /\ clerk' = IdleClerk
  /\ UNCHANGED <<issuer, issuerHad, missed, boleto, boletoTx, emission, cancellation,
                 syncs, boletoFaults>>

Clerk == ApplyNotice \/ NoticeTransaction \/ LogNotice

\* A write of the handler fails: the event is retried, or was at its last attempt.
NoticeFails ==
  /\ boletoFaults < MaxBoletoFaults
  /\ boletoFaults' = boletoFaults + 1
  /\ clerk.event # NoEvent
  /\ clerk' = IdleClerk
  /\ \/ UNCHANGED <<notices, missed>>
     \/ notices' = notices \ {clerk.event} /\ missed' = TRUE
  /\ UNCHANGED <<issuer, issuerHad, boleto, boletoTx, boletoLog, emission,
                 cancellation, syncs>>

-----------------------------------------------------------------------------
(* findById with a session: syncBoletoWithProvider. *)

ReadBoleto(r) ==
  /\ syncs[r].step = "idle"
  /\ boleto # NoBoleto
  /\ syncs' = [syncs EXCEPT ![r].step = "ask"]
  /\ UNCHANGED <<issuer, issuerHad, notices, missed, boleto, boletoTx, boletoLog,
                 emission, cancellation, clerk, boletoFaults>>

AskIssuer(r) ==
  /\ syncs[r].step = "ask"
  /\ syncs' = [syncs EXCEPT ![r] = [step |-> "save", status |-> ParseBoletoStatus(issuer)]]
  /\ UNCHANGED <<issuer, issuerHad, notices, missed, boleto, boletoTx, boletoLog,
                 emission, cancellation, clerk, boletoFaults>>

SaveBoletoSyncKeepingDetails(r) ==  \* variant: only the status is synchronised
  /\ syncs[r].step = "save"
  /\ boleto' = [boleto EXCEPT !.status = syncs[r].status]
  /\ syncs' = [syncs EXCEPT ![r] = IF syncs[r].status = "Paid"
                                   THEN [syncs[r] EXCEPT !.step = "tx"] ELSE IdleSync]
  /\ UNCHANGED <<issuer, issuerHad, notices, missed, boletoTx, boletoLog, emission,
                 cancellation, clerk, boletoFaults>>

\* update(): the provider's columns, whatever the row says by now.
SaveBoletoSync(r) ==
  /\ syncs[r].step = "save"
  /\ boleto' = [status |-> syncs[r].status, details |-> TRUE]
  /\ syncs' = [syncs EXCEPT ![r] = IF syncs[r].status = "Paid"
                                   THEN [syncs[r] EXCEPT !.step = "tx"] ELSE IdleSync]
  /\ UNCHANGED <<issuer, issuerHad, notices, missed, boletoTx, boletoLog, emission,
                 cancellation, clerk, boletoFaults>>

\* createTransactionForBoleto: only if there is none yet.
CreateBoletoTransaction(r) ==
  /\ syncs[r].step = "tx"
  /\ boletoTx' = IF boletoTx = NoTransaction THEN "DONE" ELSE boletoTx
  /\ syncs' = [syncs EXCEPT ![r] = IdleSync]
  /\ UNCHANGED <<issuer, issuerHad, notices, missed, boleto, boletoLog, emission,
                 cancellation, clerk, boletoFaults>>

SyncBoleto(r) == AskIssuer(r) \/ SaveBoletoSync(r) \/ CreateBoletoTransaction(r)

\* Every error of a synchronisation is swallowed.
SyncFails(r) ==
  /\ boletoFaults < MaxBoletoFaults
  /\ boletoFaults' = boletoFaults + 1
  /\ syncs[r].step # "idle"
  /\ syncs' = [syncs EXCEPT ![r] = IdleSync]
  /\ UNCHANGED <<issuer, issuerHad, notices, missed, boleto, boletoTx, boletoLog,
                 emission, cancellation, clerk>>

\* The process dies with requests under way; the worker's job is handed out again.
BoletoCrash ==
  /\ boletoFaults < MaxBoletoFaults
  /\ boletoFaults' = boletoFaults + 1
  /\ \/ emission = "issued"
     \/ cancellation.step \in {"asking", "agreed"}
     \/ clerk.event # NoEvent
  /\ emission' = IF emission = "idle" THEN "idle" ELSE "over"
  /\ cancellation' = IF cancellation.step = "idle" THEN cancellation
                     ELSE [step |-> "over", entity |-> NoBoleto]
  /\ clerk' = IdleClerk
  /\ syncs' = [r \in BoletoReader |-> IdleSync]
  /\ UNCHANGED <<issuer, issuerHad, notices, missed, boleto, boletoTx, boletoLog>>

-----------------------------------------------------------------------------
CancelBoleto == RequestCancellation \/ IssuerAgrees \/ IssuerDisagrees \/ SaveCancelled

BoletoNext ==
  \/ IssuerGoesOn
  \/ RequestEmission \/ IssueBoleto \/ SaveEmitted \/ EmissionFails
  \/ CancelBoleto \/ CancellationFails
  \/ TakeNotice \/ MissNotice \/ Clerk \/ NoticeFails
  \/ \E r \in BoletoReader : ReadBoleto(r) \/ SyncBoleto(r) \/ SyncFails(r)
  \/ BoletoCrash

BoletoSpec == BoletoInit /\ [][BoletoNext]_boletoVars

\* What was started in the process goes on; nothing is assumed of anyone else.
BoletoFairness ==
  /\ WF_boletoVars(SaveEmitted \/ SaveCancelled)
  /\ WF_boletoVars(Clerk)
  /\ \A r \in BoletoReader : WF_boletoVars(SyncBoleto(r))

-----------------------------------------------------------------------------
(* Correctness. *)

\* However the four writers interleave, and whatever fails, the row shows a
\* status that the boleto has had at the provider: a stale entity saved by
\* cancelBoleto, a late webhook or a slow GET may take it back, but never to
\* something that did not happen.  In particular it is Cancelled or Paid only
\* if it was cancelled or paid.
BoletoRowWasTrue == boleto.status \in issuerHad \cup {NoStatus}

\* At rest and with no webhook missed, the transaction tells how the boleto ended,
\* whichever of the worker and the GETs wrote it and whatever else failed: a paid
\* boleto has a transaction that is DONE, a cancelled one none or one that is
\* CANCELED.
BoletoAtRest ==
  /\ emission = "over"
  /\ cancellation.step \in {"idle", "over"}
  /\ clerk = IdleClerk
  /\ notices = {}
  /\ \A r \in BoletoReader : syncs[r] = IdleSync
BoletoSettled ==
  BoletoAtRest /\ ~missed =>
    /\ issuer = "Paid" => boletoTx = "DONE"
    /\ issuer = "Cancelled" => boletoTx \in {NoTransaction, "CANCELED"}

\* If clients keep reading the boleto, its row ends up showing for good what the
\* provider says, details that a stale save erased included.
BoletoAgrees == boleto = [status |-> ParseBoletoStatus(issuer), details |-> TRUE]
BoletoReadsCatchUp ==
  []<><<\E r \in BoletoReader : ReadBoleto(r)>>_boletoVars => <>[]BoletoAgrees
=============================================================================
