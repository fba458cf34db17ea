----------------------- MODULE BoletoLifecycle_proofs -----------------------
(***************************************************************************)
(* Proofs about BoletoLifecycle, for any number of readers and of faults:  *)
(* its state is well-formed, the row only ever shows a status that the     *)
(* boleto has had at the provider, and once all is quiet the transaction   *)
(* tells how the boleto ended.                                             *)
(*                                                                         *)
(* The row is written from copies: what a webhook announces, what a GET    *)
(* was told, the agreement cancelBoleto waited for. The first invariant    *)
(* follows the truth through them: whatever a party is about to write had  *)
(* been the case at the provider when it was told, and the provider's      *)
(* history only grows. The second one follows the news of the end: it is a *)
(* webhook still to be handled or it is in the log, the transaction is     *)
(* written before the log, and nothing written later takes it back.        *)
(***************************************************************************)
EXTENDS BoletoLifecycle, WebhookHandlers_proofs

HistoryOK ==
  /\ issuer # NoStatus => issuer \in issuerHad /\ "Processing" \in issuerHad
  /\ issuerHad # {} => issuer # NoStatus
  /\ emission \in {"idle", "asking"} => issuer = NoStatus
  /\ emission = "issued" => issuer # NoStatus

RowOK == boleto # NoBoleto => boleto.status \in issuerHad
CancellationOK == cancellation.step = "agreed" => "Cancelled" \in issuerHad
NoticesOK == \A event \in notices : HandlerOf(event).row \in issuerHad
ClerkOK == clerk.event # NoEvent => HandlerOf(clerk.event).row \in issuerHad
SyncsOK ==
  \A r \in BoletoReader :
    /\ syncs[r].step = "ask" => issuer # NoStatus
    /\ syncs[r].step \in {"save", "tx"} => syncs[r].status \in issuerHad

BoletoInv ==
  /\ BoletoTypeOK
  /\ HistoryOK
  /\ RowOK
  /\ CancellationOK
  /\ NoticesOK
  /\ ClerkOK
  /\ SyncsOK

-----------------------------------------------------------------------------
\* The boleto webhooks, each with the row status it announces.
BoletoAnnouncement ==
  {<<"BOLETO_WAS_REGISTERED", "Registered">>,
   <<"BOLETO_CASH_IN_WAS_RECEIVED", "Processing">>,
   <<"BOLETO_CASH_IN_WAS_CLEARED", "Paid">>,
   <<"BOLETO_WAS_CANCELLED", "Cancelled">>}

LEMMA BoletoRows ==
  ASSUME NEW event \in BoletoEvent
  PROVE  <<event, HandlerOf(event).row>> \in BoletoAnnouncement
<1> DEFINE Fits(h) == h.event = event => <<event, h.row>> \in BoletoAnnouncement
<1>1. \A h \in PixHandlers : Fits(h)
  BY DEF BoletoEvent, PixHandlers, PixCashInReceived, PixCashInCleared,
     PixCashOutEvent, PixCashOutCompleted, PixCashOutCanceled, PixCashOutUndone,
     PixRefundReceived, PixRefundCleared, PixQrCodeCreated, Handler
<1>2. \A h \in BoletoHandlers : Fits(h)
  BY DEF BoletoAnnouncement, BoletoHandlers, BoletoRegistered,
     BoletoCashInReceived, BoletoCashInCleared, BoletoCancelled, Handler
<1>3. \A h \in BillPaymentHandlers : Fits(h)
  BY DEF BoletoEvent, BillPaymentHandlers, BillPaymentReceived,
     BillPaymentCreated, BillPaymentConfirmed, BillPaymentFailed,
     BillPaymentCancelled, BillPaymentRefused, Handler
<1>4. \A h \in TedHandlers : Fits(h)
  BY DEF BoletoEvent, TedHandlers, TedCashOutEvent, TedCashOutApproved,
     TedCashOutDone, TedCashOutCanceled, TedCashOutReproved, TedCashOutUndone,
     TedCashInReceived, TedCashInCleared, TedRefundReceived, TedRefundCleared,
     Handler
<1>5. \A h \in Handlers : Fits(h)
  BY <1>1, <1>2, <1>3, <1>4 DEF Handlers
<1>6. HandlerOf(event) \in Handlers /\ HandlerOf(event).event = event
  BY HandlerOfEvent DEF WebhookEvent
<1> QED
  BY <1>5, <1>6

LEMMA BoletoRowStatus ==
  ASSUME NEW event \in BoletoEvent
  PROVE  HandlerOf(event).row \in BoletoStatus
BY BoletoRows DEF BoletoAnnouncement, BoletoStatus

LEMMA BoletoInitInv == BoletoInit => BoletoInv
<1> SUFFICES ASSUME BoletoInit PROVE BoletoInv
  OBVIOUS
<1>1. BoletoTypeOK
  <2>1. NoBoleto \in Boleto
    BY DEF NoBoleto, Boleto
  <2>2. syncs \in [BoletoReader -> [step : {"idle", "ask", "save", "tx"},
                                   status : BoletoStatus \cup {NoStatus}]]
    BY DEF BoletoInit, IdleSync
  <2>3. clerk \in [event : BoletoEvent \cup {NoEvent}, step : {"save", "tx", "log"},
                  entity : Boleto]
    BY <2>1 DEF BoletoInit, IdleClerk
  <2>4. cancellation \in [step : {"idle", "asking", "agreed", "over"}, entity : Boleto]
    BY <2>1 DEF BoletoInit, IdleCancellation
  <2>5. boletoFaults \in 0 .. MaxBoletoFaults
    BY MaxBoletoFaultsAssumption DEF BoletoInit
  <2>6. /\ issuer = NoStatus /\ issuerHad = {} /\ notices = {} /\ missed = FALSE
        /\ boleto = NoBoleto /\ boletoTx = NoTransaction /\ boletoLog = NoEvent
        /\ emission = "idle"
    BY DEF BoletoInit
  <2> QED
    BY <2>1, <2>2, <2>3, <2>4, <2>5, <2>6 DEF BoletoTypeOK
<1>2. HistoryOK /\ RowOK /\ CancellationOK /\ NoticesOK
  BY DEF BoletoInit, HistoryOK, RowOK, CancellationOK, NoticesOK, IdleCancellation
<1>3. ClerkOK
  BY DEF BoletoInit, ClerkOK, IdleClerk
<1>4. SyncsOK
  BY DEF BoletoInit, SyncsOK, IdleSync
<1> QED
  BY <1>1, <1>2, <1>3, <1>4 DEF BoletoInv

-----------------------------------------------------------------------------
\* The provider's history grows; a notice it sends tells the truth.
LEMMA IssuerKeepsInv ==
  ASSUME BoletoInv, IssuerGoesOn \/ IssueBoleto \/ IssuerAgrees
  PROVE  BoletoInv'
<1>1. /\ issuerHad \subseteq issuerHad'
      /\ issuer' \in BoletoStatus /\ issuer' \in issuerHad'
      /\ "Processing" \in issuerHad' /\ issuerHad' \subseteq BoletoStatus
      /\ emission' \in {"issued", "over"}
  <2>1. CASE IssuerGoesOn
    <3>1. PICK move \in IssuerMoves : /\ move.from = issuer
                                      /\ issuer' = move.to
                                      /\ issuerHad' = issuerHad \cup {move.to}
      BY <2>1 DEF IssuerGoesOn
    <3>2. move.from \in BoletoStatus /\ move.to \in BoletoStatus
      BY DEF IssuerMoves, IssuerMove, BoletoStatus
    <3>3. issuer # NoStatus
      BY <3>1, <3>2 DEF BoletoStatus, NoStatus
    <3> QED
      BY <2>1, <3>1, <3>2, <3>3 DEF IssuerGoesOn, BoletoInv, BoletoTypeOK, HistoryOK
  <2>2. CASE IssueBoleto
    BY <2>2 DEF IssueBoleto, BoletoInv, HistoryOK, BoletoStatus
  <2>3. CASE IssuerAgrees
    BY <2>3 DEF IssuerAgrees, BoletoInv, BoletoTypeOK, HistoryOK, BoletoStatus, NoStatus
  <2> QED
    BY <2>1, <2>2, <2>3
<1>2. \A event \in notices' :
        event \in BoletoEvent /\ (event \in notices \/ HandlerOf(event).row \in issuerHad')
  <2>1. CASE IssuerGoesOn
    <3>1. PICK move \in IssuerMoves : /\ move.from = issuer
                                      /\ issuer' = move.to
                                      /\ issuerHad' = issuerHad \cup {move.to}
                                      /\ notices' = notices \cup move.announced
      BY <2>1 DEF IssuerGoesOn
    <3>2. \A event \in move.announced :
            /\ event \in BoletoEvent
            /\ \A row : <<event, row>> \in BoletoAnnouncement =>
                          row \in {move.to, "Processing"}
      BY <3>1 DEF IssuerMoves, IssuerMove, BoletoAnnouncement, BoletoEvent
    <3>3. \A event \in move.announced : HandlerOf(event).row \in issuerHad'
      BY <1>1, <3>1, <3>2, BoletoRows
    <3> QED
      BY <3>1, <3>2, <3>3 DEF BoletoInv, BoletoTypeOK
  <2>2. CASE IssueBoleto
    BY <2>2 DEF IssueBoleto, BoletoInv, BoletoTypeOK
  <2>3. CASE IssuerAgrees
    <3>1. HandlerOf("BOLETO_WAS_CANCELLED").row = "Cancelled"
      BY BoletoRows DEF BoletoAnnouncement, BoletoEvent
    <3> QED
      BY <2>3, <3>1 DEF IssuerAgrees, BoletoInv, BoletoTypeOK, BoletoEvent
  <2> QED
    BY <2>1, <2>2, <2>3
<1>3. /\ UNCHANGED <<missed, boleto, boletoTx, boletoLog, clerk, syncs, boletoFaults>>
      /\ \/ cancellation' = cancellation
         \/ /\ cancellation' = [cancellation EXCEPT !.step = "agreed"]
            /\ "Cancelled" \in issuerHad'
  BY DEF IssuerGoesOn, IssueBoleto, IssuerAgrees
<1>4. BoletoTypeOK'
  <2>1. cancellation' \in [step : {"idle", "asking", "agreed", "over"}, entity : Boleto]
    BY <1>3 DEF BoletoInv, BoletoTypeOK
  <2> QED
    BY <1>1, <1>2, <1>3, <2>1 DEF BoletoInv, BoletoTypeOK
<1>5. HistoryOK'
  BY <1>1 DEF HistoryOK, BoletoStatus, NoStatus
<1>6. RowOK' /\ NoticesOK' /\ ClerkOK'
  BY <1>1, <1>2, <1>3 DEF BoletoInv, RowOK, NoticesOK, ClerkOK
<1>7. CancellationOK'
  BY <1>1, <1>3 DEF BoletoInv, CancellationOK
<1>8. SyncsOK'
  BY <1>1, <1>3 DEF BoletoInv, SyncsOK, BoletoStatus, NoStatus
<1> QED
  BY <1>4, <1>5, <1>6, <1>7, <1>8 DEF BoletoInv

\* The API's own requests.
LEMMA RequestKeepsInv ==
  ASSUME BoletoInv,
         \/ RequestEmission \/ SaveEmitted \/ EmissionFails
         \/ RequestCancellation \/ IssuerDisagrees \/ SaveCancelled \/ CancellationFails
  PROVE  BoletoInv'
<1>1. /\ UNCHANGED <<issuer, issuerHad, notices, missed, boletoTx, boletoLog, clerk, syncs>>
      /\ boletoFaults' \in {boletoFaults, boletoFaults + 1}
      /\ boletoFaults' = boletoFaults \/ boletoFaults < MaxBoletoFaults
  BY DEF RequestEmission, SaveEmitted, EmissionFails, RequestCancellation,
         IssuerDisagrees, SaveCancelled, CancellationFails
<1>2. boletoFaults' \in 0 .. MaxBoletoFaults
  BY <1>1, MaxBoletoFaultsAssumption DEF BoletoInv, BoletoTypeOK
<1>3. /\ emission' \in {"idle", "asking", "issued", "over"}
      /\ emission' \in {"idle", "asking"} => emission \in {"idle", "asking"}
      /\ emission' = "issued" => emission = "issued"
  BY DEF BoletoInv, BoletoTypeOK, RequestEmission, SaveEmitted, EmissionFails,
         RequestCancellation, IssuerDisagrees, SaveCancelled, CancellationFails
<1>4. \/ boleto' = boleto
      \/ boleto' \in Boleto /\ boleto'.status \in issuerHad
  <2>1. CASE SaveEmitted
    BY <2>1 DEF SaveEmitted, BoletoInv, HistoryOK, Boleto, ParseBoletoStatus,
         BoletoStatus
  <2>2. CASE SaveCancelled
    <3>1. cancellation.entity \in Boleto /\ "Cancelled" \in issuerHad
      BY <2>2 DEF SaveCancelled, BoletoInv, BoletoTypeOK, CancellationOK
    <3> QED
      BY <2>2, <3>1 DEF SaveCancelled, Boleto, BoletoStatus
  <2> QED
    BY <2>1, <2>2 DEF RequestEmission, EmissionFails, RequestCancellation,
         IssuerDisagrees, CancellationFails
<1>5. /\ cancellation' \in [step : {"idle", "asking", "agreed", "over"}, entity : Boleto]
      /\ cancellation'.step = "agreed" => cancellation.step = "agreed"
  <2>1. NoBoleto \in Boleto /\ boleto \in Boleto
    BY DEF NoBoleto, Boleto, BoletoInv, BoletoTypeOK
  <2>2. \/ cancellation' = cancellation
        \/ cancellation' = [step |-> "asking", entity |-> boleto]
        \/ cancellation' = [step |-> "over", entity |-> NoBoleto]
    BY DEF RequestEmission, SaveEmitted, EmissionFails, RequestCancellation,
           IssuerDisagrees, SaveCancelled, CancellationFails
  <2> QED
    BY <2>1, <2>2 DEF BoletoInv, BoletoTypeOK
<1>6. BoletoTypeOK'
  BY <1>1, <1>2, <1>3, <1>4, <1>5 DEF BoletoInv, BoletoTypeOK
<1>7. HistoryOK'
  BY <1>1, <1>3 DEF BoletoInv, HistoryOK
<1>8. RowOK' /\ CancellationOK'
  BY <1>1, <1>4, <1>5 DEF BoletoInv, RowOK, CancellationOK
<1>9. NoticesOK' /\ ClerkOK' /\ SyncsOK'
  BY <1>1 DEF BoletoInv, NoticesOK, ClerkOK, SyncsOK
<1> QED
  BY <1>6, <1>7, <1>8, <1>9 DEF BoletoInv

\* The webhook worker.
LEMMA ClerkKeepsInv ==
  ASSUME BoletoInv, TakeNotice \/ MissNotice \/ Clerk \/ NoticeFails
  PROVE  BoletoInv'
<1>1. /\ UNCHANGED <<issuer, issuerHad, emission, cancellation, syncs>>
      /\ boletoFaults' \in {boletoFaults, boletoFaults + 1}
      /\ boletoFaults' = boletoFaults \/ boletoFaults < MaxBoletoFaults
      /\ notices' \subseteq notices
  BY DEF TakeNotice, MissNotice, Clerk, ApplyNotice, NoticeTransaction, LogNotice,
         NoticeFails
<1>2. boletoFaults' \in 0 .. MaxBoletoFaults
  BY <1>1, MaxBoletoFaultsAssumption DEF BoletoInv, BoletoTypeOK
<1>3. /\ \/ clerk'.event = NoEvent
         \/ clerk'.event \in BoletoEvent /\ HandlerOf(clerk'.event).row \in issuerHad
      /\ clerk' \in [event : BoletoEvent \cup {NoEvent}, step : {"save", "tx", "log"},
                     entity : Boleto]
  <2>1. CASE TakeNotice
    <3>1. PICK event \in notices :
            clerk' = [event |-> event, step |-> "save", entity |-> boleto]
      BY <2>1 DEF TakeNotice
    <3>2. HandlerOf(event).row \in issuerHad /\ event \in BoletoEvent /\ boleto \in Boleto
      BY DEF BoletoInv, NoticesOK, BoletoTypeOK
    <3> QED
      BY <3>1, <3>2
  <2>2. CASE clerk' = IdleClerk
    BY <2>2 DEF IdleClerk, NoBoleto, Boleto
  <2>3. CASE \/ clerk' = clerk
             \/ clerk' = [clerk EXCEPT !.step = "tx"]
             \/ clerk' = [clerk EXCEPT !.step = "log"]
    BY <2>3 DEF BoletoInv, BoletoTypeOK, ClerkOK
  <2> QED
    BY <2>1, <2>2, <2>3 DEF MissNotice, Clerk, ApplyNotice, NoticeTransaction,
         LogNotice, NoticeFails
<1>4. \/ boleto' = boleto
      \/ boleto' \in Boleto /\ boleto'.status \in issuerHad
  <2>1. CASE ApplyNotice
    <3>1. clerk.event \in BoletoEvent /\ clerk.entity \in Boleto
      BY <2>1 DEF ApplyNotice, BoletoInv, BoletoTypeOK
    <3>2. HandlerOf(clerk.event).row \in issuerHad
      BY <2>1 DEF ApplyNotice, BoletoInv, ClerkOK
    <3>3. HandlerOf(clerk.event).row \in BoletoStatus
      BY <3>1, BoletoRowStatus
    <3> DEFINE shown == HandlerOf(clerk.event).row
               known == clerk.entity.details \/ clerk.event = "BOLETO_WAS_REGISTERED"
    <3>4. boleto' = [status |-> shown, details |-> known]
      BY <2>1 DEF ApplyNotice
    <3>5. known \in BOOLEAN
      OBVIOUS
    <3> HIDE DEF shown, known
    <3>6. boleto' \in Boleto /\ boleto'.status = shown
      BY <3>3, <3>4, <3>5 DEF Boleto, shown
    <3> QED
      BY <3>2, <3>6 DEF shown
  <2> QED
    BY <2>1 DEF TakeNotice, MissNotice, Clerk, NoticeTransaction, LogNotice, NoticeFails
<1>5. /\ boletoTx' \in TransactionStatus \cup {NoTransaction}
      /\ boletoLog' \in BoletoEvent \cup {NoEvent}
      /\ missed' \in BOOLEAN
  <2>1. \/ boletoTx' = boletoTx
        \/ boletoTx' = MapWebhookEventToTransactionStatus(clerk.event)
    BY DEF TakeNotice, MissNotice, Clerk, ApplyNotice, NoticeTransaction, LogNotice,
           NoticeFails
  <2>2. boletoLog' = boletoLog \/ boletoLog' = clerk.event
    BY DEF TakeNotice, MissNotice, Clerk, ApplyNotice, NoticeTransaction, LogNotice,
           NoticeFails
  <2>3. missed' = missed \/ missed' = TRUE
    BY DEF TakeNotice, MissNotice, Clerk, ApplyNotice, NoticeTransaction, LogNotice,
           NoticeFails
  <2>4. /\ boletoTx \in TransactionStatus \cup {NoTransaction} /\ missed \in BOOLEAN
        /\ boletoLog \in BoletoEvent \cup {NoEvent}
        /\ clerk.event \in BoletoEvent \cup {NoEvent}
    BY DEF BoletoInv, BoletoTypeOK
  <2>5. missed' \in BOOLEAN
    BY <2>3, <2>4
  <2> QED
    BY <2>1, <2>2, <2>4, <2>5, TransactionStatusOK
<1>6. BoletoTypeOK'
  BY <1>1, <1>2, <1>3, <1>4, <1>5 DEF BoletoInv, BoletoTypeOK
<1>7. HistoryOK' /\ CancellationOK' /\ NoticesOK' /\ SyncsOK'
  BY <1>1 DEF BoletoInv, HistoryOK, CancellationOK, NoticesOK, SyncsOK
<1>8. RowOK' /\ ClerkOK'
  BY <1>1, <1>3, <1>4 DEF BoletoInv, RowOK, ClerkOK
<1> QED
  BY <1>6, <1>7, <1>8 DEF BoletoInv

\* A GET.
LEMMA SyncKeepsInv ==
  ASSUME BoletoInv, NEW r \in BoletoReader, ReadBoleto(r) \/ SyncBoleto(r) \/ SyncFails(r)
  PROVE  BoletoInv'
<1>1. /\ UNCHANGED <<issuer, issuerHad, notices, missed, boletoLog, emission,
                     cancellation, clerk>>
      /\ boletoFaults' \in {boletoFaults, boletoFaults + 1}
      /\ boletoFaults' = boletoFaults \/ boletoFaults < MaxBoletoFaults
  BY DEF ReadBoleto, SyncBoleto, AskIssuer, SaveBoletoSync, CreateBoletoTransaction,
         SyncFails
<1>2. boletoFaults' \in 0 .. MaxBoletoFaults
  BY <1>1, MaxBoletoFaultsAssumption DEF BoletoInv, BoletoTypeOK
\* What a step of a GET must show of the record it leaves.
<1> DEFINE SyncOK(sync) ==
      /\ sync \in [step : {"idle", "ask", "save", "tx"},
                   status : BoletoStatus \cup {NoStatus}]
      /\ sync.step = "ask" => issuer # NoStatus
      /\ sync.step \in {"save", "tx"} => sync.status \in issuerHad
<1>3. SyncOK(IdleSync) /\ SyncOK(syncs[r])
  BY DEF IdleSync, BoletoInv, BoletoTypeOK, SyncsOK
<1>4. ASSUME NEW sync, SyncOK(sync), syncs' = [syncs EXCEPT ![r] = sync],
             boletoTx' \in TransactionStatus \cup {NoTransaction},
             \/ boleto' = boleto
             \/ boleto' \in Boleto /\ boleto'.status \in issuerHad
      PROVE  BoletoInv'
  <2>1. BoletoTypeOK'
    BY <1>1, <1>2, <1>4 DEF BoletoInv, BoletoTypeOK
  <2>2. HistoryOK' /\ CancellationOK' /\ NoticesOK' /\ ClerkOK' /\ RowOK'
    BY <1>1, <1>4 DEF BoletoInv, HistoryOK, CancellationOK, NoticesOK, ClerkOK, RowOK
  <2>3. SyncsOK'
    BY <1>1, <1>4 DEF BoletoInv, BoletoTypeOK, SyncsOK
  <2> QED
    BY <2>1, <2>2, <2>3 DEF BoletoInv
<1>5. boletoTx \in TransactionStatus \cup {NoTransaction}
  BY DEF BoletoInv, BoletoTypeOK
<1>6. CASE ReadBoleto(r)
  <2>1. SyncOK([syncs[r] EXCEPT !.step = "ask"])
    BY <1>3, <1>6 DEF ReadBoleto, BoletoInv, RowOK, HistoryOK
  <2> QED
    BY <1>4, <1>5, <1>6, <2>1 DEF ReadBoleto
<1>7. CASE AskIssuer(r)
  <2> DEFINE told == ParseBoletoStatus(issuer)
  <2>1. issuer \in BoletoStatus /\ issuer \in issuerHad
    BY <1>3, <1>7 DEF AskIssuer, BoletoInv, BoletoTypeOK, HistoryOK
  <2>2. told \in BoletoStatus /\ told \in issuerHad
    BY <2>1 DEF ParseBoletoStatus
  <2>3. /\ syncs' = [syncs EXCEPT ![r] = [step |-> "save", status |-> told]]
        /\ boletoTx' = boletoTx /\ boleto' = boleto
    BY <1>7 DEF AskIssuer
  <2> HIDE DEF told
  <2>4. SyncOK([step |-> "save", status |-> told])
    BY <2>2
  <2> HIDE DEF SyncOK
  <2> QED
    BY <1>4, <1>5, <2>3, <2>4
<1>8. CASE SaveBoletoSync(r)
  <2>1. SyncOK([syncs[r] EXCEPT !.step = "tx"])
    BY <1>3, <1>8 DEF SaveBoletoSync
  <2>2. /\ boleto' = [status |-> syncs[r].status, details |-> TRUE]
        /\ syncs[r].status \in issuerHad /\ boletoTx' = boletoTx
    BY <1>3, <1>8 DEF SaveBoletoSync
  <2>3. boleto' \in Boleto /\ boleto'.status \in issuerHad
    BY <1>3, <2>2 DEF Boleto
  <2>4. \/ syncs' = [syncs EXCEPT ![r] = [syncs[r] EXCEPT !.step = "tx"]]
        \/ syncs' = [syncs EXCEPT ![r] = IdleSync]
    BY <1>8 DEF SaveBoletoSync
  <2> HIDE DEF SyncOK
  <2> QED
    BY <1>3, <1>4, <1>5, <2>1, <2>2, <2>3, <2>4
<1>9. CASE CreateBoletoTransaction(r)
  <2>1. boletoTx' \in TransactionStatus \cup {NoTransaction}
    BY <1>5, <1>9 DEF CreateBoletoTransaction, TransactionStatus
  <2> HIDE DEF SyncOK
  <2> QED
    BY <1>3, <1>4, <1>9, <2>1 DEF CreateBoletoTransaction
<1>10. CASE SyncFails(r)
  <2> HIDE DEF SyncOK
  <2> QED
    BY <1>3, <1>4, <1>5, <1>10 DEF SyncFails
<1> QED
  BY <1>6, <1>7, <1>8, <1>9, <1>10 DEF SyncBoleto

LEMMA BoletoCrashKeepsInv == BoletoInv /\ BoletoCrash => BoletoInv'
<1> SUFFICES ASSUME BoletoInv, BoletoCrash PROVE BoletoInv'
  OBVIOUS
<1>1. /\ UNCHANGED <<issuer, issuerHad, notices, missed, boleto, boletoTx, boletoLog>>
      /\ boletoFaults' = boletoFaults + 1 /\ boletoFaults < MaxBoletoFaults
      /\ clerk' = IdleClerk
      /\ syncs' = [r \in BoletoReader |-> IdleSync]
      /\ emission' \in {"idle", "over"} /\ (emission' = "idle" => emission = "idle")
      /\ \/ cancellation' = cancellation
         \/ cancellation' = [step |-> "over", entity |-> NoBoleto]
  BY DEF BoletoCrash
<1>2. boletoFaults' \in 0 .. MaxBoletoFaults
  BY <1>1, MaxBoletoFaultsAssumption DEF BoletoInv, BoletoTypeOK
<1>3. NoBoleto \in Boleto
  BY DEF NoBoleto, Boleto
<1>4. /\ IdleClerk \in [event : BoletoEvent \cup {NoEvent}, step : {"save", "tx", "log"},
                       entity : Boleto]
      /\ IdleClerk.event = NoEvent
  BY <1>3 DEF IdleClerk
<1>5. /\ syncs' \in [BoletoReader -> [step : {"idle", "ask", "save", "tx"},
                                    status : BoletoStatus \cup {NoStatus}]]
      /\ \A r \in BoletoReader : syncs'[r].step = "idle"
  BY <1>1 DEF IdleSync
<1>6. BoletoTypeOK'
  BY <1>1, <1>2, <1>3, <1>4, <1>5 DEF BoletoInv, BoletoTypeOK
<1>7. HistoryOK' /\ RowOK' /\ CancellationOK' /\ NoticesOK'
  BY <1>1 DEF BoletoInv, HistoryOK, RowOK, CancellationOK, NoticesOK
<1>8. ClerkOK' /\ SyncsOK'
  BY <1>1, <1>4, <1>5 DEF ClerkOK, SyncsOK
<1> QED
  BY <1>6, <1>7, <1>8 DEF BoletoInv

LEMMA BoletoNextInv == BoletoInv /\ [BoletoNext]_boletoVars => BoletoInv'
<1> SUFFICES ASSUME BoletoInv, [BoletoNext]_boletoVars PROVE BoletoInv'
  OBVIOUS
<1>1. CASE UNCHANGED boletoVars
  BY <1>1 DEF boletoVars, BoletoInv, BoletoTypeOK, HistoryOK, RowOK, CancellationOK,
       NoticesOK, ClerkOK, SyncsOK
<1> QED
  BY <1>1, IssuerKeepsInv, RequestKeepsInv, ClerkKeepsInv, SyncKeepsInv,
     BoletoCrashKeepsInv DEF BoletoNext, CancelBoleto

THEOREM BoletoInvariance == BoletoSpec => []BoletoInv
BY BoletoInitInv, BoletoNextInv, PTL DEF BoletoSpec

-----------------------------------------------------------------------------
\* The boleto's row, its transaction, the copies its writers hold and its webhooks
\* are always well-formed.
THEOREM BoletoTypeCorrect == BoletoSpec => []BoletoTypeOK
<1>1. BoletoInv => BoletoTypeOK
  BY DEF BoletoInv
<1> QED
  BY <1>1, BoletoInvariance, PTL

\* However createBoleto, cancelBoleto, the worker and any number of GETs
\* interleave, and whatever fails, the row shows a status the boleto has had at
\* the provider.
THEOREM RowsWereTrue == BoletoSpec => []BoletoRowWasTrue
<1>1. BoletoInv => BoletoRowWasTrue
  <2>1. NoBoleto.status = NoStatus
    BY DEF NoBoleto
  <2> QED
    BY <2>1 DEF BoletoInv, RowOK, BoletoRowWasTrue
<1> QED
  BY <1>1, BoletoInvariance, PTL

-----------------------------------------------------------------------------
(* The transaction of a boleto that is settled.  An event that changes the   *)
(* transaction is logged only after it did, and stays a notice until then;   *)
(* what the log lets follow it never takes the change back.  REGISTERED,     *)
(* which overwrites whatever the log says, is over before any other begins.  *)

LogTrue ==
  boletoLog # NoEvent =>
    /\ "Registered" \in issuerHad /\ "BOLETO_WAS_REGISTERED" \notin notices
    /\ HandlerOf(boletoLog).row \in issuerHad

\* Where the provider's statuses lead.
Ended ==
  /\ "Registered" \in issuerHad => issuer # "Processing"
  /\ "Paid" \in issuerHad => issuer = "Paid"
  /\ "Cancelled" \in issuerHad => issuer = "Cancelled"

InHand ==
  clerk.event # NoEvent => clerk.event \in notices /\ MayFollow(boletoLog, clerk.event)

\* The event is logged, or has only to be.
Done(event) == boletoLog = event \/ (clerk.event = event /\ clerk.step = "log")

TransactionAhead ==
  /\ Done("BOLETO_CASH_IN_WAS_RECEIVED") => boletoTx # NoTransaction
  /\ Done("BOLETO_CASH_IN_WAS_CLEARED") => boletoTx = "DONE"
  /\ Done("BOLETO_WAS_CANCELLED") => boletoTx \in {NoTransaction, "CANCELED"}

OnlyPaidSynced == \A r \in BoletoReader : syncs[r].step = "tx" => syncs[r].status = "Paid"

NothingDropped ==
  ~missed =>
    /\ "Paid" \in issuerHad =>
         boletoLog = "BOLETO_CASH_IN_WAS_CLEARED" \/ "BOLETO_CASH_IN_WAS_CLEARED" \in notices
    /\ "Cancelled" \in issuerHad =>
         boletoLog = "BOLETO_WAS_CANCELLED" \/ "BOLETO_WAS_CANCELLED" \in notices

SettledInv ==
  /\ BoletoInv
  /\ LogTrue
  /\ Ended
  /\ InHand
  /\ TransactionAhead
  /\ OnlyPaidSynced
  /\ NothingDropped

\* The handlers of a boleto's events.
LEMMA BoletoHandlerOf ==
  ASSUME NEW event \in BoletoEvent
  PROVE  HandlerOf(event) \in BoletoHandlers /\ HandlerOf(event).event = event
<1> DEFINE Fits(h) == h.event = event => h \in BoletoHandlers
<1>1. \A h \in PixHandlers : Fits(h)
  BY DEF BoletoEvent, PixHandlers, PixCashInReceived, PixCashInCleared,
     PixCashOutEvent, PixCashOutCompleted, PixCashOutCanceled, PixCashOutUndone,
     PixRefundReceived, PixRefundCleared, PixQrCodeCreated, Handler
<1>2. \A h \in BillPaymentHandlers : Fits(h)
  BY DEF BoletoEvent, BillPaymentHandlers, BillPaymentReceived,
     BillPaymentCreated, BillPaymentConfirmed, BillPaymentFailed,
     BillPaymentCancelled, BillPaymentRefused, Handler
<1>3. \A h \in TedHandlers : Fits(h)
  BY DEF BoletoEvent, TedHandlers, TedCashOutEvent, TedCashOutApproved,
     TedCashOutDone, TedCashOutCanceled, TedCashOutReproved, TedCashOutUndone,
     TedCashInReceived, TedCashInCleared, TedRefundReceived, TedRefundCleared,
     Handler
<1>4. HandlerOf(event) \in Handlers /\ HandlerOf(event).event = event
  BY HandlerOfEvent DEF WebhookEvent
<1> QED BY <1>1, <1>2, <1>3, <1>4 DEF Handlers

\* What each does to the transaction, and what it lets the log say before.
LEMMA BoletoEventsFollow ==
  ASSUME NEW event \in BoletoEvent, NEW prev \in BoletoEvent \cup {NoEvent},
         MayFollow(prev, event)
  PROVE  \/ /\ event = "BOLETO_WAS_REGISTERED"
            /\ HandlerOf(event).tx = "none"
         \/ /\ event = "BOLETO_CASH_IN_WAS_RECEIVED"
            /\ prev = "BOLETO_WAS_REGISTERED"
            /\ HandlerOf(event).tx = "create"
         \/ /\ event = "BOLETO_CASH_IN_WAS_CLEARED"
            /\ prev = "BOLETO_CASH_IN_WAS_RECEIVED"
            /\ HandlerOf(event).tx = "update"
         \/ /\ event = "BOLETO_WAS_CANCELLED"
            /\ prev \in {"BOLETO_WAS_REGISTERED", "BOLETO_CASH_IN_WAS_RECEIVED"}
            /\ HandlerOf(event).tx = "update"
<1>1. HandlerOf(event) \in BoletoHandlers /\ HandlerOf(event).event = event
  BY BoletoHandlerOf
<1>2. /\ event = "BOLETO_WAS_REGISTERED" => HandlerOf(event).tx = "none"
      /\ event = "BOLETO_CASH_IN_WAS_RECEIVED" => HandlerOf(event).tx = "create"
      /\ event \in {"BOLETO_CASH_IN_WAS_CLEARED", "BOLETO_WAS_CANCELLED"} =>
           HandlerOf(event).tx = "update"
      /\ event # "BOLETO_WAS_REGISTERED" => HandlerOf(event).onExisting # "overwrite"
  BY <1>1 DEF BoletoHandlers, BoletoRegistered, BoletoCashInReceived, BoletoCashInCleared,
     BoletoCancelled, Handler
<1>3. CASE event # "BOLETO_WAS_REGISTERED"
  <2>1. CanProcessWebhook(prev, event) /\ event \in WebhookEvent
    BY <1>2, <1>3 DEF MayFollow, WebhookEvent
  <2>2. {"BOLETO_WAS_REGISTERED", "BOLETO_CASH_IN_WAS_RECEIVED"} \subseteq WebhookEvent
    BY DEF WebhookEvent, BoletoEvent
  <2>3. AllowedPrevious(event) # {}
    BY <1>3, <2>2 DEF AllowedPrevious, StateMachine, BoletoEvent
  <2>4. <<prev, event>> \in StateMachine
    BY <2>1, <2>3 DEF CanProcessWebhook, AllowedPrevious
  <2>5. <<prev, event>> \in
          {<<"BOLETO_WAS_REGISTERED", "BOLETO_CASH_IN_WAS_RECEIVED">>,
           <<"BOLETO_CASH_IN_WAS_RECEIVED", "BOLETO_CASH_IN_WAS_CLEARED">>,
           <<"BOLETO_WAS_REGISTERED", "BOLETO_WAS_CANCELLED">>,
           <<"BOLETO_CASH_IN_WAS_RECEIVED", "BOLETO_WAS_CANCELLED">>}
    BY <1>3, <2>4 DEF StateMachine, BoletoEvent
  <2> QED BY <1>2, <2>5
<1> QED BY <1>2, <1>3

\* The transaction status an event of a boleto writes.
LEMMA BoletoEventStatus ==
  /\ MapWebhookEventToTransactionStatus("BOLETO_CASH_IN_WAS_RECEIVED") = "IN_PROCESS"
  /\ MapWebhookEventToTransactionStatus("BOLETO_CASH_IN_WAS_CLEARED") = "DONE"
  /\ MapWebhookEventToTransactionStatus("BOLETO_WAS_CANCELLED") = "CANCELED"
BY DEF MapWebhookEventToTransactionStatus

LEMMA SettledInit == BoletoInit => SettledInv
BY BoletoInitInv DEF BoletoInit, SettledInv, LogTrue, Ended, InHand, TransactionAhead, Done,
   OnlyPaidSynced, NothingDropped, IdleClerk, IdleSync, NoEvent, NoStatus

\* The provider.
LEMMA IssuerKeepsSettled ==
  ASSUME SettledInv, IssuerGoesOn \/ IssueBoleto \/ IssuerAgrees
  PROVE  SettledInv'
<1>1. BoletoInv'
  BY IssuerKeepsInv DEF SettledInv
<1>2. UNCHANGED <<missed, boletoTx, boletoLog, clerk, syncs>>
  BY DEF IssuerGoesOn, IssueBoleto, IssuerAgrees
\* It has a notice for each end, and REGISTERED only on leaving Processing.
<1>3. /\ issuerHad \subseteq issuerHad' /\ notices \subseteq notices'
      /\ Ended'
      /\ "Paid" \in issuerHad' \ issuerHad => "BOLETO_CASH_IN_WAS_CLEARED" \in notices'
      /\ "Cancelled" \in issuerHad' \ issuerHad => "BOLETO_WAS_CANCELLED" \in notices'
      /\ "BOLETO_WAS_REGISTERED" \in notices' \ notices => issuer = "Processing"
  <2>1. CASE IssuerGoesOn
    <3>1. PICK move \in IssuerMoves : /\ move.from = issuer
                                      /\ issuer' = move.to
                                      /\ issuerHad' = issuerHad \cup {move.to}
                                      /\ notices' = notices \cup move.announced
      BY <2>1 DEF IssuerGoesOn
    <3>2. /\ move.from \notin {"Paid", "Cancelled"} /\ move.to # "Processing"
          /\ move.to = "Paid" => "BOLETO_CASH_IN_WAS_CLEARED" \in move.announced
          /\ move.to = "Cancelled" => "BOLETO_WAS_CANCELLED" \in move.announced
          /\ "BOLETO_WAS_REGISTERED" \in move.announced => move.from = "Processing"
      BY DEF IssuerMoves, IssuerMove
    <3> QED BY <3>1, <3>2 DEF SettledInv, Ended
  <2>2. CASE IssueBoleto
    BY <2>2 DEF IssueBoleto, SettledInv, BoletoInv, HistoryOK, Ended
  <2>3. CASE IssuerAgrees
    BY <2>3 DEF IssuerAgrees, SettledInv, Ended
  <2> QED BY <2>1, <2>2, <2>3
<1>4. LogTrue'
  BY <1>2, <1>3 DEF SettledInv, LogTrue, Ended
<1>5. InHand' /\ TransactionAhead' /\ OnlyPaidSynced' /\ NothingDropped'
  BY <1>2, <1>3 DEF SettledInv, InHand, TransactionAhead, Done, OnlyPaidSynced, NothingDropped
<1> QED BY <1>1, <1>3, <1>4, <1>5 DEF SettledInv

\* The webhook worker.
LEMMA ClerkKeepsSettled ==
  ASSUME SettledInv, TakeNotice \/ MissNotice \/ Clerk \/ NoticeFails
  PROVE  SettledInv'
<1>1. BoletoInv'
  BY ClerkKeepsInv DEF SettledInv
<1>2. /\ UNCHANGED <<issuer, issuerHad, syncs>> /\ notices' \subseteq notices
      /\ missed => missed'
  BY DEF TakeNotice, MissNotice, Clerk, ApplyNotice, NoticeTransaction, LogNotice, NoticeFails
<1>3. Ended' /\ OnlyPaidSynced'
  BY <1>2 DEF SettledInv, Ended, OnlyPaidSynced
<1>4. /\ clerk.event \in BoletoEvent \cup {NoEvent} /\ boletoLog \in BoletoEvent \cup {NoEvent}
      /\ clerk \in [event : BoletoEvent \cup {NoEvent}, step : {"save", "tx", "log"},
                    entity : Boleto]
      /\ notices \subseteq BoletoEvent /\ NoEvent \notin BoletoEvent
  BY DEF SettledInv, BoletoInv, BoletoTypeOK, BoletoEvent, NoEvent
\* The event in hand, and what the log says before it.
<1>5. ASSUME clerk.event # NoEvent
      PROVE  \/ /\ clerk.event = "BOLETO_WAS_REGISTERED" /\ boletoLog = NoEvent
                /\ HandlerOf(clerk.event).tx = "none"
             \/ /\ clerk.event = "BOLETO_CASH_IN_WAS_RECEIVED"
                /\ boletoLog = "BOLETO_WAS_REGISTERED"
                /\ HandlerOf(clerk.event).tx = "create"
             \/ /\ clerk.event = "BOLETO_CASH_IN_WAS_CLEARED"
                /\ boletoLog = "BOLETO_CASH_IN_WAS_RECEIVED"
                /\ HandlerOf(clerk.event).tx = "update"
             \/ /\ clerk.event = "BOLETO_WAS_CANCELLED"
                /\ boletoLog \in {"BOLETO_WAS_REGISTERED", "BOLETO_CASH_IN_WAS_RECEIVED"}
                /\ HandlerOf(clerk.event).tx = "update"
  <2>1. MayFollow(boletoLog, clerk.event) /\ clerk.event \in notices
    BY <1>5 DEF SettledInv, InHand
  <2>2. clerk.event = "BOLETO_WAS_REGISTERED" => boletoLog = NoEvent
    BY <2>1 DEF SettledInv, LogTrue
  <2> QED BY <1>4, <1>5, <2>1, <2>2, BoletoEventsFollow
<1>6. CASE TakeNotice
  <2>1. PICK event \in notices :
          /\ MayFollow(boletoLog, event)
          /\ clerk' = [event |-> event, step |-> "save", entity |-> boleto]
    BY <1>6 DEF TakeNotice
  <2>2. UNCHANGED <<notices, missed, boletoTx, boletoLog>> /\ clerk.event = NoEvent
    BY <1>6 DEF TakeNotice
  <2>3. InHand'
    BY <2>1, <2>2 DEF InHand, MayFollow
  <2>4. TransactionAhead'
    BY <2>1, <2>2 DEF SettledInv, TransactionAhead, Done
  <2>5. LogTrue' /\ NothingDropped'
    BY <1>2, <2>2 DEF SettledInv, LogTrue, NothingDropped
  <2> QED BY <1>1, <1>3, <2>3, <2>4, <2>5 DEF SettledInv
<1>7. CASE MissNotice
  <2>1. UNCHANGED <<boletoTx, boletoLog, clerk>> /\ clerk.event = NoEvent /\ missed'
    BY <1>7 DEF MissNotice
  <2> QED
    BY <1>1, <1>2, <1>3, <2>1
    DEF SettledInv, LogTrue, InHand, TransactionAhead, Done, NothingDropped
<1>8. CASE ApplyNotice
  <2>1. /\ UNCHANGED <<notices, missed, boletoTx, boletoLog>> /\ clerk.event # NoEvent
        /\ clerk'.event = clerk.event
        /\ clerk'.step = "log" => HandlerOf(clerk.event).tx = "none"
    BY <1>4, <1>8 DEF ApplyNotice
  <2>2. clerk'.step = "log" => clerk.event = "BOLETO_WAS_REGISTERED"
    BY <1>5, <2>1
  <2>3. TransactionAhead'
    BY <2>1, <2>2 DEF SettledInv, TransactionAhead, Done
  <2>4. LogTrue' /\ InHand' /\ NothingDropped'
    BY <1>2, <2>1 DEF SettledInv, LogTrue, InHand, NothingDropped
  <2> QED BY <1>1, <1>3, <2>3, <2>4 DEF SettledInv
<1>9. CASE NoticeTransaction
  <2>1. /\ UNCHANGED <<notices, missed, boletoLog>> /\ clerk.event # NoEvent
        /\ clerk'.event = clerk.event /\ clerk'.step = "log"
    BY <1>4, <1>9 DEF NoticeTransaction
  <2>2. /\ HandlerOf(clerk.event).tx = "create" =>
             boletoTx' = IF boletoTx = NoTransaction
                         THEN MapWebhookEventToTransactionStatus(clerk.event) ELSE boletoTx
        /\ HandlerOf(clerk.event).tx # "create" =>
             boletoTx' = IF boletoTx # NoTransaction
                         THEN MapWebhookEventToTransactionStatus(clerk.event) ELSE boletoTx
    BY <1>9 DEF NoticeTransaction
  <2>3. /\ boletoLog = "BOLETO_CASH_IN_WAS_RECEIVED" => boletoTx # NoTransaction
    BY DEF SettledInv, TransactionAhead, Done
  <2>4. TransactionAhead'
    <3>1. CASE clerk.event = "BOLETO_WAS_REGISTERED"
      BY <1>5, <2>1, <3>1 DEF TransactionAhead, Done, NoEvent
    <3>2. CASE clerk.event = "BOLETO_CASH_IN_WAS_RECEIVED"
      <4>1. boletoTx' # NoTransaction
        BY <1>5, <2>1, <2>2, <3>2, BoletoEventStatus DEF NoTransaction
      <4> QED BY <1>5, <2>1, <3>2, <4>1 DEF TransactionAhead, Done
    <3>3. CASE clerk.event = "BOLETO_CASH_IN_WAS_CLEARED"
      <4>1. boletoTx' = "DONE"
        BY <1>5, <2>1, <2>2, <2>3, <3>3, BoletoEventStatus
      <4> QED BY <1>5, <2>1, <3>3, <4>1 DEF TransactionAhead, Done, NoTransaction
    <3>4. CASE clerk.event = "BOLETO_WAS_CANCELLED"
      <4>1. /\ boletoTx' \in {NoTransaction, "CANCELED"}
            /\ boletoTx # NoTransaction => boletoTx' # NoTransaction
        BY <1>5, <2>1, <2>2, <3>4, BoletoEventStatus DEF NoTransaction
      <4> QED BY <1>5, <2>1, <2>3, <3>4, <4>1 DEF TransactionAhead, Done
    <3> QED BY <1>5, <2>1, <3>1, <3>2, <3>3, <3>4
  <2>5. LogTrue' /\ InHand' /\ NothingDropped'
    BY <1>2, <2>1 DEF SettledInv, LogTrue, InHand, NothingDropped
  <2> QED BY <1>1, <1>3, <2>4, <2>5 DEF SettledInv
<1>10. CASE LogNotice
  <2>1. /\ boletoLog' = clerk.event /\ notices' = notices \ {clerk.event}
        /\ UNCHANGED <<missed, boletoTx>> /\ clerk.event # NoEvent /\ clerk.step = "log"
        /\ clerk'.event = NoEvent /\ clerk'.step = "save"
    BY <1>10 DEF LogNotice, IdleClerk
  <2>2. LogTrue'
    <3>1. HandlerOf(clerk.event).row \in issuerHad
      BY <2>1 DEF SettledInv, BoletoInv, ClerkOK
    <3>2. CASE clerk.event = "BOLETO_WAS_REGISTERED"
      <4>1. HandlerOf(clerk.event).row = "Registered"
        BY <3>2, BoletoRows DEF BoletoAnnouncement, BoletoEvent
      <4> QED BY <1>2, <2>1, <3>1, <3>2, <4>1 DEF LogTrue
    <3>3. CASE boletoLog # NoEvent
      BY <1>2, <2>1, <3>1, <3>3 DEF SettledInv, LogTrue
    <3> QED BY <1>5, <2>1, <3>2, <3>3 DEF NoEvent
  <2>3. InHand'
    BY <2>1 DEF InHand
  <2>4. TransactionAhead'
    BY <2>1 DEF SettledInv, TransactionAhead, Done, NoEvent
  <2>5. NothingDropped'
    BY <1>2, <1>5, <2>1 DEF SettledInv, NothingDropped, NoEvent
  <2> QED BY <1>1, <1>3, <2>2, <2>3, <2>4, <2>5 DEF SettledInv
<1>11. CASE NoticeFails
  <2>1. /\ UNCHANGED <<boletoTx, boletoLog>> /\ clerk'.event = NoEvent
        /\ notices' = notices \/ missed'
    BY <1>11 DEF NoticeFails, IdleClerk
  <2>2. TransactionAhead'
    BY <2>1 DEF SettledInv, TransactionAhead, Done, NoEvent
  <2>3. LogTrue' /\ InHand' /\ NothingDropped'
    BY <1>2, <2>1 DEF SettledInv, LogTrue, InHand, NothingDropped
  <2> QED BY <1>1, <1>3, <2>2, <2>3 DEF SettledInv
<1> QED BY <1>6, <1>7, <1>8, <1>9, <1>10, <1>11 DEF Clerk

\* The API's requests and GETs, and a crash: only a GET writes the transaction, of
\* a boleto that was paid and has none.
LEMMA OthersKeepSettled ==
  ASSUME SettledInv,
         \/ RequestEmission \/ SaveEmitted \/ EmissionFails
         \/ RequestCancellation \/ IssuerDisagrees \/ SaveCancelled \/ CancellationFails
         \/ \E r \in BoletoReader : ReadBoleto(r) \/ SyncBoleto(r) \/ SyncFails(r)
         \/ BoletoCrash \/ UNCHANGED boletoVars
  PROVE  SettledInv'
<1>1. BoletoInv'
  <2>1. [BoletoNext]_boletoVars
    BY DEF BoletoNext, CancelBoleto
  <2> QED BY <2>1, BoletoNextInv DEF SettledInv
<1>2. /\ UNCHANGED <<issuer, issuerHad, notices, missed, boletoLog>>
      /\ clerk' \in {clerk, IdleClerk}
  BY DEF RequestEmission, SaveEmitted, EmissionFails, RequestCancellation, IssuerDisagrees,
     SaveCancelled, CancellationFails, ReadBoleto, SyncBoleto, AskIssuer, SaveBoletoSync,
     CreateBoletoTransaction, SyncFails, BoletoCrash, boletoVars
<1>3. LogTrue' /\ Ended' /\ InHand' /\ NothingDropped'
  BY <1>2 DEF SettledInv, LogTrue, Ended, InHand, NothingDropped, IdleClerk
<1>4. \/ boletoTx' = boletoTx
      \/ boletoTx = NoTransaction /\ boletoTx' = "DONE" /\ "Paid" \in issuerHad
  <2>1. ASSUME NEW r \in BoletoReader, CreateBoletoTransaction(r)
        PROVE  \/ boletoTx' = boletoTx
               \/ boletoTx = NoTransaction /\ boletoTx' = "DONE" /\ "Paid" \in issuerHad
    BY <2>1 DEF CreateBoletoTransaction, SettledInv, OnlyPaidSynced, BoletoInv, SyncsOK
  <2> QED
    BY <2>1 DEF RequestEmission, SaveEmitted, EmissionFails, RequestCancellation,
       IssuerDisagrees, SaveCancelled, CancellationFails, ReadBoleto, SyncBoleto, AskIssuer,
       SaveBoletoSync, SyncFails, BoletoCrash, boletoVars
\* A boleto that was paid was not cancelled.
<1>5. ASSUME "Paid" \in issuerHad PROVE ~Done("BOLETO_WAS_CANCELLED")
  <2>1. "Cancelled" \notin issuerHad
    BY <1>5 DEF SettledInv, Ended
  <2>2. HandlerOf("BOLETO_WAS_CANCELLED").row = "Cancelled"
    BY BoletoRows DEF BoletoAnnouncement, BoletoEvent
  <2> QED BY <2>1, <2>2 DEF Done, SettledInv, LogTrue, BoletoInv, ClerkOK, NoEvent
<1>6. TransactionAhead'
  <2>1. \A event \in BoletoEvent : Done(event)' => Done(event)
    BY <1>2 DEF Done, IdleClerk
  <2> QED
    BY <1>4, <1>5, <2>1 DEF SettledInv, TransactionAhead, BoletoEvent, NoTransaction
<1>7. OnlyPaidSynced'
  <2>1. syncs \in [BoletoReader -> [step : {"idle", "ask", "save", "tx"},
                                    status : BoletoStatus \cup {NoStatus}]]
    BY DEF SettledInv, BoletoInv, BoletoTypeOK
  <2>2. ASSUME NEW r \in BoletoReader,
               ReadBoleto(r) \/ SyncBoleto(r) \/ SyncFails(r)
        PROVE  OnlyPaidSynced'
    <3>1. \A s \in BoletoReader \ {r} : syncs'[s] = syncs[s]
      BY <2>1, <2>2 DEF ReadBoleto, SyncBoleto, AskIssuer, SaveBoletoSync,
         CreateBoletoTransaction, SyncFails
    <3>2. syncs'[r].step = "tx" => syncs'[r].status = "Paid"
      BY <2>1, <2>2 DEF ReadBoleto, SyncBoleto, AskIssuer, SaveBoletoSync,
         CreateBoletoTransaction, SyncFails, IdleSync
    <3> QED BY <3>1, <3>2 DEF SettledInv, OnlyPaidSynced
  <2>3. CASE \A r \in BoletoReader : ~(ReadBoleto(r) \/ SyncBoleto(r) \/ SyncFails(r))
    <3>1. syncs' = syncs \/ syncs' = [r \in BoletoReader |-> IdleSync]
      BY <2>3 DEF RequestEmission, SaveEmitted, EmissionFails, RequestCancellation,
         IssuerDisagrees, SaveCancelled, CancellationFails, BoletoCrash, boletoVars
    <3> QED BY <3>1 DEF SettledInv, OnlyPaidSynced, IdleSync
  <2> QED BY <2>2, <2>3
<1> QED BY <1>1, <1>3, <1>6, <1>7 DEF SettledInv

LEMMA SettledInvariance == BoletoSpec => []SettledInv
<1>1. SettledInv /\ [BoletoNext]_boletoVars => SettledInv'
  BY IssuerKeepsSettled, ClerkKeepsSettled, OthersKeepSettled DEF BoletoNext, CancelBoleto
<1> QED BY <1>1, SettledInit, PTL DEF BoletoSpec

\* However the worker and the GETs write the transaction of a boleto, and whatever
\* fails, it tells how the boleto ended once its webhooks are done with.
THEOREM TransactionsTellTheEnd == BoletoSpec => []BoletoSettled
<1>1. SettledInv => BoletoSettled
  <2> SUFFICES ASSUME SettledInv, BoletoAtRest, ~missed
      PROVE  /\ issuer = "Paid" => boletoTx = "DONE"
             /\ issuer = "Cancelled" => boletoTx \in {NoTransaction, "CANCELED"}
    BY DEF BoletoSettled
  <2>1. notices = {} /\ (issuer \in {"Paid", "Cancelled"} => issuer \in issuerHad)
    BY DEF BoletoAtRest, SettledInv, BoletoInv, HistoryOK, NoStatus
  <2> QED BY <2>1 DEF SettledInv, NothingDropped, TransactionAhead, Done
<1> QED BY <1>1, SettledInvariance, PTL
=============================================================================
