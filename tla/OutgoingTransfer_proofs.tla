----------------------- MODULE OutgoingTransfer_proofs -----------------------
(***************************************************************************)
(* Proofs about OutgoingTransfer for any number of concurrent reads and    *)
(* faults: its types, that neither row nor transaction ever runs ahead of  *)
(* the provider, and that a request which ended without a fault leaves no  *)
(* payment that has a code without its transaction.                        *)
(***************************************************************************)
EXTENDS OutgoingTransfer, WebhookHandlers_proofs

-----------------------------------------------------------------------------
(* The inductive invariant.  Every value that a party holds in its memory   *)
(* and may write later - the request's answer, a webhook, the status a GET  *)
(* read - was true at the provider when it was obtained; and the provider's *)
(* history only grows, so it stays true however late it is written.         *)

Executed == {"DONE", "APPROVED", "Completed", "Confirmed"}

\* The status is one the row may show.
Truth(status) ==
  \/ status = FirstStatus
  \/ status \in had
  \/ kind = "ted" /\ status = "DONE" /\ "APPROVED" \in had

HistoryKept ==
  /\ provider = NoRow => had = {} /\ events = {} /\ worker = NoEvent
  /\ provider # NoRow => {FirstStatus, provider} \subseteq had

EventTrue(event) ==
  /\ event \in WebhookEvent
  /\ HandlerOf(event).row \in PaymentStatus
  /\ Truth(HandlerOf(event).row)
  /\ MapWebhookEventToTransactionStatus(event) = "DONE" => had \cap Executed # {}

EventsTrue ==
  /\ \A event \in events : EventTrue(event)
  /\ worker # NoEvent => EventTrue(worker)

RequestTrue ==
  /\ api \in {"idle", "asking"} => provider = NoRow /\ row \in {NoRow, FirstStatus}
  /\ api \in {"accepted", "saving", "tx"} => provider # NoRow
  /\ api \in {"saving", "tx"} => apiStatus # NoRow
  /\ apiStatus # NoRow => apiStatus \in had
  /\ api = "failing" => faults > 0 \/ provider = NoRow
  /\ coded => provider # NoRow

ReadsTrue ==
  \A r \in Reader :
    /\ readers[r].step # "idle" => provider # NoRow
    /\ readers[r].step \in {"save", "tx"} =>
         readers[r].status \in PaymentStatus /\ Truth(readers[r].status)

TransferInv ==
  /\ TypeOK
  /\ HistoryKept
  /\ EventsTrue
  /\ RequestTrue
  /\ ReadsTrue
  /\ RowWasTrue
  /\ DoneWasExecuted

-----------------------------------------------------------------------------
(* Statuses. *)

LEMMA KindKnown == TypeOK => kind \in {"pix", "ted", "bill"}
BY KindsAssumption DEF TypeOK

\* A status becomes a transaction status, DONE only if it means that the payment
\* was carried out.
LEMMA TransactionStatusSound ==
  ASSUME NEW status \in PaymentStatus
  PROVE  /\ TransactionStatusOf(status) \in TransactionStatus
         /\ TransactionStatusOf(status) = "DONE"
              => status \in {"DONE", "Completed", "Confirmed"}
BY DEF PaymentStatus, TransactionStatusOf, TransactionStatus

\* Read-repair makes of the provider's status one the row may show, or none.
LEMMA SyncedStatusTrue ==
  ASSUME TypeOK, provider \in had
  PROVE  \/ SyncedStatus(provider) = NoRow
         \/ SyncedStatus(provider) \in PaymentStatus /\ Truth(SyncedStatus(provider))
<1>1. CASE kind = "pix"
  BY <1>1 DEF SyncedStatus, SyncedPixStatus, PaymentStatus, Truth
<1>2. CASE kind = "ted"
  BY <1>2 DEF SyncedStatus, SyncedTedStatus, PaymentStatus, Truth
<1>3. CASE kind = "bill"
  BY <1>3 DEF SyncedStatus, ParseBillStatus, PaymentStatus, Truth, FirstStatus
<1> QED BY <1>1, <1>2, <1>3, KindKnown

\* The provider announces a status with the webhooks whose handlers write it.
LEMMA ProviderMovesSound ==
  ASSUME NEW m \in ProviderMoves
  PROVE  /\ m.from \in PaymentStatus /\ m.to \in PaymentStatus
         /\ \A event \in m.announced : <<event, m.to>> \in Announcement
BY DEF ProviderMoves, ProviderMove, PaymentStatus, Announcement

LEMMA AnnouncedAtOnceSound ==
  \A event \in AnnouncedAtOnce : <<event, FirstStatus>> \in Announcement
BY DEF AnnouncedAtOnce, FirstStatus, Announcement

\* What an event announces as done was carried out.
LEMMA AnnouncementSound ==
  ASSUME NEW event, NEW status, <<event, status>> \in Announcement
  PROVE  /\ event \in WebhookEvent
         /\ HandlerOf(event).row = status
         /\ status \in PaymentStatus
         /\ MapWebhookEventToTransactionStatus(event) = "DONE" => status \in Executed
<1>1. event \in WebhookEvent /\ HandlerOf(event).row = status
  BY AnnouncedRows
<1>2. /\ status \in PaymentStatus
      /\ MapWebhookEventToTransactionStatus(event) = "DONE" => status \in Executed
  BY DEF Announcement, PaymentStatus, MapWebhookEventToTransactionStatus, Executed
<1> QED BY <1>1, <1>2

-----------------------------------------------------------------------------
(* What was true stays true. *)

LEMMA HistoryGrows ==
  ASSUME TransferInv, [Next]_vars
  PROVE  kind' = kind /\ had \subseteq had'
<1>1. CASE ProviderAccepts
  BY <1>1 DEF ProviderAccepts, TransferInv, RequestTrue, HistoryKept
<1>2. CASE ProviderGoesOn
  BY <1>2 DEF ProviderGoesOn
<1>3. CASE Submit \/ ProviderRefuses \/ Request \/ RequestFault
  BY <1>3 DEF Submit, ProviderRefuses, Request, ProviderAnswers, SaveAnswer,
     CreateTransaction, RecordFailure, RequestFault, providerVars
<1>4. CASE TakeEvent \/ GiveUpEvent \/ Apply \/ WorkerFault \/ Crash
  BY <1>4 DEF TakeEvent, GiveUpEvent, Apply, ApplyToRow, ApplyToTransaction,
     LogEvent, WorkerFault, Crash, providerVars
<1>5. ASSUME NEW r \in Reader, ReadRow(r) \/ Repair(r) \/ ReaderFault(r)
      PROVE  kind' = kind /\ had \subseteq had'
  BY <1>5 DEF ReadRow, Repair, AskProvider, SaveSynced, SyncTransaction,
     ReaderFault, providerVars
<1>6. CASE UNCHANGED vars
  BY <1>6 DEF vars, providerVars
<1> QED BY <1>1, <1>2, <1>3, <1>4, <1>5, <1>6 DEF Next

LEMMA TruthStays ==
  ASSUME kind' = kind, had \subseteq had'
  PROVE  /\ FirstStatus' = FirstStatus
         /\ \A status : Truth(status) => Truth(status)'
         /\ \A event : EventTrue(event) => EventTrue(event)'
<1>1. FirstStatus' = FirstStatus
  BY DEF FirstStatus
<1>2. \A status : Truth(status) => Truth(status)'
  BY <1>1 DEF Truth
<1>3. had \cap Executed # {} => had' \cap Executed # {}
  OBVIOUS
<1> QED BY <1>1, <1>2, <1>3 DEF EventTrue

-----------------------------------------------------------------------------
(* Every step keeps the invariant. *)

LEMMA InvInit == Init => TransferInv
<1> SUFFICES ASSUME Init PROVE TransferInv
  OBVIOUS
<1>1. 0 \in 0 .. MaxFaults
  BY MaxFaultsAssumption
<1>2. IdleRead \in Read
  BY DEF IdleRead, Read
<1>3. TypeOK
  BY <1>1, <1>2 DEF Init, TypeOK, ApiStep, WorkerStep
<1>4. HistoryKept /\ EventsTrue /\ RequestTrue /\ ReadsTrue
  BY DEF Init, HistoryKept, EventsTrue, RequestTrue, ReadsTrue, IdleRead
<1>5. NoTx # "DONE"
  BY NoStatusAssumption DEF TransactionStatus
<1>6. RowWasTrue /\ DoneWasExecuted
  BY <1>5 DEF Init, RowWasTrue, DoneWasExecuted
<1> QED BY <1>3, <1>4, <1>6 DEF TransferInv

\* The provider.
LEMMA ProviderKeepsInv ==
  ASSUME TransferInv, ProviderAccepts \/ ProviderRefuses \/ ProviderGoesOn
  PROVE  TransferInv'
<1>1. [Next]_vars
  BY DEF Next
<1>2. kind' = kind /\ had \subseteq had'
  BY <1>1, HistoryGrows
<1>3. /\ FirstStatus' = FirstStatus
      /\ \A status : Truth(status) => Truth(status)'
      /\ \A event : EventTrue(event) => EventTrue(event)'
  BY <1>2, TruthStays
<1>4. FirstStatus \in PaymentStatus
  BY DEF FirstStatus, PaymentStatus
<1>5. CASE ProviderAccepts
  <2>1. \A event \in AnnouncedAtOnce : EventTrue(event)'
    <3> SUFFICES ASSUME NEW event \in AnnouncedAtOnce PROVE EventTrue(event)'
      OBVIOUS
    <3>1. <<event, FirstStatus>> \in Announcement
      BY AnnouncedAtOnceSound
    <3>2. FirstStatus \notin Executed
      BY DEF FirstStatus, Executed
    <3> QED BY <3>1, <3>2, <1>3, AnnouncementSound DEF EventTrue, Truth
  <2>2. TypeOK'
    BY <1>4, <1>5, <2>1 DEF ProviderAccepts, TransferInv, TypeOK, ApiStep,
       storeVars, workerVars, EventTrue
  <2>3. HistoryKept' /\ EventsTrue' /\ RequestTrue' /\ ReadsTrue'
    BY <1>3, <1>4, <1>5, <2>1, NoStatusAssumption
    DEF ProviderAccepts, TransferInv, TypeOK, HistoryKept, EventsTrue, RequestTrue,
        ReadsTrue, storeVars, workerVars
  <2>4. RowWasTrue' /\ DoneWasExecuted'
    BY <1>3, <1>5 DEF ProviderAccepts, TransferInv, HistoryKept, RequestTrue,
       RowWasTrue, DoneWasExecuted, storeVars
  <2> QED BY <2>2, <2>3, <2>4 DEF TransferInv
<1>6. CASE ProviderRefuses
  BY <1>3, <1>6 DEF ProviderRefuses, TransferInv, TypeOK, ApiStep, HistoryKept, EventsTrue,
     RequestTrue, ReadsTrue, RowWasTrue, DoneWasExecuted, FailureStatus,
     providerVars, storeVars, workerVars
<1>7. CASE ProviderGoesOn
  <2>1. PICK m \in ProviderMoves :
          /\ m.from = provider
          /\ provider' = m.to
          /\ had' = had \cup {m.to}
          /\ events' = events \cup m.announced
    BY <1>7 DEF ProviderGoesOn
  <2>2. m.from \in PaymentStatus /\ m.to \in PaymentStatus
    BY ProviderMovesSound
  <2>3. provider # NoRow /\ provider' # NoRow
    BY <2>1, <2>2, NoStatusAssumption
  <2>4. \A event \in m.announced : EventTrue(event)'
    BY <2>1, ProviderMovesSound, AnnouncementSound DEF EventTrue, Truth
  <2>5. TypeOK'
    BY <1>7, <2>1, <2>2, <2>4 DEF ProviderGoesOn, TransferInv, TypeOK, storeVars,
       apiVars, workerVars, EventTrue
  <2>6. HistoryKept' /\ EventsTrue' /\ RequestTrue' /\ ReadsTrue'
    BY <1>3, <1>7, <2>1, <2>3, <2>4
    DEF ProviderGoesOn, TransferInv, HistoryKept, EventsTrue, RequestTrue,
        ReadsTrue, storeVars, apiVars, workerVars
  <2>7. RowWasTrue' /\ DoneWasExecuted'
    BY <1>3, <1>7, <2>1, <2>3 DEF ProviderGoesOn, TransferInv, RowWasTrue, DoneWasExecuted,
       FailureStatus, storeVars
  <2> QED BY <2>5, <2>6, <2>7 DEF TransferInv
<1> QED BY <1>5, <1>6, <1>7

\* The request that makes the payment.
LEMMA RequestKeepsInv ==
  ASSUME TransferInv, Submit \/ Request \/ RequestFault
  PROVE  TransferInv'
<1>1. [Next]_vars
  BY DEF Next
<1>2. kind' = kind /\ had \subseteq had'
  BY <1>1, HistoryGrows
<1>3. /\ FirstStatus' = FirstStatus
      /\ \A status : Truth(status) => Truth(status)'
      /\ \A event : EventTrue(event) => EventTrue(event)'
  BY <1>2, TruthStays
<1>4. kind \in {"pix", "ted", "bill"} /\ FirstStatus \in PaymentStatus
  BY KindKnown DEF TransferInv, FirstStatus, PaymentStatus
<1>5. CASE Submit
  BY <1>3, <1>4, <1>5, NoStatusAssumption
  DEF Submit, TransferInv, TypeOK, ApiStep, HistoryKept, EventsTrue, RequestTrue,
      ReadsTrue, RowWasTrue, DoneWasExecuted, FirstStatus, PaymentStatus,
      providerVars, workerVars
<1>6. CASE ProviderAnswers
  <2>1. apiStatus' \in had /\ apiStatus' # NoRow /\ provider # NoRow
    BY <1>6, <1>4, NoStatusAssumption
    DEF ProviderAnswers, TransferInv, HistoryKept, RequestTrue
  <2>2. TypeOK'
    BY <1>4, <1>6 DEF ProviderAnswers, TransferInv, TypeOK, ApiStep, providerVars,
       storeVars, workerVars
  <2>3. HistoryKept' /\ EventsTrue' /\ RequestTrue' /\ ReadsTrue'
    BY <1>3, <1>6, <2>1 DEF ProviderAnswers, TransferInv, HistoryKept, EventsTrue,
       RequestTrue, ReadsTrue, providerVars, storeVars, workerVars
  <2>4. RowWasTrue' /\ DoneWasExecuted'
    BY <1>3, <1>6 DEF ProviderAnswers, TransferInv, RowWasTrue, DoneWasExecuted,
       FailureStatus, providerVars, storeVars
  <2> QED BY <2>2, <2>3, <2>4 DEF TransferInv
<1>7. CASE SaveAnswer
  <2>1. apiStatus \in had /\ provider # NoRow
    BY <1>7 DEF SaveAnswer, TransferInv, RequestTrue
  <2>2. TypeOK'
    BY <1>7 DEF SaveAnswer, TransferInv, TypeOK, ApiStep, providerVars, workerVars
  <2>3. HistoryKept' /\ EventsTrue' /\ RequestTrue' /\ ReadsTrue'
    BY <1>3, <1>7, <2>1 DEF SaveAnswer, TransferInv, HistoryKept, EventsTrue,
       RequestTrue, ReadsTrue, providerVars, workerVars
  <2>4. RowWasTrue' /\ DoneWasExecuted'
    BY <1>3, <1>7, <2>1 DEF SaveAnswer, TransferInv, RowWasTrue, DoneWasExecuted,
       FailureStatus, providerVars
  <2> QED BY <2>2, <2>3, <2>4 DEF TransferInv
<1>8. CASE CreateTransaction
  <2>1. apiStatus \in had /\ apiStatus \in PaymentStatus
    BY <1>8 DEF CreateTransaction, TransferInv, TypeOK, RequestTrue
  <2>2. /\ TransactionStatusOf(apiStatus) \in TransactionStatus
        /\ TransactionStatusOf(apiStatus) = "DONE" => had \cap Executed # {}
    BY <2>1, TransactionStatusSound DEF Executed
  <2>3. TypeOK'
    BY <1>8, <2>2 DEF CreateTransaction, TransferInv, TypeOK, ApiStep, providerVars,
       workerVars
  <2>4. HistoryKept' /\ EventsTrue' /\ RequestTrue' /\ ReadsTrue'
    BY <1>3, <1>8 DEF CreateTransaction, TransferInv, HistoryKept, EventsTrue,
       RequestTrue, ReadsTrue, providerVars, workerVars
  <2>5. RowWasTrue' /\ DoneWasExecuted'
    BY <1>3, <1>8, <2>2 DEF CreateTransaction, TransferInv, RowWasTrue, DoneWasExecuted,
       Executed, FailureStatus, providerVars
  <2> QED BY <2>3, <2>4, <2>5 DEF TransferInv
<1>9. CASE RecordFailure
  <2>1. row' = row \/ (row' \in FailureStatus /\ row' \in PaymentStatus)
    BY <1>4, <1>9 DEF RecordFailure, FailureStatus, PaymentStatus
  <2>2. coded' \in BOOLEAN /\ (coded' => provider # NoRow)
    BY <1>9 DEF RecordFailure, TransferInv, TypeOK, HistoryKept, RequestTrue
  <2>3. TypeOK'
    BY <1>9, <2>1, <2>2 DEF RecordFailure, TransferInv, TypeOK, ApiStep,
       providerVars, workerVars
  <2>4. HistoryKept' /\ EventsTrue' /\ RequestTrue' /\ ReadsTrue'
    BY <1>3, <1>9, <2>2 DEF RecordFailure, TransferInv, HistoryKept, EventsTrue,
       RequestTrue, ReadsTrue, providerVars, workerVars
  <2>5. /\ FailureStatus' = FailureStatus
        /\ kind' = kind /\ provider' = provider /\ had' = had /\ tx' = tx
        /\ faults' = faults /\ api = "failing"
    BY <1>9 DEF RecordFailure, FailureStatus, providerVars
  <2>6. RowWasTrue' /\ DoneWasExecuted'
    BY <1>3, <2>1, <2>5 DEF TransferInv, RequestTrue, RowWasTrue, DoneWasExecuted
  <2> QED BY <2>3, <2>4, <2>6 DEF TransferInv
<1>10. CASE RequestFault
  BY <1>3, <1>10, MaxFaultsAssumption
  DEF RequestFault, TransferInv, TypeOK, ApiStep, HistoryKept, EventsTrue, RequestTrue,
      ReadsTrue, RowWasTrue, DoneWasExecuted, FailureStatus, providerVars, storeVars,
      workerVars
<1> QED BY <1>5, <1>6, <1>7, <1>8, <1>9, <1>10 DEF Request

\* The webhook worker.
LEMMA WorkerKeepsInv ==
  ASSUME TransferInv, TakeEvent \/ GiveUpEvent \/ Apply \/ WorkerFault
  PROVE  TransferInv'
<1>1. [Next]_vars
  BY DEF Next
<1>2. kind' = kind /\ had' = had /\ provider' = provider
  BY DEF TakeEvent, GiveUpEvent, Apply, ApplyToRow, ApplyToTransaction, LogEvent,
     WorkerFault, providerVars
<1>3. /\ FirstStatus' = FirstStatus
      /\ \A status : Truth(status) => Truth(status)'
      /\ \A event : EventTrue(event) => EventTrue(event)'
  BY <1>2, TruthStays
<1>4. FailureStatus' = FailureStatus
  BY <1>2 DEF FailureStatus
<1>5. /\ api' = api /\ apiStatus' = apiStatus /\ coded' = coded /\ readers' = readers
      /\ faults' = faults \/ (faults < MaxFaults /\ faults' = faults + 1)
  BY DEF TakeEvent, GiveUpEvent, Apply, ApplyToRow, ApplyToTransaction, LogEvent,
     WorkerFault, providerVars, storeVars, apiVars
<1>6. ReadsTrue'
  BY <1>2, <1>3, <1>5 DEF TransferInv, ReadsTrue
<1>7. faults' \in 0 .. MaxFaults /\ (faults > 0 => faults' > 0)
  BY <1>5, MaxFaultsAssumption DEF TransferInv, TypeOK
<1>8. CASE TakeEvent \/ GiveUpEvent \/ LogEvent \/ WorkerFault
  <2>1. row' = row /\ tx' = tx /\ events' \subseteq events
    BY <1>8 DEF TakeEvent, GiveUpEvent, LogEvent, WorkerFault, storeVars
  <2>2. /\ worker' \in events \/ worker' \in {worker, NoEvent}
        /\ lastEvent' \in {lastEvent, worker}
        /\ workerStep' \in WorkerStep
    BY <1>8 DEF TakeEvent, GiveUpEvent, LogEvent, WorkerFault, workerVars, WorkerStep,
       TransferInv, TypeOK
  <2>3. TypeOK'
    BY <1>2, <1>5, <1>7, <2>1, <2>2 DEF TransferInv, TypeOK
  <2>4. HistoryKept' /\ EventsTrue'
    BY <1>2, <1>3, <2>1, <2>2 DEF TransferInv, HistoryKept, EventsTrue
  <2>5. RequestTrue' /\ RowWasTrue' /\ DoneWasExecuted'
    BY <1>2, <1>3, <1>4, <1>5, <1>7, <2>1
    DEF TransferInv, RequestTrue, RowWasTrue, DoneWasExecuted
  <2> QED BY <1>6, <2>3, <2>4, <2>5 DEF TransferInv
<1>9. CASE ApplyToRow
  <2>1. /\ row' = HandlerOf(worker).row
        /\ EventTrue(worker) /\ provider # NoRow
    BY <1>9 DEF ApplyToRow, TransferInv, HistoryKept, EventsTrue
  <2>2. row' \in PaymentStatus /\ Truth(row')
    BY <2>1 DEF EventTrue
  <2>3. TypeOK'
    BY <1>9, <2>2 DEF ApplyToRow, TransferInv, TypeOK, WorkerStep, providerVars, apiVars
  <2>4. HistoryKept' /\ EventsTrue'
    BY <1>3, <1>9 DEF ApplyToRow, TransferInv, HistoryKept, EventsTrue, providerVars
  <2>5. RequestTrue' /\ DoneWasExecuted'
    BY <1>9, <2>1 DEF ApplyToRow, TransferInv, RequestTrue, DoneWasExecuted,
       providerVars, apiVars
  <2>6. RowWasTrue'
    BY <1>2, <1>3, <2>2 DEF RowWasTrue, Truth
  <2> QED BY <1>6, <2>3, <2>4, <2>5, <2>6 DEF TransferInv
<1>10. CASE ApplyToTransaction
  <2>1. tx' = tx \/ tx' = MapWebhookEventToTransactionStatus(worker)
    BY <1>10 DEF ApplyToTransaction
  <2>2. tx' \in TransactionStatus \cup {NoTx}
    BY <2>1, TransactionStatusOK DEF TransferInv, TypeOK
  <2>3. tx' = "DONE" => had' \cap Executed # {}
    BY <1>2, <1>10, <2>1 DEF ApplyToTransaction, TransferInv, EventsTrue, EventTrue,
       DoneWasExecuted, Executed
  <2>4. TypeOK'
    BY <1>10, <2>2 DEF ApplyToTransaction, TransferInv, TypeOK, WorkerStep,
       providerVars, apiVars
  <2>5. HistoryKept' /\ EventsTrue' /\ RequestTrue' /\ RowWasTrue'
    BY <1>2, <1>3, <1>4, <1>10 DEF ApplyToTransaction, TransferInv, HistoryKept,
       EventsTrue, RequestTrue, RowWasTrue, providerVars, apiVars
  <2> QED BY <1>6, <2>3, <2>4, <2>5 DEF TransferInv, DoneWasExecuted, Executed
<1> QED BY <1>8, <1>9, <1>10 DEF Apply

\* Read-repair.
LEMMA ReaderKeepsInv ==
  ASSUME TransferInv,
         NEW r \in Reader, ReadRow(r) \/ Repair(r) \/ ReaderFault(r)
  PROVE  TransferInv'
<1>1. [Next]_vars
  BY DEF Next
<1>2. /\ kind' = kind /\ had' = had /\ provider' = provider /\ events' = events
      /\ api' = api /\ apiStatus' = apiStatus /\ coded' = coded
      /\ worker' = worker /\ workerStep' = workerStep /\ lastEvent' = lastEvent
      /\ faults' = faults \/ (faults < MaxFaults /\ faults' = faults + 1)
  BY DEF ReadRow, Repair, AskProvider, SaveSynced, SyncTransaction, ReaderFault,
     providerVars, storeVars, apiVars, workerVars
<1>3. /\ FirstStatus' = FirstStatus
      /\ \A status : Truth(status) => Truth(status)'
      /\ \A event : EventTrue(event) => EventTrue(event)'
  BY <1>2, TruthStays
<1>4. FailureStatus' = FailureStatus
  BY <1>2 DEF FailureStatus
<1>5. faults' \in 0 .. MaxFaults /\ (faults > 0 => faults' > 0)
  BY <1>2, MaxFaultsAssumption DEF TransferInv, TypeOK
<1>6. HistoryKept' /\ EventsTrue'
  BY <1>2, <1>3 DEF TransferInv, HistoryKept, EventsTrue
\* What a step of a read must show: the row, the transaction and the read it leaves.
<1> DEFINE ReadOK(read) ==
      /\ read \in Read
      /\ read.step # "idle" => provider # NoRow
      /\ read.step \in {"save", "tx"} => read.status \in PaymentStatus /\ Truth(read.status)
<1>7. ASSUME NEW read, ReadOK(read), readers' = [readers EXCEPT ![r] = read],
             row' = row \/ (row' \in PaymentStatus /\ Truth(row') /\ provider # NoRow),
             tx' \in TransactionStatus \cup {NoTx},
             tx' = tx \/ (tx' = "DONE" => had \cap Executed # {})
      PROVE  TransferInv'
  <2>1. TypeOK'
    BY <1>2, <1>5, <1>7 DEF TransferInv, TypeOK
  <2>2. ReadsTrue'
    BY <1>2, <1>3, <1>7 DEF TransferInv, TypeOK, ReadsTrue
  <2>3. RequestTrue'
    BY <1>2, <1>3, <1>5, <1>7 DEF TransferInv, RequestTrue
  <2>4. RowWasTrue'
    BY <1>2, <1>3, <1>4, <1>5, <1>7 DEF TransferInv, RowWasTrue, Truth
  <2>5. DoneWasExecuted'
    BY <1>2, <1>7 DEF TransferInv, DoneWasExecuted, Executed
  <2> QED BY <1>6, <2>1, <2>2, <2>3, <2>4, <2>5 DEF TransferInv
<1>8. ReadOK(IdleRead) /\ ReadOK(readers[r])
  BY DEF IdleRead, Read, TransferInv, TypeOK, ReadsTrue
<1>9. tx \in TransactionStatus \cup {NoTx}
  BY DEF TransferInv, TypeOK
<1>10. CASE ReadRow(r)
  <2>1. ReadOK([step |-> "ask", status |-> row])
    BY <1>10 DEF ReadRow, Read, TransferInv, TypeOK, RequestTrue
  <2> QED BY <1>7, <1>9, <1>10, <2>1 DEF ReadRow, storeVars
<1>11. CASE AskProvider(r)
  <2>1. provider \in had
    BY <1>8, <1>11 DEF AskProvider, TransferInv, HistoryKept
  <2> DEFINE new == SyncedStatus(provider)
  <2>2. new = NoRow \/ (new \in PaymentStatus /\ Truth(new))
    BY <2>1, SyncedStatusTrue DEF TransferInv
  <2>3. kind = "bill" => new # NoRow
    BY NoStatusAssumption DEF SyncedStatus, ParseBillStatus, PaymentStatus
  <2>4. row' = row /\ tx' = tx
    BY <1>11 DEF AskProvider, storeVars
  <2>5. \/ readers' = [readers EXCEPT ![r] = IdleRead]
        \/ /\ new # NoRow
           /\ readers' = [readers EXCEPT ![r] = [step |-> "save", status |-> new]]
    BY <1>11, <2>3 DEF AskProvider
  <2>6. new # NoRow => ReadOK([step |-> "save", status |-> new])
    <3>1. provider # NoRow
      BY <1>8, <1>11 DEF AskProvider
    <3> HIDE DEF new
    <3> QED BY <2>2, <3>1 DEF Read
  <2> HIDE DEF new, ReadOK
  <2> QED BY <1>7, <1>8, <1>9, <2>4, <2>5, <2>6
<1>12. CASE SaveSynced(r)
  <2>1. ReadOK([readers[r] EXCEPT !.step = "tx"])
    BY <1>8, <1>12 DEF SaveSynced, Read
  <2>2. /\ row' = readers[r].status /\ tx' = tx
        /\ readers' = [readers EXCEPT ![r] = [readers[r] EXCEPT !.step = "tx"]]
        /\ row' \in PaymentStatus /\ Truth(row') /\ provider # NoRow
    BY <1>8, <1>12 DEF SaveSynced, TransferInv, TypeOK
  <2> HIDE DEF ReadOK
  <2> QED BY <1>7, <1>9, <2>1, <2>2
<1>13. CASE SyncTransaction(r)
  <2>1. readers[r].status \in PaymentStatus /\ Truth(readers[r].status)
    BY <1>8, <1>13 DEF SyncTransaction
  <2>2. /\ TransactionStatusOf(readers[r].status) \in TransactionStatus
        /\ TransactionStatusOf(readers[r].status) = "DONE" => had \cap Executed # {}
    BY <2>1, TransactionStatusSound DEF Truth, FirstStatus, Executed
  <2>3. /\ tx' \in {tx, TransactionStatusOf(readers[r].status)}
        /\ row' = row /\ readers' = [readers EXCEPT ![r] = IdleRead]
    BY <1>13 DEF SyncTransaction
  <2> HIDE DEF ReadOK
  <2> QED BY <1>7, <1>8, <1>9, <2>2, <2>3
<1>14. CASE ReaderFault(r)
  <2> HIDE DEF ReadOK
  <2> QED BY <1>7, <1>8, <1>9, <1>14 DEF ReaderFault, storeVars
<1> QED BY <1>10, <1>11, <1>12, <1>13, <1>14 DEF Repair

\* The process dies, or nothing happens.
LEMMA CrashKeepsInv ==
  ASSUME TransferInv, Crash \/ UNCHANGED vars
  PROVE  TransferInv'
<1>1. CASE Crash
  <2>1. TypeOK'
    BY <1>1, MaxFaultsAssumption DEF Crash, TransferInv, TypeOK, ApiStep, Read, IdleRead,
       providerVars, storeVars
  <2>2. HistoryKept' /\ EventsTrue' /\ RequestTrue' /\ ReadsTrue'
    BY <1>1 DEF Crash, TransferInv, HistoryKept, EventsTrue, EventTrue, Truth,
       FirstStatus, RequestTrue, ReadsTrue, IdleRead, providerVars, storeVars
  <2>3. RowWasTrue' /\ DoneWasExecuted'
    BY <1>1, MaxFaultsAssumption DEF Crash, TransferInv, TypeOK, RowWasTrue,
       DoneWasExecuted, FirstStatus, FailureStatus, providerVars, storeVars
  <2> QED BY <2>1, <2>2, <2>3 DEF TransferInv
<1>2. CASE UNCHANGED vars
  BY <1>2 DEF vars, providerVars, storeVars, apiVars, workerVars, TransferInv, TypeOK,
     HistoryKept, EventsTrue, EventTrue, Truth, FirstStatus, RequestTrue, ReadsTrue,
     RowWasTrue, DoneWasExecuted, FailureStatus
<1> QED BY <1>1, <1>2

LEMMA TransferInvariance == Spec => []TransferInv
<1>1. Init => TransferInv
  BY InvInit
<1>2. TransferInv /\ [Next]_vars => TransferInv'
  BY ProviderKeepsInv, RequestKeepsInv, WorkerKeepsInv, ReaderKeepsInv, CrashKeepsInv
  DEF Next
<1> QED BY <1>1, <1>2, PTL DEF Spec

-----------------------------------------------------------------------------
\* The payment, its row, its transaction and what every party remembers of them
\* stay in their types, whatever the number of reads and faults.
THEOREM TransferTypeCorrect == Spec => []TypeOK
<1>1. TransferInv => TypeOK
  BY DEF TransferInv
<1> QED BY <1>1, TransferInvariance, PTL

\* However many GETs repair the row while the request and the webhook worker
\* write it, it never shows a status the provider did not give the payment.
THEOREM RowNeverAhead == Spec => []RowWasTrue
<1>1. TransferInv => RowWasTrue
  BY DEF TransferInv
<1> QED BY <1>1, TransferInvariance, PTL

\* However they interleave, and whatever fails, the transaction says DONE only
\* of a payment that the provider carried out or approved.
THEOREM DoneNeverAhead == Spec => []DoneWasExecuted
<1>1. TransferInv => DoneWasExecuted
  BY DEF TransferInv
<1> QED BY <1>1, TransferInvariance, PTL

-----------------------------------------------------------------------------
(* A request that ended without a fault left its payment's transaction.  The *)
(* code is only written once the provider answered, and the transaction in   *)
(* the next step; webhooks and read-repair update a transaction, and never   *)
(* take one away.                                                            *)

Accounted ==
  faults = 0 =>
    /\ api \in {"idle", "asking", "accepted", "saving", "failing"} => ~coded
    /\ api \in {"idle", "asking", "accepted", "failing"} => apiStatus = NoRow
    /\ api = "over" /\ coded => tx # NoTx

AccountedInv == TransferInv /\ Accounted

\* A fault is not forgotten.
LEMMA FaultsStay ==
  ASSUME TypeOK, [Next]_vars, faults' = 0
  PROVE  /\ faults = 0
         /\ ~RequestFault /\ ~WorkerFault /\ ~Crash /\ \A r \in Reader : ~ReaderFault(r)
<1>1. faults \in Nat /\ (faults' = faults + 1 => faults' # 0)
  BY MaxFaultsAssumption DEF TypeOK
<1>2. ~RequestFault /\ ~WorkerFault /\ ~Crash /\ \A r \in Reader : ~ReaderFault(r)
  BY <1>1 DEF RequestFault, WorkerFault, Crash, ReaderFault
<1>3. CASE Submit \/ ProviderAccepts \/ ProviderRefuses \/ ProviderGoesOn \/ Request
  BY <1>2, <1>3 DEF Submit, ProviderAccepts, ProviderRefuses, ProviderGoesOn, Request,
     ProviderAnswers, SaveAnswer, CreateTransaction, RecordFailure
<1>4. CASE TakeEvent \/ GiveUpEvent \/ Apply
  BY <1>2, <1>4 DEF TakeEvent, GiveUpEvent, Apply, ApplyToRow, ApplyToTransaction, LogEvent
<1>5. ASSUME NEW r \in Reader, ReadRow(r) \/ Repair(r)
      PROVE  faults = 0
  BY <1>2, <1>5 DEF ReadRow, Repair, AskProvider, SaveSynced, SyncTransaction
<1>6. CASE UNCHANGED vars
  BY <1>2, <1>6 DEF vars
<1> QED BY <1>2, <1>3, <1>4, <1>5, <1>6 DEF Next

\* Nobody takes a transaction away.
LEMMA TransactionsStay ==
  ASSUME TransferInv, [Next]_vars, tx # NoTx
  PROVE  tx' # NoTx
<1>1. \A status \in TransactionStatus : status # NoTx
  BY NoStatusAssumption
<1>2. CASE ApplyToTransaction
  <2>1. MapWebhookEventToTransactionStatus(worker) \in TransactionStatus
    BY <1>2, TransactionStatusOK DEF ApplyToTransaction, TransferInv, TypeOK
  <2> QED BY <1>1, <1>2, <2>1 DEF ApplyToTransaction
<1>3. ASSUME NEW r \in Reader, SyncTransaction(r)
      PROVE  tx' # NoTx
  <2>1. TransactionStatusOf(readers[r].status) \in TransactionStatus
    BY <1>3, TransactionStatusSound DEF SyncTransaction, TransferInv, ReadsTrue
  <2> QED BY <1>1, <1>3, <2>1 DEF SyncTransaction
<1>4. CASE Submit \/ ProviderAccepts \/ ProviderRefuses \/ ProviderGoesOn \/ Request \/ RequestFault
  BY <1>4 DEF Submit, ProviderAccepts, ProviderRefuses, ProviderGoesOn, Request,
     ProviderAnswers, SaveAnswer, CreateTransaction, RecordFailure, RequestFault, storeVars
<1>5. CASE TakeEvent \/ GiveUpEvent \/ ApplyToRow \/ LogEvent \/ WorkerFault \/ Crash
  BY <1>5 DEF TakeEvent, GiveUpEvent, ApplyToRow, LogEvent, WorkerFault, Crash, storeVars
<1>6. ASSUME NEW r \in Reader, ReadRow(r) \/ AskProvider(r) \/ SaveSynced(r) \/ ReaderFault(r)
      PROVE  tx' # NoTx
  BY <1>6 DEF ReadRow, AskProvider, SaveSynced, ReaderFault, storeVars
<1>7. CASE UNCHANGED vars
  BY <1>7 DEF vars, storeVars
<1> QED BY <1>2, <1>3, <1>4, <1>5, <1>6, <1>7 DEF Next, Apply, Repair

LEMMA AccountedInit == Init => AccountedInv
BY InvInit DEF Init, AccountedInv, Accounted

LEMMA AccountedStep ==
  ASSUME AccountedInv, [Next]_vars, faults' = 0
  PROVE  /\ api' \in {"idle", "asking", "accepted", "saving", "failing"} => ~coded'
         /\ api' \in {"idle", "asking", "accepted", "failing"} => apiStatus' = NoRow
         /\ api' = "over" /\ coded' => tx' # NoTx
<1>1. TransferInv /\ TypeOK
  BY DEF AccountedInv, TransferInv
<1>2. faults = 0
  BY <1>1, FaultsStay
<1>3. /\ api \in {"idle", "asking", "accepted", "saving", "failing"} => ~coded
      /\ api \in {"idle", "asking", "accepted", "failing"} => apiStatus = NoRow
      /\ api = "over" /\ coded => tx # NoTx
  BY <1>2 DEF AccountedInv, Accounted
<1>4. tx # NoTx => tx' # NoTx
  BY <1>1, TransactionsStay
\* Whatever leaves the request alone leaves this alone.
<1>5. ASSUME api' = api, apiStatus' = apiStatus, coded' = coded
      PROVE  /\ api' \in {"idle", "asking", "accepted", "saving", "failing"} => ~coded'
             /\ api' \in {"idle", "asking", "accepted", "failing"} => apiStatus' = NoRow
             /\ api' = "over" /\ coded' => tx' # NoTx
  BY <1>3, <1>4, <1>5
<1>6. CASE Submit \/ ProviderAccepts \/ ProviderRefuses \/ ProviderAnswers
  BY <1>3, <1>4, <1>6 DEF Submit, ProviderAccepts, ProviderRefuses, ProviderAnswers,
     storeVars, apiVars
<1>7. CASE SaveAnswer \/ RecordFailure
  BY <1>3, <1>4, <1>7 DEF SaveAnswer, RecordFailure
<1>8. CASE CreateTransaction
  <2>1. apiStatus \in PaymentStatus
    BY <1>1, <1>8 DEF CreateTransaction, TransferInv, RequestTrue, TypeOK
  <2>2. tx' # NoTx
    BY <1>8, <2>1, TransactionStatusSound, NoStatusAssumption DEF CreateTransaction
  <2> QED BY <1>8, <2>2 DEF CreateTransaction
<1>9. CASE ProviderGoesOn \/ TakeEvent \/ GiveUpEvent \/ Apply
  BY <1>5, <1>9 DEF ProviderGoesOn, TakeEvent, GiveUpEvent, Apply, ApplyToRow,
     ApplyToTransaction, LogEvent, storeVars, apiVars
<1>10. ASSUME NEW r \in Reader, ReadRow(r) \/ Repair(r)
       PROVE  api' = api /\ apiStatus' = apiStatus /\ coded' = coded
  BY <1>10 DEF ReadRow, Repair, AskProvider, SaveSynced, SyncTransaction, storeVars, apiVars
<1>11. CASE UNCHANGED vars
  BY <1>5, <1>11 DEF vars, storeVars, apiVars
<1>12. ~RequestFault /\ ~WorkerFault /\ ~Crash /\ \A r \in Reader : ~ReaderFault(r)
  BY <1>1, FaultsStay
<1> QED BY <1>5, <1>6, <1>7, <1>8, <1>9, <1>10, <1>11, <1>12 DEF Next, Request

LEMMA AccountedInvariance == Spec => []AccountedInv
<1>1. AccountedInv /\ [Next]_vars => AccountedInv'
  <2> SUFFICES ASSUME AccountedInv, [Next]_vars PROVE AccountedInv'
    OBVIOUS
  <2>1. TransferInv'
    BY ProviderKeepsInv, RequestKeepsInv, WorkerKeepsInv, ReaderKeepsInv, CrashKeepsInv
    DEF Next, AccountedInv
  <2>2. Accounted'
    BY AccountedStep DEF Accounted
  <2> QED BY <2>1, <2>2 DEF AccountedInv
<1> QED BY <1>1, AccountedInit, PTL DEF Spec

\* However webhooks and read-repair interleave with the request that makes a
\* payment, a coded payment whose request ended without a fault has a transaction.
THEOREM NoCodeWithoutTransaction == Spec => []CodedPaymentsHaveTransaction
<1>1. AccountedInv => CodedPaymentsHaveTransaction
  BY DEF AccountedInv, Accounted, CodedPaymentsHaveTransaction
<1> QED BY <1>1, AccountedInvariance, PTL
=============================================================================
