# A TLA+ verification of api-payment

api-payment is a NestJS service between client applications and a banking
provider: PIX, TED, boletos and bill payments are started through its HTTP API,
and the provider reports what becomes of them through webhooks. This directory
holds TLA+ models of the part of it where money states are decided and of the
components around it, the TLC configurations that check them, and TLAPS proofs.
Paths below are relative to `src/src/`.

## 1. Inventory

| Component | State | Operations | How it interacts | What makes it correct |
|---|---|---|---|---|
| Webhook reception (`webhook-processor/controllers`, `guards`, `helpers/enqueue-webhook`) | none | 27 POST endpoints | puts a batch into one of 4 Bull queues, job id = idempotency key of the first event | no accepted event disappears |
| Queue (`queue/policies`, Bull on Redis) | jobs, attempts, stalls | add, take, complete, fail and back off, hand out again | one worker per queue, one process (pm2) | every job ends; ids are freed |
| Queue processors (`webhook-processor/processors`) | the job under way | dispatch, `onFailed` | call the handlers; log failures after the last attempt | an event given up is recorded |
| Handlers (`*-webhook.service.ts`) | payment tables | per event: find, check sequence, save row, write transaction, log | three tables, no database transaction around them | tables agree; duplicates and disorder do no harm |
| State machine (`webhook-state-machine.helper`) | none | `canProcessWebhook`, terminal events | reads the event log's last entry | each payment follows its life cycle |
| Event log (`webhook-event-log.service`, cron) | processed / failed entries | log, last processed, purge after 60 days | the sequence check depends on it | purging never lets a payment jump |
| Transaction store (`transaction`) | client-visible statement | create once, update | API and handlers both write | agrees with the payment row |
| PIX, TED, bill payments | transfer rows | create, status query with read-repair | provider call between two saves; webhooks race it | an executed transfer is never shown as failed |
| Boletos (`boleto`) | boleto rows | issue, cancel, read with synchronisation | check, await the provider, overwrite; webhooks write the same row | the row shows only what happened at the provider, and catches up with it |
| Boleto dates (`boleto/helpers`, `common/helpers/date.helpers`) | none | three validations | before the provider call; parsed again for the row after it | what passes is in order and can be saved |
| PIX keys, QR codes (`pix`) | QR code rows; keys at the provider | issue, register, delete; two webhooks | the row is inserted by request or webhook, whichever finds none, found by a conciliation id callers choose | one row per code; a paid code is marked, as far as ids are not shared |
| Bank logins (`financial-providers`, `account`, `onboarding`) | accounts, onboardings, sessions | log in, pay | find, then save, row by row; unique indexes decide races | a payment is made for an account of its own client |
| Provider session (`hiperbanco-auth`, `provider-session.helper`) | one shared token in Redis | get, renew, retry | all webhook registrations share it | a retry repeats nothing; nobody fails on another's token |
| Webhook registration (`webhook`) | registrations, two queues | queued registration, notification, update, delete | provider first, then the database | both sides list the same webhooks |
| Webhook reception | keys of the registrations | guard, normalise, enqueue | reads the registrations | each event reaches its handler, for the right client |
| Permissions (`permissions`, `common/redis`) | rows, three Redis entries per client | check, assign, replace, role changes | cache-aside; deletion of the entries before the write | an entry is out of date only by a race, and not for long |
| Back-office users (`backoffice-user`, `internal-user`) | users, tokens | create, remove, reset, log in, guard | tokens are not revoked, each request looks its user up | who was removed stays out |
| Audit trail and reports (`common/audit`) | a queue, the audit log | record, clean up, alert, dashboard | an interceptor around every handler | one truthful entry per pass; bursts are noticed |
| Listings (`common/base-query`, `transaction`) | none | page by page queries | read tables that change meanwhile | nothing that matches is skipped |
| Start-up and application log (`main.ts`, `secrets`, `common/logger`, `common/errors`) | settings, the cloud client | load, start, log, deliver | every answer leaves an entry | one entry per answer, delivered once |
| HTTP plumbing, portal, migrations | — | — | — | not modelled, see section 7 |

The hard behaviours: delivery in any order and more than once; a handler's
writes are separate awaits, so a fault, a crash, an API request or the purge
comes between any two of them; retries restart the whole batch from its first
event; a job can be handed out twice without an attempt being counted; and the
sequence check trusts a log that is itself written last and purged.
`PROJECT.json` lists every hazard at its line.

## 2. Modules

| Module | Models |
|---|---|
| `WebhookStateMachine` | events, allowed predecessors, terminal events, `canProcessWebhook`, the mapping to transaction statuses: all data, entry for entry |
| `WebhookHandlers` | the 27 handlers as records of the five choices in which they differ, which queue runs which, and what each `onFailed` records |
| `BullQueue` | a Bull queue with custom ids under the webhook policy; an external library, modelled from how the code configures and uses it |
| `WebhookProcessor` | the composition: deliveries, the worker, faults and crashes, and the API, accounts and purge around them; states the properties |
| `PaymentFlow` | the abstract specification: histories that grow by one permitted event at a time and lose their oldest part |
| `MCWebhookProcessor` | the instances for TLC |
| `OutgoingTransfer` | one payment made through the API: the request, the provider, the webhook worker and concurrent GETs with read-repair, all writing its row and transaction; reuses the handlers and the state machine |
| `BoletoLifecycle` | one boleto: emission, cancellation, webhooks and GETs, four writers of one row who save whole entities as they read them |
| `BoletoDates` | the date checks, as functions of the request, against what they are to ensure |
| `PixQrCodes` | PIX keys at the provider; QR codes with the request, the CREATED webhook and the payment's webhook finding or missing each other's row |
| `ProviderSession` | the shared back-office token and `executeWithRetry`, up to each await |
| `ProviderCall` | the abstract specification of `executeWithRetry`: what its callers are promised, with token, logins and second attempt left out |
| `BankLogin` | bank and back-office logins, the rows they upsert, the sessions they open, payments made with them |
| `WebhookRegistration` | registration job, notification job, PATCH and DELETE; two queues with `BullQueue` |
| `WebhookIntake` | the 27 endpoints, the public-key guard, the normaliser, the processors' switches |
| `ClientPermissions` | a client's permission rows and the three cache entries, with time |
| `BackofficeUsers` | users, logins, password resets, removals and guarded requests |
| `AuditTrail`, `AuditReports` | the way of an entry into the audit log (with `BullQueue`); the alert job and the dashboard over it |
| `TransactionListing` | paging through transactions while they change |
| `ApplicationLog` | secrets, start-up, loggers' transports, request logging, delivery to the cloud |
| `MCIntegrations`, `MCPlatform` | the instances for TLC of the modules above |
| `BullQueue_proofs`, `WebhookHandlers_proofs` | lemmas: what each queue operation keeps, what the handler table gives each event |
| `WebhookProcessor_proofs`, `OutgoingTransfer_proofs`, `BoletoLifecycle_proofs`, `ClientPermissions_proofs` | the theorems about each |
| `Integrations_proofs` | the theorems about `ProviderSession`, `BankLogin`, `WebhookRegistration` and their composition |
| `Platform_proofs` | the theorems about `BoletoDates`, `BackofficeUsers`, `PixQrCodes`, `WebhookIntake`, `ApplicationLog`, `AuditTrail`, `AuditReports`, `TransactionListing` and the composition of all components of its run |

### State and actions against the code

* `place`, `payload`, `attemptsMade`, `stalledCount`: the Redis side of a job.
* `active`, `pos`, `step`: the worker's job, the `for` loop's position in the
  batch, and the await it will make next. `step` goes find → save → (qr) →
  (tx) → log: the order of the calls in every handler.
* `rows`, `txs`, `processed`, `failed`: the payment tables, the transaction
  table and the two kinds of log entry, by authentication code (conciliation id
  for a QR code; statuses keep the strings of their enum).
* `accounts`, `issuing`: registered accounts and the API's two-write requests.

`Deliver` is `enqueueWebhookEvent`. `TakeJob` starts `handleJob`. `SkipEvent`,
`AcceptEvent` and `RefuseEvent` are the three ways out of a handler's reads:
`continue`, go on to the writes, throw. `SaveRow`, `MarkQrCodePaid`,
`WriteTransaction` and `LogEvent` are its writes. `FinishJob` is the return of
`handleJob`; `AttemptFails` is the throw, Bull's attempt count and, on the last
one, `onFailed`. `DatabaseFault` makes any of these accesses throw; `Crash` is
the death and restart of the process and `RecoverStalled` Bull's reaction.
`IssueRow` / `IssueTransaction` are the saves of `PixService.transfer`,
`TedService.createTransfer`, `BillPaymentService.confirmPayment` and (row only)
`BoletoService.createBoleto` once the provider has answered. `PurgeOldLogs` is
`cleanupOldLogs`.

In `OutgoingTransfer` the payment is a PIX transfer, a TED or a bill payment
(`kind`). `api` is the next await of the request: `Submit` is the call up to the
provider request (with the first save, except for a bill), `ProviderAnswers`,
`SaveAnswer` and `CreateTransaction` the rest of the `try`, `RecordFailure` the
`catch`, which differs per kind as the code does. `worker`, `workerStep` and
`lastEvent` are the handler of one event, with the log reduced to its last
entry; `TakeEvent` and `GiveUpEvent` stand for the queue, which
`WebhookProcessor` models in full. `readers` are GETs: `ReadRow` is `findOne`,
`AskProvider`, `SaveSynced` and `SyncTransaction` the three awaits of the sync
helpers, with the status read or to be written in the reader's memory, where it
goes stale. `provider` and `had` are the provider's side, external: statuses the
code knows, in the order in which the webhook state machine expects the events.

The other components, in the same manner: one action is what happens up to the
next await, and what a party has read and not yet used is in its own record.

* `BoletoLifecycle`: `issuer` and `issuerHad` are the provider's side. `emission`
  is `createBoleto`, `cancellation` `cancelBoleto` with the entity it read,
  `clerk` the handler of one webhook, `syncs` the GETs (`findById`,
  `BoletoSyncHelper`). `SaveCancelled` and `ApplyNotice` save the entity they
  hold: `details` stands for the columns only a synchronisation fills.
* `PixQrCodes`: `codes` and `keys` are the provider's; `qrRows` the table.
  `GenerateQrCode`, `IssueQrCode` and `SaveQrCode` are the request, which comes with
  a conciliation id of the caller's choice or with none; `TakeQrNotice`, `FindQrRow`
  and `SaveQrRow` the two handlers, look-up and save apart. The look-up is by
  conciliation id alone (`RowsOf`), so of codes that share one it finds any row;
  a row's `code` is its `encodedValue`, which the CREATED webhook overwrites.
* `ProviderSession`: `calls[c].step` is the await of `executeWithRetry`;
  `OnError` is its `catch`; tokens are numbered by the login that made them.
  `SessionHasExpired` is the provider's refusal in a 200 answer. `OutcomeOf` reads
  from a call's record how it ended, as its caller sees it.
* `BankLogin`: `FindOnboarding`, `SaveOnboarding`, `FindAccount`, `SaveAccount` and
  `CreateSession` are the awaits of `loginApiBank`; `DuplicateKey` the unique
  indexes; `MakePayment` is `ProviderAuthGuard` and what the services take from
  the session.
* `WebhookRegistration`: `RegisterAtProvider`, `SaveWebhook`, `EnqueueSuccess` are
  the job; `ErrorIsSwallowed` its `catch`; `edits` are PATCHes and DELETEs
  (`StartEdit`, `EditAtProvider`, `EditRow`). `issued` is the provider's list.
* `WebhookIntake`: a `post` passes `CanActivate` and `EnqueueWebhookEvent`;
  `HandleJob` is the switch of `handleJob` (what the handler does then is
  `WebhookProcessor`).
* `ClientPermissions`: a check is `inquiry`, its two halves side by side as
  `Promise.all` runs them; an operation is the `program` of awaits it still has
  to make, so that `updateClientPermissions` is visibly deletion of the entries,
  removal of all rows, and per permission deletion again and an insert. `Tick`
  is time.
* `BackofficeUsers`: `attempts` are logins (`StartAttempt` reads the row,
  `CompareAndSign` signs), `guarded` requests with a token, `removing` the two
  writes of `remove`. `gone` and `after` remember whose removal had been answered
  when something began.
* `AuditTrail`: a request is refused or accepted by the guard of its operation
  (`by`), ended by its handler, recorded once per installation of the interceptor
  (`Passes`: twice for the configuration of a provider, the one audited operation
  that only `ClientGuard` is in front of). `bearer` says whether it has a token, which
  `ResolveRequestIdentity` decodes and does not verify.
  `QueueEntry` is not awaited by the request. The table is a set of rows with ids,
  as the entity has them: the same job written twice makes two rows. `LogAuditEntry` and `LogFails` are
  `AuditService.log`, `CleanUp` the retention job.
* `AuditReports`: `trail` is the log with times; `CheckSuspiciousActivities` the
  cron job; the dashboard's operators are functions of the log.
* `TransactionListing`: `ExecuteQuery`, `CountRows`, `HydrateTransactionRelations`
  are the three queries of a page, `NextPage` the client's next request, and
  `CreateFromWebhook`, `UpdateStatus`, `SavePayment` the writers in between.
* `ApplicationLog`: `LoadSecretsFromVault`, `CreateApplication` and `Exit` are
  `main.ts`; `FinishResponse` and `CatchException` the interceptor and the filter;
  `MakeNotModified` is Express, which turns a 200 into a 304. `LogEntry` is the way
  through the logger (`Shows`: `LOG_LEVEL`) and the cloud transport (`StartUpLike`:
  what its patterns for start-up messages match); `SendLog`, `InitializeClient`,
  `PutLogs` are the cloud provider.

### Simplifications

* One queue and one worker: the four queues share no payment, each has one
  unnamed `@Process()`, and `ecosystem.config.js` runs one instance.
* Waiting jobs are taken in any order, a superset of Bull's.
* A handler's two or three reads are one step, at the last of them: rows and
  accounts are never removed, and only the worker writes the log, apart from the
  purge, which is covered because `PurgeOldLogs` may come right after.
* `onFailed` is one step: its writes are to different codes and each swallows
  its own error.
* The purge removes old entries of one code per step; a run of the cron job is
  a sequence of them. Any prefix may be old.
* A boleto is found by authentication code; the fallback by `ourNumber` is left
  out. Payloads are reduced to event, codes and two facts about them (is the code
  in `data`; is the recipient's account number given).
* Empty batches and requests without an idempotency key are not sent. A request
  with an invalid public key is answered and dropped: a stuttering step.
* A lock that expires under a living worker (a blocked event loop) is left out:
  a job is handed out again only after a crash.
* A payment in `OutgoingTransfer` gets each webhook once (duplicates are the
  other module's subject); a provider refusal and an error before the request
  reached it are one action.
* `createFromWebhook`'s look-up and insert are one step there; losing the race on
  the unique key is a failure of that write, which is a fault.
* Log entries of one payment have distinct creation times.
* Boletos: one boleto, one cancellation; each webhook comes once. `updateBoleto` and
  `processWebhookUpdate` are left out, since nothing calls them.
* Permissions: one client with one role, one administrator's operation at a time;
  time passes only while no check and no operation is under way, because the
  entries live 30 minutes and these take milliseconds. Operations of the service
  that no endpoint calls yet are included.
* Logins: one bank user; two clients may list the same of the user's accounts.
* Registrations: a failed notification, which Bull keeps for an hour under an id
  of its own, is taken as removed.
* QR codes: the ids the provider makes up are distinct; those that callers choose may
  repeat. The first payment of a code is modelled, and each webhook comes once.
* Log: `verbose` is like `info`, as nothing is logged at it. Start-up-like entries
  are a constant, and so are the levels at which services log their messages.
* Audit: an entry is who and how it ended; the captured values are left out.
* Listing: no transaction is deleted (the code deletes none).

## 3. Properties

| Property | Meaning | Run |
|---|---|---|
| `TypeOK` | types, attempts ≤ limit, stalls ≤ limit | `webhooks` |
| `SettledPaymentsAgree` | between handlers and without faults, the row and the transaction of a received payment are those of its last logged event | `webhooks` |
| `NoEventLost` | when a job leaves the queue, each of its events is logged as processed, logged as failed, or one the code drops on purpose | `webhooks` |
| `RowAtMostOneEventAhead` | whatever fails, a row is at its last logged event or one permitted event ahead | `webhooks_faulty` |
| `TerminalIsFinal` | a payment with a terminal event logged keeps row and transaction | `webhooks_faulty` |
| `TransferDuplicatesAreIgnored` | a PIX or TED event that was processed never changes the row again | `webhooks_faulty` |
| `LogFollowsStateMachine` | the log of a payment is a path of the state machine, from its start unless purged | `retention` |
| `FlowSpec` | the log refines `PaymentFlow` | `retention` |
| `EveryJobLeavesQueue` | every job ends | `live` |
| `RowWasTrue` | a row shows only statuses the payment has had at the provider, and the API's failure mark, without faults, only if the provider does not have it | `transfers` |
| `DoneWasExecuted` | a transaction is DONE only if the provider carried the payment out (for a TED: approved it) | `transfers` |
| `CodedPaymentsHaveTransaction` | a request that ended without faults leaves no coded payment without a transaction | `transfers` |
| `RepeatedReadsCatchUp` | if clients keep reading, the row ends up at the provider's status for good | `transfers` |
| `IntegrationsTypeOK`, `PlatformTypeOK` | types of the components of the run | `integrations`, `platform` |
| `BoletoRowWasTrue` | a boleto's row shows only statuses the boleto has had at the provider, however stale the entities are that its four writers save | `integrations` |
| `BoletoSettled` | at rest and with no webhook missed, whatever else failed, the transaction tells how the boleto ended | `integrations` |
| `BoletoReadsCatchUp` | if clients keep reading, the row ends up with the provider's status and all details for good, also after a stale save erased them | `integrations` |
| `CallsKeepPromise` | `executeWithRetry` refines `ProviderCall`: a call that returned was carried out once, one that was refused never, and nothing is done for a call that has ended | `integrations` |
| `ExpiryOnlyOnOwnToken` | a call fails for an expired session only on a token of its own second login | `integrations` |
| `EveryCallEnds` | a call ends | `integrations` |
| `RowsMirrorProvider` | one POST, at most one webhook at the provider (one more per worker crash); without failures table and provider agree, except in the uri when two PATCHes crossed | `integrations` |
| `ClientsAreTold` | only saved webhooks are notified; without failures exactly once | `integrations` |
| `RegistrationsEnd` | a queued registration ends | `integrations` |
| `PaymentsActForTheirClient` | a payment is made for a saved account of its own client | `integrations` |
| `LoginFailsOnlyByOverlap` | a login the provider granted fails only by a fault or by racing another one, never by what an earlier one left | `integrations` |
| `OutOfDateOnlyByOverlap` | a cache entry differs from the rows only if a check overlapped an operation, a deletion failed, or a role was changed | `platform` |
| `OutOfDateForTwoLifetimes` | and never for more than two lifetimes | `platform` |
| `EntriesTellWhatHappened` | audit entries tell how the request ended and name who made it, if a guard verified that, and otherwise whoever the token claims, or nobody; without failures exactly one per pass | `platform` |
| `ListingsMissNothing` | paging skips nothing that matched all the time, unless rows stop matching or tie; what is shown under a status has it, with details no older | `platform` |
| `BurstsAreReported` | a burst shorter than window less interval is warned of, unless a run was skipped | `platform` |
| `DashboardAddsUp` | the dashboard's figures are consistent | `platform` |
| `RemovedUsersStayOut` | nothing a removed user starts after the removal is granted | `platform` |
| `ReceivedEventsAreHandled` | an accepted request's events reach the handler of the documented event, for the key's client and under the payment's code, unless displaced by a job with the same key | `platform` |
| `AnswersAreLoggedOnce` | one entry per answer, with its status, unless it is a 304 or `LOG_LEVEL` keeps it out | `platform` |
| `EntriesReachTheCloud` | one client is built, and each entry that passes `LOG_LEVEL` and does not look like a start-up message is put once unless the log service failed | `platform` |
| `OneRowPerQrCode` | the codes of a conciliation id have no more rows than they are, but for one inserted by a webhook that overtook the request; a code without an id at most two | `platform` |
| `PaidQrCodesAreMarked` | a paid code is PAID, unless payment and creation were handled in the wrong order or another code has its conciliation id; PAID rows have an id of which a code was paid | `platform` |
| `IssuedBoletosCanBeSaved` | the date checks pass exactly the requests that are in order and can be saved, but for interest and fine without `closePayment` | `platform` |

Several of these carry an exception ("unless", "only if"): it is the case in
which the code does let the thing happen, and the property says that there is no
other. `PROJECT.json` names these cases among the hazards:

* a check that read its rows before an operation's write and stores them after
  its deletions keeps revoked permissions alive, for up to two lifetimes if the
  `effective` entry is filled from another one that is about to expire; role
  changes delete no entry at all;
* a DELETE and a PATCH never disagree, but two crossing PATCHes may leave the row
  with one uri and the provider with the other;
* a QR code can have two rows, and a CREATED webhook takes PAID back; of codes that
  share a conciliation id, of one client or of several, a payment of one may mark
  the row of another, and a CREATED webhook of one give its code to the other's row;
* the entries of a provider's configuration name nobody, or whoever a token that
  nothing verified claims, although `auditoria.manual.ts:14` says that `userId` is
  the user who did it; the interceptor only warns of a missing one;
* an answer that Express makes a 304 is logged by nobody, and `LOG_LEVEL` at `warn`
  or `error` silences every success;
* an entry whose message has the words of a start-up message never reaches the cloud, a
  request's included, as its first path segment and correlation id are in the message;
* without `closePayment`, an interest or fine date written as an instant passes
  the checks, the provider issues the boleto, and `parseDateOnly` throws before
  it is saved;
* the cloud log stays silent after one failed initialisation.

Five runs end in a counterexample on purpose. Three check what the webhook
manual (`webhook/docs/webhooks.manual.ts:28-30`) promises:

* `duplicate_reopens`: "duplicate webhooks are detected and ignored".
  `BILL_PAYMENT_WAS_RECEIVED`, `BOLETO_WAS_REGISTERED` and
  `PIX_QRCODE_WAS_CREATED` are applied without the sequence check, so a late
  duplicate takes a confirmed bill payment back to `CREATED`. (For the same
  reason `LogFollowsStateMachine` allows these three events anywhere.)
* `retry_leaves_gap`: "automatic retry". A fault after a cash-in's row is saved
  and before its transaction is: the retry finds the row, skips the event and
  succeeds; the statement never shows the payment.
* `failure_unrecorded`: "dead letter queue". A PIX or TED event whose code is
  only in the envelope (`entityId`), which the handlers accept, leaves no trace
  when its attempts are used up: the job is removed and `onFailed` skips it.

Two check what `transaction/enums/transaction-status.enum.ts` says of a status:

* `early_webhook`: PENDING is "awaiting processing". A webhook handled between
  the save of the authentication code and the insert of the transaction finds no
  transaction to update; the request then creates it as PENDING. Row and provider
  agree, so read-repair, which looks at the row only, never notices.
* `approved_shown_done`: DONE is "successfully concluded". `TedSyncHelper` takes
  the provider's APPROVED for DONE, though an approved TED can be cancelled and
  the webhook for the same status makes it APPROVED / IN_PROCESS.

That is also why `RepeatedReadsCatchUp` is about the row and not about the
transaction, and why `RowWasTrue` has an exception for approved TEDs.

## 4. Runs and bounds

A scenario is one kind of payment with every event the provider can send about
it; a behaviour looks at one, since payments of different kinds share only the
worker. Scenarios cover all 27 handlers: `pixInbound` (cash-in paying a QR
code, its refund), `tedInbound` (a batch of two and an overlapping delivery),
`tedRefund`, `tedOutgoing`, `pixOutgoing` (a batch of two), `boleto`, `bill`,
`uncoded`.

| Bound | Value | Why it is enough |
|---|---|---|
| `MaxDeliveries` | 4 (3 with faults or purges, 2 in `live`) | the longest chain of the state machine has three events, so 4 is the chain with a duplicate or an intruder anywhere |
| `MaxAttempts` | 2 | a first, a non-last and a last attempt; the code's 5 adds more of the same |
| `MaxFaults` | 1 (`webhooks_faulty`, `transfers`), 2 (`live`) | one fault at every point of a handler; two stalls exceed Bull's limit |
| `MaxStalledCount` | 1 | Bull's default |
| `Reader` | 2 (`transfers`) | two repairs in opposite orders, with the webhook worker as a third writer |
| `MaxPurges` | 2 | before and between a handler's decision and its write |

`integrations` and `platform` look at one component in each behaviour too, chosen
at the start (`scenario`): these components share no state, so what one does
tells nothing of another, and products of their states would only cost time.

| Bound (`integrations`) | Value | Why it is enough |
|---|---|---|
| `BoletoReader`, `MaxBoletoFaults` | 1, 1 | a GET beside the request, the cancellation and the worker makes four writers; the proof is for any number |
| `Caller`, `MaxSessionFaults` | 2, 1 | each may drop what the other stored |
| `Registration`, `Uri`, `Edit` | 1, 2, 2 | two edits cross each other and the registration |
| `MaxRegistrationErrors`, `MaxRegistrationCrashes` | 1, 1 | an error and a crash at every point |
| `Client`, `BankAccount`, `Login`, `Payment` | 2, 2, 2, 1 | two logins of one client race, or of two clients share an account |

| Bound (`platform`) | Value | Why it is enough |
|---|---|---|
| `Permission`, `TimeToLive`, `MaxChanges` | 2 (lists: none, both), 2, 2 | an operation stops between two permissions; an entry ages while another is fresh; a check meets two operations |
| `Request`, `MaxAuditErrors`, `MaxAuditCrashes` | 1, 1, 1 | every guard, with and without a token; behind `ClientGuard` two jobs of one request |
| `MaxTransactions`, `MaxPaymentVersions`, `MaxLimit` | 3, 2, 2 | full, partial and following pages, ties, rows inserted in front and behind |
| `CheckInterval`, `Window`, thresholds, `MaxLogged` | 2, 3, 2 and 3, 3 | a burst inside, across and outside a window |
| `UserClient`, `Email`, `MaxUsers`, `LoginAttempt`, `GuardedCall` | 2, 1, 2, 1, 1 | a removed user and one created again; the proof is for any number |
| `PublicKey`, `Post` | 2, 2 | every event in a batch, a second request with the same first event |
| `HttpRequest`, `ServiceMessage`, `MaxLogFaults` | 2, 1, 1 | entries before, while and after the client is built; every `LOG_LEVEL` |
| `MessageLevel`, `StartUpLike` | `warn`, one request | with the requests, entries of three levels; the transport skips one of two requests |
| `PixKey`, `QrRequest`, `ConciliationId`, `MaxQrFaults` | 1, 2, 1, 1 | two codes that share the id, and codes of which one or both have none |
| `LastDay`, `Today` | 4, 1 | dates before, on, between and after all others, each as a day and as an instant; the proof is for any number of days |

All runs set `CHECK_DEADLOCK FALSE`: once the bounded deliveries are sent and
the queue is empty, or the bounded requests are made, the system rightly stops.
Sizes: `webhooks` 350k states, `webhooks_faulty` 630k, `retention` 72k, `live`
104k, `transfers` 923k, `integrations` 396k, `platform` 2.14M.

`SettledPaymentsAgree` is limited to payments that only webhooks create: for the
others the API's later insert of a `PENDING` transaction may come after a
webhook, which is the subject of `OutgoingTransfer`. `TransferDuplicatesAreIgnored`
leaves out the QR code event, one of the three unchecked ones.

### Fairness (`live`)

* `WF(Work)`: a started handler runs on; the awaits return or throw.
* `SF(TakeJob(k))`: a waiting job is enabled whenever the worker is idle, which
  comes and goes; Bull's wait list is first in, first out, so it is not passed
  over for ever.
* `WF(RetryLater(k))`, `WF(RecoverStalled(k))`: Bull's delay and stall timers.

Nothing is assumed of the provider, the API, accounts, faults or the purge, and
faults are bounded: with a fault at every attempt a job still ends, by its
attempt count, but with a crash at every attempt it ends by the stall limit.

### Fairness (`transfers`)

`WF` of the request's, the handler's and each repair's next step: what was
started in the process goes on. When the worker takes an event, what the
provider does and whether clients read is left open; `RepeatedReadsCatchUp` has
"clients read again and again" as its hypothesis.

### Fairness (`integrations`)

* `BoletoFairness`: `WF` of a started save, of the handler's and of each GET's next
  step. The provider, further webhooks, new GETs and cancellations are left open;
  `BoletoReadsCatchUp` has "clients read again and again" as its hypothesis.
* `SessionFairness`: `WF` of each call's next step. A call makes at most two
  attempts, so nothing is assumed of when tokens expire.
* `RegistrationFairness`: `WF` of the two workers' next steps and of Bull's timers
  and look-ups of waiting jobs. There `WF` is enough: the one registration is
  passed over by no other.

`platform` states safety only and assumes no fairness.

Each property has a mutant in `PROJECT.json`: an operator commented as a variant
in the module, a mistake of the kind one makes in this code, under which TLC
finds the property violated.

## 5. Proofs

Each theorem is for every value of the constants: any number of payments,
deliveries, readers, logins, requests, faults and so on. None of the properties is
inductive as it stands; the invariant that is stands before the lemmas that prove
it. The proof that a step keeps it has one step or lemma per action.

`BullQueue_proofs` and `WebhookHandlers_proofs` hold lemmas: per queue operation,
that types are kept, other jobs are untouched and data is kept; per handler, what
the table gives its event and which status it writes.

### `WebhookProcessor_proofs`

* `TypeCorrect`: `Spec => []TypeOK`. That `TheEvent` and `TheCode` mean anything
  needs `JobsHavePayload` (an existing job has a delivery as its data) and
  `WorkerHoldsJob` (the worker's job is active in the queue, and between the writes
  of a handler the position is in the batch). The attempt count stays in range
  because a job that reaches the limit is removed, the stall count likewise.
* `LogFollows`: `Spec => []LogFollowsStateMachine`. A handler decides some writes
  before it appends to the log. `LogInv` adds `Decided` (the decision still stands:
  the event may follow the last entry, or the log was purged empty meanwhile),
  `LoggedHaveRow` (a payment with a log has a row: the handlers that create a row
  do not look at the log, so this is what makes their event a first one) and
  `Saved` (the row is there from its save to the log entry). Crashes, faults,
  stalls and duplicates need no case of their own beyond "the log and the rows are
  untouched and the worker starts over" (`LogUntouched`); the purge keeps the end
  of a log (`PurgeKeepsEnd`).
* `ImplementsFlow`: `Spec => FlowSpec`, the refinement with
  `history <- processed` and `forgotten <- purges > 0`, from the same invariant:
  `LogEvent` is `Advance`, `PurgeOldLogs` is `Forget`, all else stutters.
* `RowKeepsUp`: `Spec => []RowAtMostOneEventAhead`. `RowInv` adds `SavedRow`: between
  the save and the log entry the row has the status of the event in hand, and
  `LogInv` says that this event may follow the last one.
* `DuplicatesLeaveTransfers`: `Spec => TransferDuplicatesAreIgnored`. `HistoryInv`
  says that a payment's log has only events delivered about it and that the stages
  of a transfer's log go up (`LogsGoOn`), so an event that is in the log is not
  permitted again.
* `TerminalStaysFinal`: `Spec => TerminalIsFinal`. After a terminal event no
  handler's look at the log lets one through; the handlers that do not look create
  rows, and `InboundInv` says that a payment whose events are not all inbound has
  none to be created from (`OnlyInboundExist`).
* `SettledAgree`: `Spec => []SettledPaymentsAgree`. `Settling` follows the row and
  the transaction through the writes of a handler: either each agrees with the last
  log entry, or the handler that will log has written it. A handler that saved is
  left at its log entry or by a fault (`HandlerEnds`).
* `NothingIsLost`: `Spec => NoEventLost`. `Passed` says that every position of the
  batch that the worker has left behind is logged or may be dropped; what fails is
  logged by `onFailed`. The theorem has two hypotheses on the constants. With
  `ApiKnowsAccounts` the payments made through the API belong to saved accounts
  (they are made for the account of a session, which is a row: `PaidFromOwnAccount`)
  that the provider's webhooks name by number. `FailuresShow` leaves out
  what `onFailed` does not log: events whose code is only in the envelope (the run
  `failure_unrecorded` shows that those are lost) and, with faults, QR code events.
  The run `webhooks` satisfies both.
* `JobsAreBounded`: `Spec => []JobsWearOut` and the two measures are natural numbers,
  the half of `EveryJobLeavesQueue` that does not rest on fairness. A job is tried from
  its first event again and again, so no single number falls at every step; the pair of
  `RunsLeft` (attempts and stalls not yet used) and `StepsAhead` (awaits up to the end of
  the batch) does, in lexicographic order, at every step that concerns the job.
  `WearInv` adds to the types that the position stays in the batch.

### `OutgoingTransfer_proofs`

* `TransferTypeCorrect`: `Spec => []TypeOK`.
* `RowNeverAhead`: `Spec => []RowWasTrue`, and `DoneNeverAhead`:
  `Spec => []DoneWasExecuted`. A status is written long after it was obtained.
  `TransferInv` adds that whatever a party may still write was true when it got it:
  the webhooks sent and the one being applied (`EventsTrue`), the answer in the
  request's memory (`RequestTrue`), the status each GET read from the provider
  (`ReadsTrue`); and that before the provider has the payment there is neither
  history nor webhook (`HistoryKept`). The provider's history only grows
  (`HistoryGrows`), so what was true stays true however late it is written
  (`TruthStays`).
* `NoCodeWithoutTransaction`: `Spec => []CodedPaymentsHaveTransaction`. `Accounted`
  says at which await of a fault-free request the row has its code and the payment
  its transaction.

### `BoletoLifecycle_proofs`

* `BoletoTypeCorrect` and `RowsWereTrue` (`BoletoSpec => []BoletoRowWasTrue`), by
  the argument of `RowNeverAhead`: `BoletoInv` says of every copy a writer holds
  (the request's, the cancellation's entity, the notices sent and the one being
  applied, the status each GET read) that the boleto had that status.
* `TransactionsTellTheEnd`: `BoletoSpec => []BoletoSettled`. `SettledInv` follows the
  news of the end: with no webhook missed it is in a notice or in the log
  (`NothingDropped`), a handler writes the transaction before the log
  (`TransactionAhead`), and PAID and CANCELLED are final at the provider (`Ended`),
  so that nothing logged later takes it back.

### `ClientPermissions_proofs`

* `PermissionTypesCorrect`: `PermissionSpec => []PermissionTypeOK`.
* `WrongForTwoLifetimes`: `PermissionSpec => []OutOfDateForTwoLifetimes`. That an
  entry is out of date is bounded by nothing but its age, so `AgeInv` relates the
  two: a `direct` or `roles` entry that differs from the rows is at least as old as
  the silence since the last write (`SourcesAgeWell`), the `effective` entry, filled
  from them, has one lifetime more (`EffectiveAgesWell`), and what a check under way
  has read obeys the same bounds (`InquiryOK`).
* `WrongOnlyByOverlap`: `PermissionSpec => []OutOfDateOnlyByOverlap`. `OverlapInv`
  looks at the calls an operation has still to make: before each that changes a row
  there is one that deletes each entry (`DeletedFirst`), or the entry is gone and no
  check is about to fill it (`CleanMeansCurrent`). This is a fact about the order of
  the calls in every operation of the service; a role change has none of the
  deletions, hence the exception in the property.

### `Integrations_proofs`

* `SessionTypeCorrect`, `RefusedOnOwnTokenOnly`, and `ImplementsProviderCall`:
  `SessionSpec => CallsKeepPromise`, the refinement of `ProviderCall` with
  `outcome[c] <- OutcomeOf(calls[c])` and `performed <- times`. `SessionInv` says what a
  call's record tells at each await (`CallOK`: after the renewal in a second attempt the
  token is one of the call's own logins) and that nothing was carried out for a call
  that has not ended (`TimesOK`); with it the last step of a call is `Return`, `Refuse`
  or `LeaveOpen`, and every other one stutters.
* `CallsAreBounded`: a call has at most ten steps left (`StepsLeft`) and each one leaves
  it fewer (`CallsRunOut`), whenever tokens expire and whatever the other calls do.
* `LoginTypesCorrect`, `PaidFromOwnAccount`, `LoginsFailByOverlap`. `LoginInv` says of
  the tables that a session names a saved account of its client (`LoginTables`,
  `LoginUses`), and of each login that what it has saved are rows of its client
  (`SavedItsOwn`), that what it found missing while it was alone is missing still
  when it saves it (`MissingStill`), that two under way for one client know of each
  other (`RivalsKnow`), and that one that failed has its reason
  (`FailedForAReason`).
* `RegistrationTypesCorrect`, `ToldOncePerWebhook` (`ClientsAreTold`),
  `TableMirrorsProvider` (`RowsMirrorProvider`). `RegistrationInv` ties workers to
  their jobs (`WorkersHold`), edits to rows (`EditsOfRows`), and counts: a request
  is registered once, and once more only for a worker that died with its job
  (`RunsCounted`). On top of it, `TellInv` says that without
  failures a notification is exactly one of: about to be queued, queued, arrived;
  and `MirrorInv` that table and provider differ only by the answer the worker has in
  hand and by what edits have done at the provider and not yet to the row.
* `RegistrationsAreBounded`: whatever happens to a queued registration leaves it fewer
  of at most ten steps (`StepsToEnd`, `RegistrationsRunOut`): a worker that dies costs it
  one of Bull's stalls, an error ends it.
* `IntegrationsTypesCorrect`: `IntegrationsTypeOK` of the composition `MCSpec`, and
  `IntegrationsCorrect`: all safety the run checks, and the refinement, of `MCSpec`.

### `Platform_proofs`

* `IssuedCanBeSaved`: the three date checks, in half days, are what they should be in
  days (`DueDateChecked` and its sisters), and together they amount to `InOrder` and
  `CanSaveEmitted`.
* `RemovalsLast`. `UserInv`: whose removal was answered is marked deleted
  (`GoneAreMarked`), no operation takes a mark back (`RowsKept`), and what a login or
  request remembers of the removals before it is part of them (`AttemptsOK`,
  `RequestsOK`).
* `OneRowEach`, `PaymentsMarkCodes`. `QrInv` counts the rows of a conciliation id
  against the requests that saved one and the notice that may have overtaken them, and
  says that the handler inserts only if no row has the id; a payment marks the row that
  the creation found or made, which for an id no other code has is the code's own.
* `NoReceivedEventIsDropped`. `IntakeInv` adds that a request which passed the guard
  has its client from the key's row (`RequestsGuarded`), that a job holds what one
  request put there (`JobsOfRequests`), and that a job was refused only for one of
  the same queue and first event (`RefusalsExplained`). That each endpoint's event has a case in
  the switch of its queue is a fact about the table of the 27 endpoints.
* `OneEntryPerAnswer`, `EntriesPutOnce`. `LogInv`: a request's entries are those of
  its step (`EntriesOfRequests`), there is one client (`OneClient`), nothing is sent
  without the cloud as its destination or after a failed start (`NothingSent`), no entry
  twice (`SentOnce`), and one that was let through, is not `StartUpLike` and is missing
  met a fault (`MissedByFault`).
* `EntriesAreTrue`. `AuditInv` follows each job from the interceptor over Redis to the
  table (`AuditJobOK`): what it carries is the requester found in user, session or
  token (`IdentityIsFound`) and the outcome, and its rows are at most one, and one more
  per crash. That the token is the requester's rests on the guard of internal
  operations, which lets nothing without one in (`TokensChecked`).
* `PagesMissNothing`. `ListingInv`: a row that matched all the time has been shown, or
  has all the pages read so far in front of it (`ReachedOrAhead`), and while rows
  only come in, what is in front of it only grows; `PageHolds` and `LastPageCovers`
  are the arithmetic of offset and limit.
* `BurstsAlwaysReported`. `ReportInv`: entries are of the past (`EntriesInThePast`), and
  the next check is at most one interval away and never overdue (`CheckIsNear`); hence an
  unskipped check has the whole burst in its window. Its queries count by address and
  user, and by user and action, and it warns by the sums over the groups of one address
  or user: `GroupsAddUp` shows that these are the number of entries, however they are
  spread over groups.
* `DashboardAlwaysAddsUp`. The counts by action add up to the total (`TypesAddUp`, by
  `GroupsAddUp`), and a finite set of counts can be put in order (`CanBeSorted`), so that
  the list of top users, the choice of such an order, is one.
* These two replace what would be inductions over data. `GroupsAddUp` numbers the
  entries of each group and pairs them off with the numbers that are added up;
  `CanBeSorted` looks at a smallest set that cannot be sorted, which exists because `<` is
  well-founded (`LeastNumber`).
* `PlatformTypesCorrect`: `PlatformTypeOK` of the composition `MCSpec`; a step of one
  component leaves the others alone (`ComponentsStep`).
* `PlatformCorrect`: `MCSpec => []PlatformInvariants`, everything the run checks at once.
  A behaviour of the composition is one of each component (`BehaviourOfEach`), to which
  the component's theorem applies.

### Assumptions

The assumptions used are the named `ASSUME`s of the modules, which TLC evaluates in
the runs. Most say that a bound is a natural number or that a marker such as `NoRow`
is not a value. The others, and what in the code they stand for:

* `TablesAssumption`: all events about one code belong to one kind of payment, since
  authentication codes are given by the provider per payment (`rows` has one entry
  per code for all tables).
* `RegistrationAssumption`: finitely many registrations, each with an external id.
* `RequestAssumption`, `UserValuesAssumption`: there is someone to make a request, and
  there are values for a user's columns.
* `ListingBoundsAssumption`, `ReportBoundsAssumption`: a payment row has at least its
  first version; bounds are natural numbers.
* `RequesterAssumption`: the marker of a missing user is no requester's name.
* `QrAssumption`: the conciliation ids that the provider makes up are no other code's.
* `LogAssumption`: each message has a level, and the entries the transport skips are
  some of the requests and messages.
* `AuditTimesAssumption`, `TopLimitAssumption`, `NobodyAssumption`: the window of the
  alert job is no shorter than its interval (an hour and ten minutes in the code), the
  list of top users has a length, and the missing user id is not a user.

One assumption is about the environment and stands in no module: Redis keeps the
queues. What `BullQueue` calls a crash is that of the application's process, and its
jobs survive it. `docker-compose.yml` runs Redis with `appendonly no` and the eviction
policy `allkeys-lru`, so a restart of Redis, or its memory running full, may lose jobs;
nothing here speaks of that.

TLC finds every one of these inductive invariants to hold on the instances of the
runs `webhooks`, `webhooks_faulty`, `transfers`, `integrations` and `platform`, too.

### Only model-checked

Liveness, and everything with `ENABLED`, which the proof system does not handle:
`EveryJobLeavesQueue`, `RepeatedReadsCatchUp`, `BoletoReadsCatchUp`,
`EveryCallEnds`, `RegistrationsEnd`. Of the first and the last two the half that is
about the code is proved (`JobsAreBounded`, `CallsAreBounded`,
`RegistrationsAreBounded`: only so many steps can be taken); that a step which can
be taken is taken in the end, which is the fairness of section 4, is TLC's part.
The two about reads have no such measure: the provider's state and new readers may
undo what an earlier read achieved, and they claim only that it settles.

Every invariant and action property of a passing run is stated by a theorem. The
runs that expect a violation have none, naturally. No module declares a recursive
operator.

## 6. Plan

In this order; done so far: 1 to 10, of item 9 the first specification.

1. `WebhookStateMachine`, `WebhookHandlers`, `BullQueue`, `WebhookProcessor` with
   faults, crashes, retention and liveness.
2. `PaymentFlow` and the refinement.
3. Proofs: types, `LogFollowsStateMachine`, the refinement; the types and
   `RowWasTrue`, `DoneWasExecuted` of item 4.
4. `OutgoingTransfer`: `PixService.transfer` / `TedService.createTransfer` /
   `confirmPayment` with the provider's own state, lost answers and the
   REPROVED/FAILED error path, webhooks and read-repair racing each other.
5. What acts at the provider on its own initiative: `BoletoLifecycle`,
   `ProviderSession`, `WebhookRegistration`, `BankLogin`.
6. What surrounds the payments: `ClientPermissions`, `AuditTrail`, `AuditReports`,
   `TransactionListing`, `BackofficeUsers`, `WebhookIntake`, `ApplicationLog`,
   `PixQrCodes`, `BoletoDates`.
7. Proofs for `BoletoLifecycle`, `ProviderSession`, `ClientPermissions`,
   `BackofficeUsers`.
8. Proofs of every other safety property but those of `AuditReports`: the rest of
   `WebhookProcessor` and `OutgoingTransfer`, `BankLogin`, `WebhookRegistration`,
   `PixQrCodes`, `WebhookIntake`, `ApplicationLog`, `AuditTrail`,
   `TransactionListing`, `BoletoDates`; types of both compositions.
9. Abstract specifications of more components, with refinement proofs:
   `ProviderCall` for `ProviderSession` (done); the provider's list as the
   specification of `WebhookRegistration`'s table and a cache with bounded staleness
   for `ClientPermissions`, whose invariants say as much already, are left.
10. Proofs of `AuditReports`, of the compositions as wholes, and of the measures
    behind the liveness properties.
11. Composition: `WebhookRegistration` on top of `ProviderSession` (a registration
    whose session expires half-way), and `WebhookIntake` in front of
    `WebhookProcessor` with more than one client. Not begun.

## 7. Not modelled, and why

* Of the provider adapters: the HTTP client and the mapping of payloads, field by
  field; the registries are filled at start-up and hold one provider.
* Creating and renaming permissions and roles, deleting roles no client has, the
  columns of a client other than its scopes, the creation of internal users:
  single-row writes that nothing races with an effect on another row.
* Sanitising, correlation ids, response formatting, masking: functions of one
  request, which change no state.
* The other listings: they go through the base query that `TransactionListing`
  models; free-text search is SQL.
* Migrations and seeds: the unique and foreign keys they declare are facts of the
  tables modelled. The documentation portal: generated pages.
