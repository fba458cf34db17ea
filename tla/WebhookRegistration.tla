------------------------ MODULE WebhookRegistration ------------------------
(***************************************************************************)
(* A client's webhook configurations (src/webhook): POST queues a          *)
(* registration; its worker registers at the provider, saves the row and   *)
(* queues a notification of the client's success callback; PATCH and       *)
(* DELETE call the provider first and write the row afterwards.            *)
(*                                                                         *)
(* The registration job swallows every error, so Bull never repeats it     *)
(* but for the crash of a worker; the notification job lets errors out and *)
(* is repeated.  A failed notification is kept for an hour, but its id is  *)
(* not chosen by the code, so BullQueue's removal stands for both.         *)
(***************************************************************************)
EXTENDS Naturals, Sequences, FiniteSets

CONSTANTS
  Registration,     \* POST requests
  Uri,              \* uris a webhook is given
  Edit,             \* PATCH and DELETE requests
  MaxRegistrationErrors, MaxRegistrationCrashes   \* bounds failures and crashes

ASSUME RegistrationBoundsAssumption ==
  MaxRegistrationErrors \in Nat /\ MaxRegistrationCrashes \in Nat

VARIABLES
  issued,         \* the provider's registrations; the nth has external id n
  rows,           \* the webhook table, by external id
  regPlace, regPayload, regAttempts, regStalls,        \* queue "webhook"
  tellPlace, tellPayload, tellAttempts, tellStalls,    \* "webhook-registration-success"
  registrar,      \* the worker of the first queue
  teller,         \* the worker of the second: the notification it delivers
  told,           \* how often each notification reached the client
  edits,
  crossed,        \* two PATCHes of one webhook wrote in different orders
  registrationErrors, registrationCrashes

regVars == <<regPlace, regPayload, regAttempts, regStalls>>
tellVars == <<tellPlace, tellPayload, tellAttempts, tellStalls>>
faultVars == <<registrationErrors, registrationCrashes>>
registrationVars == <<issued, rows, regVars, tellVars, registrar, teller, told, edits,
                      crossed, faultVars>>

DefaultQueueAttempts == 3
DefaultMaxStalledCount == 1

\* Every run of a job issues at most one registration.
ExternalId == 1 .. Cardinality(Registration) * (1 + DefaultMaxStalledCount)
NoId == 0

RegisterWebhookJob == [uri : Uri, callback : BOOLEAN]
NoUri == "none"
NoJob == [uri |-> NoUri, callback |-> FALSE]
NoRegistration == "none"

ASSUME RegistrationAssumption == IsFiniteSet(Registration) /\ NoRegistration \notin Registration

RegQueue == INSTANCE BullQueue WITH
  JobId <- Registration, Payload <- RegisterWebhookJob, NoPayload <- NoJob,
  MaxAttempts <- DefaultQueueAttempts, MaxStalledCount <- DefaultMaxStalledCount,
  place <- regPlace, payload <- regPayload,
  attemptsMade <- regAttempts, stalledCount <- regStalls

TellQueue == INSTANCE BullQueue WITH
  JobId <- ExternalId, Payload <- Uri, NoPayload <- NoUri,
  MaxAttempts <- DefaultQueueAttempts, MaxStalledCount <- DefaultMaxStalledCount,
  place <- tellPlace, payload <- tellPayload,
  attemptsMade <- tellAttempts, stalledCount <- tellStalls

Webhook == [uri : Uri, deleted : BOOLEAN, callback : BOOLEAN]
IdleRegistrar == [job |-> NoRegistration, step |-> "register", id |-> NoId]

RegistrationTypeOK ==
  /\ issued \in Seq([by : Registration, uri : Uri, deleted : BOOLEAN])
  /\ DOMAIN rows \subseteq DOMAIN issued
  /\ \A id \in DOMAIN rows : rows[id] \in Webhook
  /\ RegQueue!QueueTypeOK
  /\ TellQueue!QueueTypeOK
  /\ registrar \in [job : Registration \cup {NoRegistration},
                    step : {"register", "save", "enqueue"}, id : ExternalId \cup {NoId}]
  /\ teller \in ExternalId \cup {NoId}
  /\ told \in [ExternalId -> Nat]
  /\ edits \in [Edit -> [step : {"idle", "provider", "row", "done"},
                         op : {"update", "delete"}, id : ExternalId \cup {NoId},
                         uri : Uri]]
  /\ crossed \in BOOLEAN
  /\ registrationErrors \in 0 .. MaxRegistrationErrors
  /\ registrationCrashes \in 0 .. MaxRegistrationCrashes

RegistrationInit ==
  /\ issued = <<>>
  /\ rows = <<>>
  /\ RegQueue!QueueInit
  /\ TellQueue!QueueInit
  /\ registrar = IdleRegistrar
  /\ teller = NoId
  /\ told = [id \in ExternalId |-> 0]
  /\ edits \in [Edit -> [step : {"idle"}, op : {"update", "delete"}, id : {NoId}, uri : Uri]]
  /\ crossed = FALSE
  /\ registrationErrors = 0
  /\ registrationCrashes = 0

Error ==
  /\ registrationErrors < MaxRegistrationErrors
  /\ registrationErrors' = registrationErrors + 1
  /\ UNCHANGED registrationCrashes

-----------------------------------------------------------------------------
(* POST, and the registration job (handleRegistration). *)

RegisterWebhook(r, job) ==
  /\ regPlace[r] = "none"
  /\ \A id \in DOMAIN issued : issued[id].by # r
  /\ RegQueue!Add(r, job)
  /\ UNCHANGED <<issued, rows, tellVars, registrar, teller, told, edits, crossed, faultVars>>

TakeRegistration(r) ==
  /\ registrar.job = NoRegistration
  /\ RegQueue!Take(r)
  /\ registrar' = [IdleRegistrar EXCEPT !.job = r]
  /\ UNCHANGED <<issued, rows, tellVars, teller, told, edits, crossed, faultVars>>

EndRegistration ==
  /\ RegQueue!Complete(registrar.job)
  /\ registrar' = IdleRegistrar

\* The provider answers with a new id and key.
RegisterAtProvider ==
  /\ registrar.job # NoRegistration
  /\ registrar.step = "register"
  /\ issued' = Append(issued, [by |-> registrar.job, uri |-> regPayload[registrar.job].uri,
                               deleted |-> FALSE])
  /\ registrar' = [registrar EXCEPT !.step = "save", !.id = Len(issued) + 1]
  /\ UNCHANGED <<rows, regVars, tellVars, teller, told, edits, crossed, faultVars>>

\* The client is unknown, or the provider refuses.
RegistrationRefused ==
  /\ registrar.job # NoRegistration
  /\ registrar.step = "register"
  /\ EndRegistration
  /\ UNCHANGED <<issued, rows, tellVars, teller, told, edits, crossed, faultVars>>

\* The table with one more row.
Inserted(id, row) ==
  [other \in DOMAIN rows \cup {id} |-> IF other \in DOMAIN rows THEN rows[other] ELSE row]

SaveWebhookAndTell ==  \* variant: the client is told whether it asked for it or not
  /\ registrar.job # NoRegistration
  /\ registrar.step = "save"
  /\ LET job == regPayload[registrar.job]
     IN  rows' = Inserted(registrar.id, [uri |-> job.uri, deleted |-> FALSE,
                                         callback |-> job.callback])
  /\ registrar' = [registrar EXCEPT !.step = "enqueue"]
  /\ UNCHANGED <<issued, regVars, tellVars, teller, told, edits, crossed, faultVars>>

SaveWebhook ==
  /\ registrar.job # NoRegistration
  /\ registrar.step = "save"
  /\ LET job == regPayload[registrar.job]
     IN  /\ rows' = Inserted(registrar.id, [uri |-> job.uri, deleted |-> FALSE,
                                            callback |-> job.callback])
         /\ \/ job.callback /\ registrar' = [registrar EXCEPT !.step = "enqueue"]
               /\ UNCHANGED regVars
            \/ ~job.callback /\ EndRegistration
  /\ UNCHANGED <<issued, tellVars, teller, told, edits, crossed, faultVars>>

EnqueueSuccess ==
  /\ registrar.job # NoRegistration
  /\ registrar.step = "enqueue"
  /\ TellQueue!Add(registrar.id, regPayload[registrar.job].uri)
  /\ EndRegistration
  /\ UNCHANGED <<issued, rows, teller, told, edits, crossed, faultVars>>

ErrorIsThrown ==  \* variant: the catch block rethrows, and Bull repeats the job
  /\ registrar.job # NoRegistration
  /\ Error
  /\ regPlace' = [regPlace EXCEPT ![registrar.job] = "waiting"]
  /\ registrar' = IdleRegistrar
  /\ UNCHANGED <<issued, rows, regPayload, regAttempts, regStalls, tellVars, teller, told,
                 edits, crossed>>

\* The catch block logs the error, and the job completes.
ErrorIsSwallowed ==
  /\ registrar.job # NoRegistration
  /\ Error
  /\ EndRegistration
  /\ \/ UNCHANGED issued
     \/ /\ registrar.step = "register"   \* the provider's answer was lost
        /\ issued' = Append(issued, [by |-> registrar.job, deleted |-> FALSE,
                                     uri |-> regPayload[registrar.job].uri])
  /\ UNCHANGED <<rows, tellVars, teller, told, edits, crossed>>

Register == RegisterAtProvider \/ RegistrationRefused \/ SaveWebhook \/ EnqueueSuccess

-----------------------------------------------------------------------------
(* The notification job (webhook-registration-success.processor.ts). *)

TakeNotification(id) ==
  /\ teller = NoId
  /\ TellQueue!Take(id)
  /\ teller' = id
  /\ UNCHANGED <<issued, rows, regVars, registrar, told, edits, crossed, faultVars>>

Notify ==
  /\ teller # NoId
  /\ told' = [told EXCEPT ![teller] = @ + 1]
  /\ TellQueue!Complete(teller)
  /\ teller' = NoId
  /\ UNCHANGED <<issued, rows, regVars, registrar, edits, crossed, faultVars>>

\* The client's answer is an error, or is lost.
NotificationFails ==
  /\ teller # NoId
  /\ Error
  /\ \E reached \in {0, 1} : told' = [told EXCEPT ![teller] = @ + reached]
  /\ TellQueue!FailAttempt(teller)
  /\ teller' = NoId
  /\ UNCHANGED <<issued, rows, regVars, registrar, edits, crossed>>

-----------------------------------------------------------------------------
(* PATCH and DELETE (updateWebhook, deleteWebhook). *)

StartEdit(e, id) ==
  /\ edits[e].step = "idle"
  /\ id \in DOMAIN rows
  /\ ~rows[id].deleted
  /\ edits' = [edits EXCEPT ![e].step = "provider", ![e].id = id]
  /\ UNCHANGED <<issued, rows, regVars, tellVars, registrar, teller, told, crossed, faultVars>>

\* A webhook the provider does not know any more is answered with an error.
EditAtProvider(e) ==
  /\ edits[e].step = "provider"
  /\ LET id == edits[e].id
         known == ~issued[id].deleted
     IN  /\ edits' = [edits EXCEPT ![e].step = IF known THEN "row" ELSE "done"]
         /\ issued' = IF ~known THEN issued
                      ELSE IF edits[e].op = "delete" THEN [issued EXCEPT ![id].deleted = TRUE]
                      ELSE [issued EXCEPT ![id].uri = edits[e].uri]
         /\ crossed' = (crossed \/ \E other \in Edit :
                          edits[other].step = "row" /\ edits[other].id = id)
  /\ UNCHANGED <<rows, regVars, tellVars, registrar, teller, told, faultVars>>

EditRowAsRead(e) ==  \* variant: the entity that was read is saved
  /\ edits[e].step = "row"
  /\ rows' = IF edits[e].op = "delete" THEN [rows EXCEPT ![edits[e].id].deleted = TRUE]
             ELSE [rows EXCEPT ![edits[e].id].uri = edits[e].uri,
                               ![edits[e].id].deleted = FALSE]
  /\ edits' = [edits EXCEPT ![e].step = "done"]
  /\ UNCHANGED <<issued, regVars, tellVars, registrar, teller, told, crossed, faultVars>>

EditRow(e) ==
  /\ edits[e].step = "row"
  /\ rows' = IF edits[e].op = "delete" THEN [rows EXCEPT ![edits[e].id].deleted = TRUE]
             ELSE [rows EXCEPT ![edits[e].id].uri = edits[e].uri]
  /\ edits' = [edits EXCEPT ![e].step = "done"]
  /\ UNCHANGED <<issued, regVars, tellVars, registrar, teller, told, crossed, faultVars>>

EditFails(e) ==
  /\ edits[e].step \in {"provider", "row"}
  /\ Error
  /\ edits' = [edits EXCEPT ![e].step = "done"]
  /\ UNCHANGED <<issued, rows, regVars, tellVars, registrar, teller, told, crossed>>

-----------------------------------------------------------------------------
(* The queues, and a crash of the process that runs all of this. *)

OnlyNotificationsRecover ==  \* variant: a registration that lost its worker is left alone
  /\ \E id \in ExternalId :
       \/ TellQueue!Promote(id)
       \/ id # teller /\ TellQueue!Stall(id)
  /\ UNCHANGED <<issued, rows, regVars, registrar, teller, told, edits, crossed, faultVars>>

RegistrationQueues ==
  /\ \/ \E r \in Registration :
          /\ r # registrar.job
          /\ RegQueue!Stall(r)
          /\ UNCHANGED tellVars
     \/ \E id \in ExternalId :
          /\ \/ TellQueue!Promote(id)
             \/ id # teller /\ TellQueue!Stall(id)
          /\ UNCHANGED regVars
  /\ UNCHANGED <<issued, rows, registrar, teller, told, edits, crossed, faultVars>>

RegistrationCrash ==
  /\ registrationCrashes < MaxRegistrationCrashes
  /\ registrationCrashes' = registrationCrashes + 1
  /\ registrar' = IdleRegistrar
  /\ teller' = NoId
  /\ edits' = [e \in Edit |-> IF edits[e].step \in {"provider", "row"}
                              THEN [edits[e] EXCEPT !.step = "done"] ELSE edits[e]]
  /\ UNCHANGED <<issued, rows, regVars, tellVars, told, crossed, registrationErrors>>

RegistrationNext ==
  \/ \E r \in Registration : TakeRegistration(r) \/ \E job \in RegisterWebhookJob :
       RegisterWebhook(r, job)
  \/ Register \/ ErrorIsSwallowed
  \/ \E id \in ExternalId : TakeNotification(id)
  \/ Notify \/ NotificationFails
  \/ \E e \in Edit : EditAtProvider(e) \/ EditRow(e) \/ EditFails(e)
                       \/ \E id \in ExternalId : StartEdit(e, id)
  \/ RegistrationQueues
  \/ RegistrationCrash

RegistrationSpec == RegistrationInit /\ [][RegistrationNext]_registrationVars

\* The workers take jobs and go on with them; Bull promotes and recovers jobs.
RegistrationFairness ==
  /\ WF_registrationVars(Register)
  /\ WF_registrationVars(Notify)
  /\ \A r \in Registration : WF_registrationVars(TakeRegistration(r))
  /\ \A id \in ExternalId : WF_registrationVars(TakeNotification(id))
  /\ WF_registrationVars(RegistrationQueues)

-----------------------------------------------------------------------------
(* Correctness. *)

RegistrationAtRest ==
  /\ \A r \in Registration : regPlace[r] = "none"
  /\ \A id \in ExternalId : tellPlace[id] = "none"
  /\ \A e \in Edit : edits[e].step \in {"idle", "done"}
NothingFailed == registrationErrors = 0 /\ registrationCrashes = 0

\* One POST leaves one registration at the provider, errors or not, and one more for
\* each worker that died on it.  At rest, if nothing failed, the table lists the
\* webhooks the provider has: a webhook is deleted in both or in neither, however
\* DELETEs and PATCHes raced, and has the same uri unless two PATCHes crossed.
RowsMirrorProvider ==
  /\ \A r \in Registration :
       Cardinality({id \in DOMAIN issued : issued[id].by = r}) <= 1 + registrationCrashes
  /\ RegistrationAtRest /\ NothingFailed =>
       /\ DOMAIN rows = DOMAIN issued
       /\ \A id \in DOMAIN rows :
            /\ rows[id].deleted = issued[id].deleted
            /\ ~crossed /\ ~rows[id].deleted => rows[id].uri = issued[id].uri

\* A client is told of saved webhooks only, and, at rest if nothing failed, once of
\* each that it wanted to be told of.
ClientsAreTold ==
  /\ \A id \in ExternalId : told[id] > 0 => id \in DOMAIN rows /\ rows[id].callback
  /\ RegistrationAtRest /\ NothingFailed =>
       \A id \in DOMAIN rows : told[id] = IF rows[id].callback THEN 1 ELSE 0

\* A queued registration is done with: no error keeps it in its queue.
RegistrationsEnd ==
  \A r \in Registration : regPlace[r] = "waiting" ~> regPlace[r] \in {"none", "failed"}
=============================================================================
