----------------------------- MODULE AuditTrail -----------------------------
(***************************************************************************)
(* The audit trail (common/audit): AuditInterceptor sees the requests that *)
(* the guards let through, and queues an entry when the handler has ended; *)
(* nobody waits for the queue.  The audit worker inserts the entry, and    *)
(* AuditService.log swallows every database error.                         *)
(*                                                                         *)
(* The interceptor is installed for the whole application, and once more   *)
(* on FinancialProvidersController, whose one audited operation, the       *)
(* configuration of a provider, is open to any client: its requests pass   *)
(* the interceptor twice, and no guard has told who makes them.            *)
(*                                                                         *)
(* Left out: the captured values; the old ones are only looked up for      *)
(* webhooks, by an id the request does not carry.                          *)
(***************************************************************************)
EXTENDS Naturals, FiniteSets

CONSTANTS
  Request,           \* requests to audited operations
  MaxAuditErrors, MaxAuditCrashes

ASSUME RequestAssumption == Request # {}
ASSUME AuditBoundsAssumption == MaxAuditErrors \in Nat /\ MaxAuditCrashes \in Nat

VARIABLES
  requests,     \* each request: what lets it in, whether it has a token, its outcome
  adding,       \* entries on their way to Redis
  auditPlace, auditPayload, auditAttempts, auditStalls,   \* queue "audit"
  auditor,      \* the worker: its job, and whether the entry is written
  entries,      \* the rows of the audit_log table
  purged,       \* jobs whose entry the retention deleted
  auditErrors, auditCrashes

queueAuditVars == <<auditPlace, auditPayload, auditAttempts, auditStalls>>
auditFaultVars == <<auditErrors, auditCrashes>>
auditVars == <<requests, adding, queueAuditVars, auditor, entries, purged, auditFaultVars>>

AuditLogStatus == {"SUCCESS", "FAILURE"}
Unauthenticated == "nobody"
Claimed == "somebody"   \* whoever a token names that no guard has verified

ASSUME RequesterAssumption == Unauthenticated \notin Request

\* The guard in front of the operation: BackofficeAuthGuard or PermissionsGuard,
\* InternalAuthGuard, ProviderAuthGuard, or ClientGuard alone.
Guard == {"backoffice", "internal", "provider", "client"}
\* bearer: with an Authorization token that names a user.
AuditedRequest ==
  [step : {"arrives", "refused", "inside", "answered", "lost"}, by : Guard,
   bearer : BOOLEAN, outcome : AuditLogStatus \cup {"none"}]
Passes(r) == IF requests[r].by = "client" THEN 2 ELSE 1

\* One job per pass of a request through the interceptor.
AuditJob == [request : Request, pass : {1, 2}]
AuditLogData == [user : Request \cup {Unauthenticated, Claimed},
                 status : AuditLogStatus \cup {"none"}]
AuditRow == [id : Nat, job : AuditJob, data : AuditLogData]
NoData == [user |-> Unauthenticated, status |-> "none"]
IdleAuditor == [busy |-> FALSE, job |-> CHOOSE job \in AuditJob : TRUE, written |-> FALSE]

AuditQueue == INSTANCE BullQueue WITH
  JobId <- AuditJob, Payload <- AuditLogData, NoPayload <- NoData,
  MaxAttempts <- 3, MaxStalledCount <- 1,
  place <- auditPlace, payload <- auditPayload,
  attemptsMade <- auditAttempts, stalledCount <- auditStalls

AuditTypeOK ==
  /\ requests \in [Request -> AuditedRequest]
  /\ adding \in SUBSET AuditJob
  /\ AuditQueue!QueueTypeOK
  /\ auditor \in [busy : BOOLEAN, job : AuditJob, written : BOOLEAN]
  /\ entries \subseteq AuditRow /\ IsFiniteSet(entries)
  /\ purged \in SUBSET AuditJob
  /\ auditErrors \in 0 .. MaxAuditErrors
  /\ auditCrashes \in 0 .. MaxAuditCrashes

AuditInit ==
  /\ requests \in [Request -> [step : {"arrives"}, by : Guard, bearer : BOOLEAN,
                               outcome : {"none"}]]
  /\ adding = {}
  /\ AuditQueue!QueueInit
  /\ auditor = IdleAuditor
  /\ entries = {}
  /\ purged = {}
  /\ auditErrors = 0
  /\ auditCrashes = 0

AuditError ==
  /\ auditErrors < MaxAuditErrors
  /\ auditErrors' = auditErrors + 1
  /\ UNCHANGED auditCrashes

-----------------------------------------------------------------------------
(* The interceptor. *)

\* Guards run before interceptors: what they refuse is not audited.  InternalAuthGuard
\* refuses what has no token.
GuardsRefuse(r) ==
  /\ requests[r].step = "arrives"
  /\ requests' = [requests EXCEPT ![r].step = "refused"]
  /\ UNCHANGED <<adding, queueAuditVars, auditor, entries, purged, auditFaultVars>>

GuardsAccept(r) ==
  /\ requests[r].step = "arrives"
  /\ requests[r].by = "internal" => requests[r].bearer
  /\ requests' = [requests EXCEPT ![r].step = "inside"]
  /\ UNCHANGED <<adding, queueAuditVars, auditor, entries, purged, auditFaultVars>>

\* Where the id of the requester is found: the backoffice guard sets request.user
\* with a userId, the internal guard without one, bank logins set a session, and
\* ClientGuard knows the client only.  A token is decoded and not verified: after the
\* internal guard it is that of the requester.
UserIdOf(r) == IF requests[r].by = "backoffice" THEN r ELSE Unauthenticated
SessionUserId(r) == IF requests[r].by = "provider" THEN r ELSE Unauthenticated
TokenUserId(r) ==
  IF ~requests[r].bearer THEN Unauthenticated
  ELSE IF requests[r].by = "internal" THEN r ELSE Claimed

IdentityWithoutToken(r) ==  \* variant: the token is not looked at
  IF UserIdOf(r) # Unauthenticated THEN UserIdOf(r) ELSE SessionUserId(r)
ResolveRequestIdentity(r) ==
  IF UserIdOf(r) # Unauthenticated THEN UserIdOf(r)
  ELSE IF SessionUserId(r) # Unauthenticated THEN SessionUserId(r)
  ELSE TokenUserId(r)

\* tap or catchError of every pass; the answer does not wait for the queue.
HandlerEnds(r) ==
  /\ requests[r].step = "inside"
  /\ \E status \in AuditLogStatus :
       requests' = [requests EXCEPT ![r].step = "answered", ![r].outcome = status]
  /\ adding' = adding \cup {[request |-> r, pass |-> p] : p \in 1 .. Passes(r)}
  /\ UNCHANGED <<queueAuditVars, auditor, entries, purged, auditFaultVars>>

QueueEntry(job) ==
  /\ job \in adding
  /\ adding' = adding \ {job}
  /\ AuditQueue!Add(job, [user |-> ResolveRequestIdentity(job.request),
                          status |-> requests[job.request].outcome])
  /\ UNCHANGED <<requests, auditor, entries, purged, auditFaultVars>>

\* Redis refuses: the error is logged and the entry is gone.
QueueEntryFails(job) ==
  /\ job \in adding
  /\ AuditError
  /\ adding' = adding \ {job}
  /\ UNCHANGED <<requests, queueAuditVars, auditor, entries, purged>>

-----------------------------------------------------------------------------
(* The worker: handleAuditLog and AuditService.log. *)

TakeAuditJob(job) ==
  /\ ~auditor.busy
  /\ AuditQueue!Take(job)
  /\ auditor' = [busy |-> TRUE, job |-> job, written |-> FALSE]
  /\ UNCHANGED <<requests, adding, entries, purged, auditFaultVars>>

NewId == CHOOSE n \in 1 .. Cardinality(entries) + 1 : \A row \in entries : row.id # n
AuditEntry(job) == [id |-> NewId, job |-> job, data |-> auditPayload[job]]

LogAuditEntry ==
  /\ auditor.busy
  /\ ~auditor.written
  /\ entries' = entries \cup {AuditEntry(auditor.job)}
  /\ auditor' = [auditor EXCEPT !.written = TRUE]
  /\ UNCHANGED <<requests, adding, queueAuditVars, purged, auditFaultVars>>

\* The insert fails, or its answer is lost: log returns null.
LogFails ==
  /\ auditor.busy
  /\ ~auditor.written
  /\ AuditError
  /\ \E written \in BOOLEAN :
       entries' = IF written THEN entries \cup {AuditEntry(auditor.job)} ELSE entries
  /\ auditor' = [auditor EXCEPT !.written = TRUE]
  /\ UNCHANGED <<requests, adding, queueAuditVars, purged>>

CompleteAuditJob ==
  /\ auditor.busy
  /\ auditor.written
  /\ AuditQueue!Complete(auditor.job)
  /\ auditor' = IdleAuditor
  /\ UNCHANGED <<requests, adding, entries, purged, auditFaultVars>>

AuditJobStalls(job) ==
  /\ ~(auditor.busy /\ auditor.job = job)
  /\ AuditQueue!Stall(job)
  /\ UNCHANGED <<requests, adding, auditor, entries, purged, auditFaultVars>>

\* The nightly and the weekly clean-up, and the manual one: entries of these
\* statuses that are past their age.
CleanUp(statuses) ==
  /\ \E old \in SUBSET {row \in entries : row.data.status \in statuses} :
       /\ old # {}
       /\ purged' = purged \cup {row.job : row \in old}
       /\ entries' = entries \ old
  /\ UNCHANGED <<requests, adding, queueAuditVars, auditor, auditFaultVars>>

\* The process ends: its requests and the entries on their way are lost.
AuditCrash ==
  /\ auditCrashes < MaxAuditCrashes
  /\ auditCrashes' = auditCrashes + 1
  /\ requests' = [r \in Request |-> IF requests[r].step = "inside"
                                    THEN [requests[r] EXCEPT !.step = "lost"] ELSE requests[r]]
  /\ adding' = {}
  /\ auditor' = IdleAuditor
  /\ UNCHANGED <<queueAuditVars, entries, purged, auditErrors>>

AuditNext ==
  \/ \E r \in Request : GuardsRefuse(r) \/ GuardsAccept(r) \/ HandlerEnds(r)
  \/ \E job \in AuditJob : \/ QueueEntry(job) \/ QueueEntryFails(job)
                           \/ TakeAuditJob(job) \/ AuditJobStalls(job)
  \/ LogAuditEntry \/ LogFails \/ CompleteAuditJob
  \/ CleanUp({"SUCCESS"}) \/ CleanUp({"FAILURE"}) \/ CleanUp(AuditLogStatus)
  \/ AuditCrash

AuditSpec == AuditInit /\ [][AuditNext]_auditVars

-----------------------------------------------------------------------------
(* Correctness. *)

EntriesOf(job) == {row \in entries : row.job = job}

\* Who is known to make a request: the one its guard has verified; for the operation
\* that is open to any client the one its token claims, or nobody.
Requester(r) ==
  IF requests[r].by # "client" THEN r
  ELSE IF requests[r].bearer THEN Claimed ELSE Unauthenticated

\* However requests, worker and clean-up interleave, an entry tells how the request
\* ended and who made it, if a guard had verified that, whichever of them it was; and
\* when nothing failed and all is written, every pass of an answered request has
\* exactly one entry, but for those the retention deleted.  An error of Redis or
\* the database may lose an entry but never doubles it: only a worker that died
\* on it does.
EntriesTellWhatHappened ==
  /\ \A row \in entries :
       LET r == row.job.request
       IN  row.data = [user |-> Requester(r), status |-> requests[r].outcome]
  /\ auditErrors = 0 /\ auditCrashes = 0
     /\ adding = {} /\ (\A job \in AuditJob : auditPlace[job] = "none") =>
       \A job \in AuditJob \ purged :
         Cardinality(EntriesOf(job)) =
           IF requests[job.request].step = "answered" /\ job.pass <= Passes(job.request)
           THEN 1 ELSE 0
  /\ \A job \in AuditJob : Cardinality(EntriesOf(job)) <= 1 + auditCrashes
=============================================================================
