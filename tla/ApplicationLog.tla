--------------------------- MODULE ApplicationLog ---------------------------
(***************************************************************************)
(* Start-up and the application's log: the secrets loaded before the Nest  *)
(* application is built (main.ts, secrets/vault), the loggers' transports, *)
(* the entry each HTTP request leaves (RequestLoggingInterceptor when it   *)
(* succeeds, HttpExceptionFilter when it fails), and the delivery of       *)
(* entries to the cloud (CloudLoggingTransport, OCILoggingProvider).       *)
(*                                                                         *)
(* An entry reaches the transports if its level is at least LOG_LEVEL, and *)
(* the cloud if the transport does not take it for a start-up message.     *)
(* The transport does not wait for sendLog; every sendLog waits for the    *)
(* one client to be built, puts its entry, and swallows what goes wrong.   *)
(* The variables of the settings are read once; no schema checks them      *)
(* (secrets/validation.schema.ts is wired to nothing).                     *)
(***************************************************************************)
EXTENDS Naturals, FiniteSets

CONSTANTS
  HttpRequest,    \* requests
  ServiceMessage, \* messages the services log themselves
  MessageLevel,   \* the level each of them is logged at
  StartUpLike,    \* requests and messages whose entries CloudLoggingTransport skips: by the
                  \* first segment of the URL, the correlation id, or the words of a message
  MaxLogFaults    \* bounds the failures of the cloud's log service

Loggable == HttpRequest \cup ServiceMessage
LogLevel == {"error", "warn", "info", "debug"}

ASSUME LogAssumption ==
  /\ HttpRequest \cap ServiceMessage = {}
  /\ MessageLevel \in [ServiceMessage -> LogLevel]
  /\ StartUpLike \subseteq Loggable
  /\ MaxLogFaults \in Nat

VARIABLES
  settings,   \* LOG_DESTINATION, LOG_LEVEL, CLOUD_LOGGING_PROVIDER, SECRETS_SOURCE, OCI_*
  start,      \* how far the process has come
  lastWords,  \* what became of the error of a start that failed
  httpRequests,   \* progress of each request, and how it is answered
  logged,     \* entries the application's logger let through: by whom, and the status told
  sends,      \* calls of sendLog under way: the entry, and the step
  client,     \* the client of the cloud's log service
  builds,     \* clients built
  delivered,  \* entries put, by the number of times
  logFaults

logDelivery == <<sends, client, builds, delivered, logFaults>>
applicationVars == <<settings, start, lastWords, httpRequests, logged, logDelivery>>

CloudLoggingProviderType == {"oci", "aws", "gcp", "none"}
Settings ==
  [destination : {"console", "cloud", "oci", "both"}, level : LogLevel \cup {"unknown"},
   provider : CloudLoggingProviderType, configured : BOOLEAN, vault : BOOLEAN]

\* The levels let through; verbose is like info here, as nothing is logged at it.
\* winston compares an unknown LOG_LEVEL with no level successfully.
LevelsShown ==
  [error |-> {"error"}, warn |-> {"error", "warn"}, info |-> {"error", "warn", "info"},
   debug |-> LogLevel, unknown |-> {}]
Shows(level) == level \in LevelsShown[settings.level]

Cloudy(s) == s.destination \in {"cloud", "oci", "both"}
ConsoleTransport(s) == IF s.destination \in {"console", "both"} THEN {"console"} ELSE {}

\* createStandaloneLogger: the console, when nothing else is there.
StandaloneTransports(s) ==
  LET wanted == ConsoleTransport(s) \cup
                  IF Cloudy(s) /\ s.provider = "oci" /\ s.configured THEN {"cloud"} ELSE {}
  IN  IF wanted = {} THEN {"console"} ELSE wanted

\* AppLoggerService: none, when the provider is not implemented.
AppTransports(s) ==
  ConsoleTransport(s) \cup IF Cloudy(s) /\ s.provider = "oci" THEN {"cloud"} ELSE {}

\* createOCIProvider throws on a setting that is missing.
CanCreateApplication(s) == Cloudy(s) /\ s.provider = "oci" => s.configured

(* What an exception is answered with (HttpExceptionFilter.catch). *)

Exception ==
  {"CustomHttpException", "ThrottlerException", "HttpException", "QueryFailedError",
   "TypeORMError", "Error", "ErrorNamingColumns"}

\* An error that talks of a relation, join, alias, column, field or sql is taken for
\* one of the database.
DatabaseError == {"QueryFailedError", "TypeORMError", "ErrorNamingColumns"}
ProcessUnhandledError(exception) == IF exception \in DatabaseError THEN 400 ELSE 500

StatusOf(exception) ==
  CASE exception = "ThrottlerException"                     -> {429}
    [] exception \in {"CustomHttpException", "HttpException"} -> {400, 500}
    [] OTHER -> {ProcessUnhandledError(exception)}

Succeeded(status) == 200 <= status /\ status < 300
\* 200 stands for every 2xx, 400 and 500 for all codes of these exceptions, which nothing
\* tells apart; 304 is what Express makes of a 200 whose ETag the caller has.
Status == {200, 304, 400, 429, 500}
NoStatus == 0
Source == {"interceptor", "filter", "service"}

ApplicationTypeOK ==
  /\ settings \in Settings
  /\ start \in {"secrets", "create", "running", "exited"}
  /\ lastWords \in {"none", "printed", "lost"}
  /\ httpRequests \in [HttpRequest -> [step : {"idle", "handled", "answered", "aborted"},
                                   status : Status \cup {NoStatus}]]
  /\ logged \in [Loggable -> SUBSET (Source \X (Status \cup {NoStatus}))]
  /\ sends \subseteq [entry : Loggable, by : Source, step : {"initialize", "put"}]
  /\ client \in {"none", "building", "ready", "failed"}
  /\ builds \in Nat
  /\ delivered \in [Loggable -> Nat]
  /\ logFaults \in 0 .. MaxLogFaults

ApplicationInit ==
  /\ settings \in Settings
  /\ start = "secrets"
  /\ lastWords = "none"
  /\ httpRequests = [r \in HttpRequest |-> [step |-> "idle", status |-> NoStatus]]
  /\ logged = [e \in Loggable |-> {}]
  /\ sends = {}
  /\ client = "none"
  /\ builds = 0
  /\ delivered = [e \in Loggable |-> 0]
  /\ logFaults = 0

-----------------------------------------------------------------------------
(* bootstrap *)

\* process.exit follows at once: what only goes to the cloud is not sent any more.
Exit ==
  /\ start' = "exited"
  /\ lastWords' = IF "console" \in StandaloneTransports(settings) /\ Shows("error")
                  THEN "printed" ELSE "lost"

LoadSecretsFromVault ==
  /\ start = "secrets"
  /\ \/ start' = "create" /\ UNCHANGED lastWords
     \/ settings.vault /\ Exit
  /\ UNCHANGED <<settings, httpRequests, logged, logDelivery>>

CreateApplication ==
  /\ start = "create"
  /\ \/ /\ CanCreateApplication(settings)
        /\ start' = "running"
        /\ UNCHANGED lastWords
     \/ ~CanCreateApplication(settings) /\ Exit
  /\ UNCHANGED <<settings, httpRequests, logged, logDelivery>>

-----------------------------------------------------------------------------
(* CloudLoggingTransport.log and OCILoggingProvider.sendLog. *)

LogFault ==
  /\ logFaults < MaxLogFaults
  /\ logFaults' = logFaults + 1

\* With a client that could not be built, every later entry is dropped.
SendLogOnlyWhenReady(e, by) ==  \* variant: an entry does not wait for the client
  /\ sends' = sends \cup (IF client = "ready" THEN {[entry |-> e, by |-> by, step |-> "put"]}
                          ELSE {})
  /\ client' = IF client = "none" THEN "building" ELSE client
  /\ builds' = IF client = "none" THEN builds + 1 ELSE builds

SendLog(e, by) ==
  /\ sends' = sends \cup
       CASE client = "ready"  -> {[entry |-> e, by |-> by, step |-> "put"]}
         [] client = "failed" -> {}
         [] OTHER             -> {[entry |-> e, by |-> by, step |-> "initialize"]}
  /\ client' = IF client = "none" THEN "building" ELSE client
  /\ builds' = IF client = "none" THEN builds + 1 ELSE builds

\* The interceptor logs at log, the filter at error.
LevelOf(e, by) ==
  CASE by = "interceptor" -> "info"
    [] by = "filter"      -> "error"
    [] OTHER              -> MessageLevel[e]
Written(e, by, status) == IF Shows(LevelOf(e, by)) THEN {<<by, status>>} ELSE {}

LogEntry(e, by, status) ==
  /\ logged' = [logged EXCEPT ![e] = @ \cup Written(e, by, status)]
  /\ UNCHANGED <<delivered, logFaults>>
  /\ IF /\ Shows(LevelOf(e, by))
        /\ "cloud" \in AppTransports(settings)
        /\ e \notin StartUpLike
     THEN SendLog(e, by)
     ELSE UNCHANGED <<sends, client, builds>>

InitializeClient ==
  /\ client = "building"
  /\ \/ client' = "ready" /\ UNCHANGED logFaults
     \/ client' = "failed" /\ LogFault
  /\ sends' = IF client' = "ready" THEN {[send EXCEPT !.step = "put"] : send \in sends} ELSE {}
  /\ UNCHANGED <<settings, start, lastWords, httpRequests, logged, builds, delivered>>

\* A put that fails is not repeated; it may have reached the log all the same.
PutLogs(send) ==
  /\ send \in sends
  /\ send.step = "put"
  /\ sends' = sends \ {send}
  /\ \/ /\ delivered' = [delivered EXCEPT ![send.entry] = @ + 1]
        /\ UNCHANGED logFaults
     \/ /\ LogFault
        /\ UNCHANGED delivered
  /\ UNCHANGED <<settings, start, lastWords, httpRequests, logged, client, builds>>

-----------------------------------------------------------------------------
(* Requests, and messages of the services. *)

HandleRequest(r) ==
  /\ start = "running"
  /\ httpRequests[r].step = "idle"
  /\ httpRequests' = [httpRequests EXCEPT ![r] = [step |-> "handled", status |-> 200]]
  /\ UNCHANGED <<settings, start, lastWords, logged, logDelivery>>

\* In a guard, a pipe, the handler or what follows it.
CatchException(r, exception, status) ==
  /\ start = "running"
  /\ httpRequests[r].step \in {"idle", "handled"}
  /\ status \in StatusOf(exception)
  /\ httpRequests' = [httpRequests EXCEPT ![r] = [step |-> "handled", status |-> status]]
  /\ httpRequests[r].status \in {NoStatus, 200}
  /\ LogEntry(r, "filter", status)
  /\ UNCHANGED <<settings, start, lastWords>>

LogEveryAnswer(r) == httpRequests[r].status # NoStatus  \* variant: the status is not looked at
LogsOnFinish(r) == Succeeded(httpRequests[r].status)

\* response.send: a conditional GET of what has not changed is answered with 304.
MakeNotModified(r) ==
  /\ httpRequests[r].step = "handled"
  /\ httpRequests[r].status = 200
  /\ httpRequests' = [httpRequests EXCEPT ![r].status = 304]
  /\ UNCHANGED <<settings, start, lastWords, logged, logDelivery>>

\* response.once('finish')
FinishResponse(r) ==
  /\ httpRequests[r].step = "handled"
  /\ httpRequests' = [httpRequests EXCEPT ![r].step = "answered"]
  /\ IF LogsOnFinish(r) THEN LogEntry(r, "interceptor", httpRequests[r].status)
     ELSE UNCHANGED <<logged, logDelivery>>
  /\ UNCHANGED <<settings, start, lastWords>>

\* The caller is gone: a response that is closed never finishes.
AbortRequest(r) ==
  /\ httpRequests[r].step = "handled"
  /\ httpRequests' = [httpRequests EXCEPT ![r].step = "aborted"]
  /\ UNCHANGED <<settings, start, lastWords, logged, logDelivery>>

LogMessage(message) ==
  /\ start = "running"
  /\ logged[message] = {}
  /\ LogEntry(message, "service", NoStatus)
  /\ UNCHANGED <<settings, start, lastWords, httpRequests>>

ApplicationNext ==
  \/ LoadSecretsFromVault \/ CreateApplication
  \/ \E r \in HttpRequest :
       \/ HandleRequest(r) \/ MakeNotModified(r) \/ FinishResponse(r) \/ AbortRequest(r)
       \/ \E exception \in Exception, status \in Status : CatchException(r, exception, status)
  \/ \E message \in ServiceMessage : LogMessage(message)
  \/ InitializeClient
  \/ \E send \in sends : PutLogs(send)

ApplicationSpec == ApplicationInit /\ [][ApplicationNext]_applicationVars

-----------------------------------------------------------------------------
(* Correctness. *)

\* The level at which the end of a request is logged.
EndLevel(r) == IF Succeeded(httpRequests[r].status) THEN "info" ELSE "error"

\* A request that was answered left one entry in the log, which tells the status it
\* was answered with, unless LOG_LEVEL keeps such entries out or the answer is 304,
\* which neither the interceptor nor the filter logs; one whose caller went away left
\* none if it succeeded.
AnswersAreLoggedOnce ==
  \A r \in HttpRequest :
    LET status == httpRequests[r].status
    IN  /\ httpRequests[r].step = "answered" =>
             /\ Cardinality(logged[r]) = IF status # 304 /\ Shows(EndLevel(r)) THEN 1 ELSE 0
             /\ \A entry \in logged[r] : entry[2] = status
        /\ httpRequests[r].step = "aborted" /\ Succeeded(status) => logged[r] = {}

\* With the cloud as a destination one client is built, however many entries come
\* while it is; and once it stands and no entry is under way, each entry that LOG_LEVEL
\* lets through and that does not look like a start-up message was put exactly once,
\* but for one per failure of the log service.
EntriesReachTheCloud ==
  LET meant == {e \in Loggable \ StartUpLike : logged[e] # {}}
  IN  /\ builds <= 1
      /\ "cloud" \in AppTransports(settings) /\ client # "failed" /\ sends = {} =>
           /\ \A e \in meant : delivered[e] <= 1
           /\ Cardinality({e \in meant : delivered[e] = 0}) <= logFaults
=============================================================================
