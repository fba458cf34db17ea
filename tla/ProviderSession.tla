-------------------------- MODULE ProviderSession --------------------------
(***************************************************************************)
(* The back-office token all webhook registrations share, and the calls to *)
(* the provider made with it (webhook/helpers/provider-session.helper.ts,  *)
(* hiperbanco-auth.service.ts and the HTTP client below them).             *)
(*                                                                         *)
(* executeWithRetry takes the token from Redis or logs in, makes the call, *)
(* and if the provider says the session has expired drops the token, logs  *)
(* in again and makes the call once more.  Concurrent calls drop and store *)
(* the one Redis key in any order; the provider forgets a token, and Redis *)
(* the key, at any time.  One action is what happens up to the next await. *)
(***************************************************************************)
EXTENDS Naturals, Sequences

CONSTANTS
  Caller,            \* calls of executeWithRetry
  MaxSessionFaults   \* bounds Redis errors, failed logins and lost answers

ASSUME MaxSessionFaultsAssumption == MaxSessionFaults \in Nat

VARIABLES
  logins,         \* who logged in: the nth login is answered with token n
  expired,        \* tokens the provider no longer accepts
  sharedToken,    \* the Redis key
  calls,
  carriedOut,     \* how often the provider did what each call asks for
  sessionFaults

sessionVars == <<logins, expired, sharedToken, calls, carriedOut, sessionFaults>>

NoToken == 0
Token == DOMAIN logins
ObtainedBy(token) == logins[token]

NoError == "none"
ErrorCode ==
  {"SESSION_EXPIRED", "EXTERNAL_SERVICE_COMMUNICATION_ERROR", "EXTERNAL_SERVICE_ERROR"}

CallStep == {"idle", "look", "drop", "login", "store", "operate", "done", "failed"}
IdleCall == [step |-> "idle", token |-> NoToken, retried |-> FALSE, error |-> NoError]

SessionTypeOK ==
  /\ logins \in Seq(Caller)
  /\ expired \in SUBSET Token
  /\ sharedToken \in Token \cup {NoToken}
  /\ calls \in [Caller -> [step : CallStep, token : Token \cup {NoToken},
                           retried : BOOLEAN, error : ErrorCode \cup {NoError}]]
  /\ carriedOut \in [Caller -> Nat]
  /\ sessionFaults \in 0 .. MaxSessionFaults

SessionInit ==
  /\ logins = <<>>
  /\ expired = {}
  /\ sharedToken = NoToken
  /\ calls = [c \in Caller |-> IdleCall]
  /\ carriedOut = [c \in Caller |-> 0]
  /\ sessionFaults = 0

-----------------------------------------------------------------------------
(* The provider's answer, and what the HTTP client makes of it. *)

\* "none" is a lost answer or a timeout.
HandleHiperbancoError(answer) ==
  CASE answer = "EXPIRED_SESSION" -> "SESSION_EXPIRED"
    [] answer = "none"            -> "EXTERNAL_SERVICE_COMMUNICATION_ERROR"
    [] answer = "refused"         -> "EXTERNAL_SERVICE_ERROR"

IsTransientError(error) ==  \* variant: a call without an answer is repeated too
  error \in {"SESSION_EXPIRED", "EXTERNAL_SERVICE_COMMUNICATION_ERROR"}
IsSessionExpiredError(error) == error = "SESSION_EXPIRED"

-----------------------------------------------------------------------------
(* getSharedBackofficeSession and refreshSharedBackofficeSession. *)

StartCall(c) ==
  /\ calls[c].step = "idle"
  /\ calls' = [calls EXCEPT ![c].step = "look"]
  /\ UNCHANGED <<logins, expired, sharedToken, carriedOut, sessionFaults>>

LookUpToken(c) ==
  /\ calls[c].step = "look"
  /\ calls' = [calls EXCEPT ![c].step = IF sharedToken = NoToken THEN "drop" ELSE "operate",
                            ![c].token = sharedToken]
  /\ UNCHANGED <<logins, expired, sharedToken, carriedOut, sessionFaults>>

DropToken(c) ==
  /\ calls[c].step = "drop"
  /\ sharedToken' = NoToken
  /\ calls' = [calls EXCEPT ![c].step = "login"]
  /\ UNCHANGED <<logins, expired, carriedOut, sessionFaults>>

LogIn(c) ==
  /\ calls[c].step = "login"
  /\ logins' = Append(logins, c)
  /\ calls' = [calls EXCEPT ![c].step = "store", ![c].token = Len(logins) + 1]
  /\ UNCHANGED <<expired, sharedToken, carriedOut, sessionFaults>>

StoreTokenUnlessHeld(c) ==  \* variant: a token that somebody stored meanwhile is used
  /\ calls[c].step = "store"
  /\ sharedToken' = IF sharedToken = NoToken THEN calls[c].token ELSE sharedToken
  /\ calls' = [calls EXCEPT ![c].step = "operate", ![c].token = sharedToken']
  /\ UNCHANGED <<logins, expired, carriedOut, sessionFaults>>

StoreToken(c) ==
  /\ calls[c].step = "store"
  /\ sharedToken' = calls[c].token
  /\ calls' = [calls EXCEPT ![c].step = "operate"]
  /\ UNCHANGED <<logins, expired, carriedOut, sessionFaults>>

-----------------------------------------------------------------------------
(* The operation itself. *)

Fail(c, error) == [calls EXCEPT ![c].step = "failed", ![c].error = error]

RetryWithoutRefresh(c, error) ==  \* variant: the session at hand is used again
  IF IsSessionExpiredError(error) THEN [calls EXCEPT ![c].retried = TRUE]
  ELSE Fail(c, error)

\* The catch block: only the first attempt is caught.
OnError(c, error) ==
  IF IsSessionExpiredError(error) /\ ~calls[c].retried
  THEN [calls EXCEPT ![c].step = "drop", ![c].retried = TRUE]
  ELSE Fail(c, error)

SessionHasExpired(c) ==
  /\ calls[c].step = "operate"
  /\ calls[c].token \in expired
  /\ calls' = OnError(c, HandleHiperbancoError("EXPIRED_SESSION"))
  /\ UNCHANGED <<logins, expired, sharedToken, carriedOut, sessionFaults>>

OperationDone(c) ==
  /\ calls[c].step = "operate"
  /\ calls[c].token \notin expired
  /\ carriedOut' = [carriedOut EXCEPT ![c] = @ + 1]
  /\ calls' = [calls EXCEPT ![c].step = "done"]
  /\ UNCHANGED <<logins, expired, sharedToken, sessionFaults>>

OperationRefused(c) ==
  /\ calls[c].step = "operate"
  /\ calls[c].token \notin expired
  /\ calls' = OnError(c, HandleHiperbancoError("refused"))
  /\ UNCHANGED <<logins, expired, sharedToken, carriedOut, sessionFaults>>

\* The request itself, or what the provider answers to it.
AnswerLost(c) ==
  /\ sessionFaults < MaxSessionFaults
  /\ sessionFaults' = sessionFaults + 1
  /\ calls[c].step = "operate"
  /\ calls[c].token \notin expired
  /\ \E times \in {0, 1} : carriedOut' = [carriedOut EXCEPT ![c] = @ + times]
  /\ calls' = OnError(c, HandleHiperbancoError("none"))
  /\ UNCHANGED <<logins, expired, sharedToken>>

ExecuteWithRetry(c) ==
  \/ LookUpToken(c) \/ DropToken(c) \/ LogIn(c) \/ StoreToken(c)
  \/ SessionHasExpired(c) \/ OperationDone(c) \/ OperationRefused(c)

\* Redis, or the login, fails; what they throw leaves executeWithRetry.
SessionFault(c) ==
  /\ sessionFaults < MaxSessionFaults
  /\ sessionFaults' = sessionFaults + 1
  /\ calls[c].step \in {"look", "drop", "login", "store"}
  /\ calls' = Fail(c, "EXTERNAL_SERVICE_ERROR")
  /\ UNCHANGED <<logins, expired, sharedToken, carriedOut>>

TokenExpires ==
  /\ \E token \in Token \ expired : expired' = expired \cup {token}
  /\ UNCHANGED <<logins, sharedToken, calls, carriedOut, sessionFaults>>

\* sharedBackofficeTokenTtlSeconds have passed.
KeyExpires ==
  /\ sharedToken # NoToken
  /\ sharedToken' = NoToken
  /\ UNCHANGED <<logins, expired, calls, carriedOut, sessionFaults>>

SessionNext ==
  \/ \E c \in Caller : StartCall(c) \/ ExecuteWithRetry(c) \/ AnswerLost(c) \/ SessionFault(c)
  \/ TokenExpires \/ KeyExpires

SessionSpec == SessionInit /\ [][SessionNext]_sessionVars

\* A call that was started goes on: every await of it ends, if only by a timeout.
SessionFairness == \A c \in Caller : WF_sessionVars(ExecuteWithRetry(c))

-----------------------------------------------------------------------------
(* Correctness. *)

\* For the caller.
OutcomeOf(call) ==
  CASE call.step = "done" -> "returned"
    [] call.step = "failed" ->
         IF call.error = "EXTERNAL_SERVICE_COMMUNICATION_ERROR" THEN "unanswered" ELSE "refused"
    [] OTHER -> "none"

Promise == INSTANCE ProviderCall WITH
  outcome <- [c \in Caller |-> OutcomeOf(calls[c])], performed <- carriedOut

\* Whatever expires, and however the others drop and store the shared token, the
\* calls keep the promise of ProviderCall: none is carried out twice, because only
\* one that the provider refused unseen is repeated, and one that is refused in
\* the end has left nothing behind.
CallsKeepPromise == Promise!Spec

\* However the others drop and store the shared token, a call is refused for an
\* expired session only with a token it obtained by a login of its own, in its
\* second attempt: nobody else's stale token makes it fail.
ExpiryOnlyOnOwnToken ==
  \A c \in Caller :
    calls[c].error = "SESSION_EXPIRED" =>
      calls[c].retried /\ calls[c].token \in Token /\ ObtainedBy(calls[c].token) = c

\* A call that was started ends.
EveryCallEnds ==
  \A c \in Caller : calls[c].step = "look" ~> calls[c].step \in {"done", "failed"}
=============================================================================
