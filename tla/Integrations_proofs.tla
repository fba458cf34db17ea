------------------------ MODULE Integrations_proofs ------------------------
(***************************************************************************)
(* Proofs about the components that act at the provider: the shared        *)
(* session, the bank logins and the registration of webhooks, for any      *)
(* number of calls, logins, payments, requests and faults.                 *)
(*                                                                         *)
(* Session: its state is well-formed, it implements ProviderCall (a call   *)
(* is carried out once if it returns, never if it is refused), and a call  *)
(* is refused for an expired session only with a token of its own.  Bank   *)
(* logins: a payment is made from an account of the client that asked for  *)
(* it, and a login that fails overlapped another or met an error.          *)
(* Registration: the table mirrors the provider, and clients are told      *)
(* once.  With what BoletoLifecycle_proofs shows, all of this holds of     *)
(* their composition.                                                      *)
(*                                                                         *)
(* None of these is inductive; the invariant that is stands before each    *)
(* component's lemmas.                                                     *)
(***************************************************************************)
EXTENDS MCIntegrations, BoletoLifecycle_proofs, SequenceTheorems, FiniteSetTheorems

-----------------------------------------------------------------------------
(* The shared session.  That a call is carried out once needs to know that it has  *)
(* not been while it is still under way; that a final refusal concerns a token of  *)
(* the call's own needs to follow that token from the login to the second attempt. *)

\* What the call of c knows of its token, its attempt and its outcome, when these
\* are the logins.
Call(log) == [step : CallStep, token : DOMAIN log \cup {NoToken}, retried : BOOLEAN,
              error : ErrorCode \cup {NoError}]
CallOK(c, call, log) ==
  /\ call \in Call(log)
  /\ call.step \in {"idle", "look"} => call.retried = FALSE
  /\ call.step \in {"store", "operate"} => call.token \in DOMAIN log
  /\ call.step = "store" => log[call.token] = c
  /\ call.step = "operate" /\ call.retried = TRUE => log[call.token] = c
  /\ call.error = "SESSION_EXPIRED" =>
       /\ call.step = "failed"
       /\ call.retried = TRUE
       /\ call.token \in DOMAIN log
       /\ log[call.token] = c

\* How often it has been carried out.
TimesOK(call, times) ==
  /\ times \in {0, 1}
  /\ call.step \notin {"done", "failed"} => times = 0

SessionInv ==
  /\ SessionTypeOK
  /\ \A c \in Caller : CallOK(c, calls[c], logins) /\ TimesOK(calls[c], carriedOut[c])

-----------------------------------------------------------------------------
LEMMA SessionInitInv == SessionInit => SessionInv
<1> SUFFICES ASSUME SessionInit PROVE SessionInv
  OBVIOUS
<1>1. IdleCall \in Call(logins)
  BY DEF IdleCall, Call, CallStep
<1>2. SessionTypeOK
  BY <1>1, MaxSessionFaultsAssumption DEF SessionInit, SessionTypeOK, Token, Call
<1>3. ASSUME NEW c \in Caller
      PROVE  CallOK(c, calls[c], logins) /\ TimesOK(calls[c], carriedOut[c])
  <2>1. calls[c] = IdleCall /\ carriedOut[c] = 0
    BY DEF SessionInit
  <2>2. IdleCall.step = "idle" /\ IdleCall.error = "none" /\ IdleCall.retried = FALSE
    BY DEF IdleCall, NoError
  <2> QED
    BY <1>1, <2>1, <2>2 DEF CallOK, TimesOK, Token
<1> QED
  BY <1>2, <1>3 DEF SessionInv

\* Every action but an expiry and the loss of the key is of one call.
StepOf(c) == StartCall(c) \/ ExecuteWithRetry(c) \/ AnswerLost(c) \/ SessionFault(c)

\* Tokens stay with who obtained them.
LEMMA TokensKeep ==
  ASSUME SessionInv, NEW c \in Caller, StepOf(c)
  PROVE  /\ logins' \in Seq(Caller)
         /\ \A token \in DOMAIN logins : token \in DOMAIN logins' /\ logins'[token] = logins[token]
<1>1. CASE LogIn(c)
  BY <1>1 DEF SessionInv, SessionTypeOK, LogIn, Token, ObtainedBy
<1>2. CASE UNCHANGED logins
  BY <1>2 DEF SessionInv, SessionTypeOK, Token, ObtainedBy
<1> QED
  BY <1>1, <1>2 DEF StepOf, ExecuteWithRetry, StartCall, LookUpToken, DropToken,
       StoreToken, SessionHasExpired, OperationDone, OperationRefused, AnswerLost,
       SessionFault

\* What a step of a call must show: the record and the count it leaves.
LEMMA StepKeepsInv ==
  ASSUME SessionInv, NEW c \in Caller, StepOf(c),
         NEW new, calls' = [calls EXCEPT ![c] = new], CallOK(c, new, logins'),
         NEW times, carriedOut' = [carriedOut EXCEPT ![c] = times], TimesOK(new, times),
         expired' = expired, sharedToken' \in Token' \cup {NoToken},
         sessionFaults' \in 0 .. MaxSessionFaults
  PROVE  SessionInv'
<1>1. /\ logins' \in Seq(Caller)
      /\ \A token \in DOMAIN logins : token \in DOMAIN logins' /\ logins'[token] = logins[token]
  BY TokensKeep
<1>2. ASSUME NEW d \in Caller
      PROVE  CallOK(d, calls'[d], logins') /\ TimesOK(calls'[d], carriedOut'[d])
  <2>1. CASE d = c
    <3>1. calls'[d] = new /\ carriedOut'[d] = times
      BY <2>1 DEF SessionInv, SessionTypeOK
    <3> QED
      BY <2>1, <3>1 DEF CallOK, TimesOK, Token
  <2>2. CASE d # c
    <3>1. calls'[d] = calls[d] /\ carriedOut'[d] = carriedOut[d]
      BY <2>2 DEF SessionInv, SessionTypeOK
    <3>2. CallOK(d, calls[d], logins) /\ TimesOK(calls[d], carriedOut[d])
      BY DEF SessionInv
    <3> QED
      BY <1>1, <3>1, <3>2 DEF CallOK, TimesOK, Call
  <2> QED
    BY <2>1, <2>2
<1>3. calls' \in [Caller -> Call(logins')] /\ carriedOut' \in [Caller -> Nat]
  <2>1. ASSUME NEW d \in Caller PROVE calls'[d] \in Call(logins') /\ carriedOut'[d] \in Nat
    <3>1. CallOK(d, calls'[d], logins') /\ TimesOK(calls'[d], carriedOut'[d])
      BY <1>2
    <3> QED
      BY <3>1 DEF CallOK, TimesOK, Token
  <2> QED
    BY <2>1 DEF SessionInv, SessionTypeOK
<1>4. expired' \in SUBSET Token'
  BY <1>1 DEF SessionInv, SessionTypeOK, Token
<1>5. Call(logins') = [step : CallStep, token : Token' \cup {NoToken}, retried : BOOLEAN,
                       error : ErrorCode \cup {NoError}]
  BY DEF Call, Token
<1> QED
  BY <1>1, <1>2, <1>3, <1>4, <1>5 DEF SessionInv, SessionTypeOK

LEMMA CallStepKeepsInv ==
  ASSUME SessionInv, NEW c \in Caller, StepOf(c)
  PROVE  SessionInv'
<1>1. /\ CallOK(c, calls[c], logins) /\ TimesOK(calls[c], carriedOut[c])
      /\ sharedToken \in Token \cup {NoToken}
      /\ sessionFaults \in 0 .. MaxSessionFaults
      /\ carriedOut = [carriedOut EXCEPT ![c] = carriedOut[c]]
      /\ logins \in Seq(Caller)
  BY DEF SessionInv, SessionTypeOK
<1> DEFINE call == calls[c]
<1> USE DEF Call, CallStep, ErrorCode, NoError
<1>2. CASE StartCall(c)
  <2> DEFINE new == [call EXCEPT !.step = "look"]
  <2>1. calls' = [calls EXCEPT ![c] = new] /\ UNCHANGED <<logins, expired, sharedToken,
          carriedOut, sessionFaults>> /\ call.step = "idle"
    BY <1>2 DEF StartCall
  <2>2. CallOK(c, new, logins') /\ TimesOK(new, carriedOut[c])
    BY <1>1, <2>1 DEF CallOK, TimesOK, Token
  <2> QED
    BY <1>1, <2>1, <2>2, StepKeepsInv DEF Token
<1>3. CASE LookUpToken(c)
  <2> DEFINE new == [call EXCEPT !.step = IF sharedToken = NoToken THEN "drop" ELSE "operate",
                                 !.token = sharedToken]
  <2>1. calls' = [calls EXCEPT ![c] = new] /\ UNCHANGED <<logins, expired, sharedToken,
          carriedOut, sessionFaults>> /\ call.step = "look"
    BY <1>3 DEF LookUpToken
  <2>2. CallOK(c, new, logins') /\ TimesOK(new, carriedOut[c])
    BY <1>1, <2>1 DEF CallOK, TimesOK, Token
  <2> QED
    BY <1>1, <2>1, <2>2, StepKeepsInv DEF Token
<1>4. CASE DropToken(c)
  <2> DEFINE new == [call EXCEPT !.step = "login"]
  <2>1. calls' = [calls EXCEPT ![c] = new] /\ sharedToken' = NoToken
        /\ UNCHANGED <<logins, expired, carriedOut, sessionFaults>> /\ call.step = "drop"
    BY <1>4 DEF DropToken
  <2>2. CallOK(c, new, logins') /\ TimesOK(new, carriedOut[c])
    BY <1>1, <2>1 DEF CallOK, TimesOK, Token
  <2> QED
    BY <1>1, <2>1, <2>2, StepKeepsInv DEF Token
<1>5. CASE LogIn(c)
  <2> DEFINE fresh == Len(logins) + 1
             new == [call EXCEPT !.step = "store", !.token = fresh]
  <2>1. calls' = [calls EXCEPT ![c] = new] /\ logins' = Append(logins, c)
        /\ UNCHANGED <<expired, sharedToken, carriedOut, sessionFaults>>
        /\ call.step = "login"
    BY <1>5 DEF LogIn
  <2>2. /\ DOMAIN logins' = 1 .. Len(logins) + 1 /\ Len(logins) \in Nat
        /\ logins'[Len(logins) + 1] = c
        /\ DOMAIN logins = 1 .. Len(logins)
    BY <1>1, <2>1
  <2>3. CallOK(c, new, logins') /\ TimesOK(new, carriedOut[c])
    <3>1. fresh \in DOMAIN logins' /\ logins'[fresh] = c
      BY <2>2
    <3> HIDE DEF fresh
    <3>2. call \in Call(logins) /\ call.error # "SESSION_EXPIRED"
      BY <1>1, <2>1 DEF CallOK
    <3>3. new \in Call(logins')
      BY <3>1, <3>2
    <3> QED
      BY <1>1, <2>1, <3>1, <3>2, <3>3 DEF CallOK, TimesOK
  <2>4. sharedToken' \in Token' \cup {NoToken}
    BY <1>1, <2>1, <2>2 DEF Token
  <2> QED
    BY <1>1, <2>1, <2>3, <2>4, StepKeepsInv
<1>6. CASE StoreToken(c)
  <2> DEFINE new == [call EXCEPT !.step = "operate"]
  <2>1. calls' = [calls EXCEPT ![c] = new] /\ sharedToken' = call.token
        /\ UNCHANGED <<logins, expired, carriedOut, sessionFaults>> /\ call.step = "store"
    BY <1>6 DEF StoreToken
  <2>2. CallOK(c, new, logins') /\ TimesOK(new, carriedOut[c]) /\ call.token \in Token
    BY <1>1, <2>1 DEF CallOK, TimesOK, Token
  <2> QED
    BY <1>1, <2>1, <2>2, StepKeepsInv DEF Token
\* The catch block: a second attempt, or the error for good.
<1>7. ASSUME NEW error \in ErrorCode, calls' = OnError(c, error),
             UNCHANGED <<logins, expired, sharedToken>>, call.step = "operate",
             sessionFaults' \in 0 .. MaxSessionFaults,
             NEW times \in {0, 1}, carriedOut' = [carriedOut EXCEPT ![c] = times],
             error = "SESSION_EXPIRED" => times = 0
      PROVE  SessionInv'
  <2>1. CASE error = "SESSION_EXPIRED" /\ call.retried = FALSE
    <3> DEFINE new == [call EXCEPT !.step = "drop", !.retried = TRUE]
    <3>1. calls' = [calls EXCEPT ![c] = new]
      BY <1>7, <2>1 DEF OnError, IsSessionExpiredError
    <3>2. CallOK(c, new, logins') /\ TimesOK(new, times)
      BY <1>1, <1>7, <2>1 DEF CallOK, TimesOK, Token
    <3> QED
      BY <1>1, <1>7, <3>1, <3>2, StepKeepsInv DEF Token
  <2>2. CASE ~(error = "SESSION_EXPIRED" /\ call.retried = FALSE)
    <3> DEFINE new == [call EXCEPT !.step = "failed", !.error = error]
    <3>1. call.retried \in BOOLEAN
      BY <1>1 DEF CallOK
    <3>2. calls' = [calls EXCEPT ![c] = new]
      BY <1>7, <2>2, <3>1 DEF OnError, IsSessionExpiredError, Fail
    <3>3. CallOK(c, new, logins') /\ TimesOK(new, times)
      BY <1>1, <1>7, <2>2 DEF CallOK, TimesOK, Token
    <3> QED
      BY <1>1, <1>7, <3>2, <3>3, StepKeepsInv DEF Token
  <2> QED
    BY <2>1, <2>2
<1>8. carriedOut[c] \in {0, 1} /\ (call.step = "operate" => carriedOut[c] = 0)
  BY <1>1 DEF TimesOK
<1>9. CASE SessionHasExpired(c)
  BY <1>1, <1>7, <1>8, <1>9 DEF SessionHasExpired, HandleHiperbancoError
<1>10. CASE OperationDone(c)
  <2> DEFINE new == [call EXCEPT !.step = "done"]
  <2>3. carriedOut' = [carriedOut EXCEPT ![c] = carriedOut[c] + 1]
    BY <1>10 DEF OperationDone
  <2>4. call.step = "operate" /\ carriedOut[c] + 1 = 1
    BY <1>8, <1>10 DEF OperationDone
  <2>1. calls' = [calls EXCEPT ![c] = new] /\ carriedOut' = [carriedOut EXCEPT ![c] = 1]
        /\ UNCHANGED <<logins, expired, sharedToken, sessionFaults>>
        /\ call.step = "operate"
    BY <1>10, <2>3, <2>4 DEF OperationDone
  <2>2. CallOK(c, new, logins') /\ TimesOK(new, 1)
    BY <1>1, <2>1 DEF CallOK, TimesOK, Token
  <2> QED
    BY <1>1, <2>1, <2>2, StepKeepsInv DEF Token
<1>11. CASE OperationRefused(c)
  BY <1>1, <1>7, <1>8, <1>11 DEF OperationRefused, HandleHiperbancoError
<1>12. CASE AnswerLost(c)
  <2>1. PICK times \in {0, 1} : carriedOut' = [carriedOut EXCEPT ![c] = times]
    <3>1. PICK times \in {0, 1} : carriedOut' = [carriedOut EXCEPT ![c] = carriedOut[c] + times]
      BY <1>12 DEF AnswerLost
    <3>2. carriedOut[c] + times = times
      BY <1>8, <1>12 DEF AnswerLost
    <3> QED
      BY <3>1, <3>2
  <2>2. sessionFaults' \in 0 .. MaxSessionFaults
    BY <1>1, <1>12, MaxSessionFaultsAssumption DEF AnswerLost
  <2>3. /\ calls' = OnError(c, "EXTERNAL_SERVICE_COMMUNICATION_ERROR")
        /\ UNCHANGED <<logins, expired, sharedToken>> /\ call.step = "operate"
    BY <1>12 DEF AnswerLost, HandleHiperbancoError
  <2> QED
    BY <1>7, <2>1, <2>2, <2>3
<1>13. CASE SessionFault(c)
  <2> DEFINE new == [call EXCEPT !.step = "failed", !.error = "EXTERNAL_SERVICE_ERROR"]
  <2>1. calls' = [calls EXCEPT ![c] = new]
        /\ UNCHANGED <<logins, expired, sharedToken, carriedOut>>
        /\ call.step \in {"look", "drop", "login", "store"}
    BY <1>13 DEF SessionFault, Fail
  <2>3. sessionFaults' \in 0 .. MaxSessionFaults
    BY <1>1, <1>13, MaxSessionFaultsAssumption DEF SessionFault
  <2>2. CallOK(c, new, logins') /\ TimesOK(new, carriedOut[c])
    BY <1>1, <2>1 DEF CallOK, TimesOK, Token
  <2> QED
    BY <1>1, <2>1, <2>2, <2>3, StepKeepsInv DEF Token
<1> QED
  BY <1>2, <1>3, <1>4, <1>5, <1>6, <1>9, <1>10, <1>11, <1>12, <1>13
     DEF StepOf, ExecuteWithRetry

LEMMA SessionNextInv == SessionInv /\ [SessionNext]_sessionVars => SessionInv'
<1> SUFFICES ASSUME SessionInv, [SessionNext]_sessionVars PROVE SessionInv'
  OBVIOUS
<1>1. CASE TokenExpires
  BY <1>1 DEF TokenExpires, SessionInv, SessionTypeOK, Token, CallOK, TimesOK, Call,
       ObtainedBy
<1>2. CASE KeyExpires
  BY <1>2 DEF KeyExpires, SessionInv, SessionTypeOK, Token, CallOK, TimesOK, Call,
       ObtainedBy
<1>3. CASE UNCHANGED sessionVars
  BY <1>3 DEF sessionVars, SessionInv, SessionTypeOK, Token, CallOK, TimesOK, Call,
       ObtainedBy
<1> QED
  BY <1>1, <1>2, <1>3, CallStepKeepsInv DEF SessionNext, StepOf

THEOREM SessionInvariance == SessionSpec => []SessionInv
BY SessionInitInv, SessionNextInv, PTL DEF SessionSpec

-----------------------------------------------------------------------------
\* The state of the session and of the calls is always well-formed.
THEOREM SessionTypeCorrect == SessionSpec => []SessionTypeOK
<1>1. SessionInv => SessionTypeOK
  BY DEF SessionInv
<1> QED
  BY <1>1, SessionInvariance, PTL

\* A step that does not end the call of c is none of ProviderCall's.
LEMMA CallGoesOn ==
  ASSUME SessionInv, NEW c \in Caller, NEW new, calls' = [calls EXCEPT ![c] = new],
         carriedOut' = carriedOut, OutcomeOf(calls[c]) = "none", OutcomeOf(new) = "none"
  PROVE  UNCHANGED <<[d \in Caller |-> OutcomeOf(calls[d])], carriedOut>>
<1>1. \A d \in Caller : calls'[d] = IF d = c THEN new ELSE calls[d]
  BY DEF SessionInv, SessionTypeOK
<1>2. \A d \in Caller : OutcomeOf(calls'[d]) = OutcomeOf(calls[d])
  BY <1>1
<1> QED
  BY <1>2

\* A step that ends it is.
LEMMA CallEnds ==
  ASSUME SessionInv, NEW c \in Caller, NEW new, calls' = [calls EXCEPT ![c] = new],
         NEW times, carriedOut' = [carriedOut EXCEPT ![c] = carriedOut[c] + times],
         OutcomeOf(calls[c]) = "none"
  PROVE  Promise!End(c, OutcomeOf(new), times)
<1> DEFINE outcomes == [d \in Caller |-> OutcomeOf(calls[d])]
<1>1. \A d \in Caller : calls'[d] = IF d = c THEN new ELSE calls[d]
  BY DEF SessionInv, SessionTypeOK
<1>2. outcomes[c] = "none"
  OBVIOUS
<1>3. outcomes' = [outcomes EXCEPT ![c] = OutcomeOf(new)]
  <2>1. \A d \in Caller : OutcomeOf(calls'[d]) = IF d = c THEN OutcomeOf(new)
                                                  ELSE OutcomeOf(calls[d])
    BY <1>1
  <2> QED
    BY <2>1
<1> QED
  BY <1>2, <1>3 DEF Promise!End

\* An error ends a call, unless it is followed by a second attempt.
LEMMA ErrorsAllowed ==
  ASSUME SessionInv, NEW c \in Caller, calls[c].step = "operate",
         NEW error \in ErrorCode, calls' = OnError(c, error),
         NEW times \in {0, 1}, carriedOut' = [carriedOut EXCEPT ![c] = carriedOut[c] + times],
         error # "EXTERNAL_SERVICE_COMMUNICATION_ERROR" => carriedOut' = carriedOut /\ times = 0
  PROVE  \/ Promise!Refuse(c) \/ Promise!LeaveOpen(c)
         \/ UNCHANGED <<[d \in Caller |-> OutcomeOf(calls[d])], carriedOut>>
<1>1. calls[c] \in Call(logins) /\ calls[c].retried \in BOOLEAN
  BY DEF SessionInv, CallOK, Call
<1>2. OutcomeOf(calls[c]) = "none"
  BY DEF OutcomeOf
<1>3. CASE error = "SESSION_EXPIRED" /\ calls[c].retried = FALSE
  <2> DEFINE new == [calls[c] EXCEPT !.step = "drop", !.retried = TRUE]
  <2>1. calls' = [calls EXCEPT ![c] = new]
    BY <1>3 DEF OnError, IsSessionExpiredError
  <2>2. OutcomeOf(new) = "none"
    BY <1>1 DEF OutcomeOf, Call
  <2>3. carriedOut' = carriedOut
    BY <1>3
  <2> HIDE DEF new
  <2> QED
    BY <1>2, <2>1, <2>2, <2>3, CallGoesOn
<1>4. CASE ~(error = "SESSION_EXPIRED" /\ calls[c].retried = FALSE)
  <2> DEFINE new == [calls[c] EXCEPT !.step = "failed", !.error = error]
  <2>1. calls' = [calls EXCEPT ![c] = new]
    BY <1>1, <1>4 DEF OnError, IsSessionExpiredError, Fail
  <2>2. OutcomeOf(new) = IF error = "EXTERNAL_SERVICE_COMMUNICATION_ERROR"
                         THEN "unanswered" ELSE "refused"
    BY <1>1 DEF OutcomeOf, Call
  <2> HIDE DEF new
  <2>3. Promise!End(c, OutcomeOf(new), times)
    BY <1>2, <2>1, CallEnds
  <2>4. CASE error = "EXTERNAL_SERVICE_COMMUNICATION_ERROR"
    BY <2>2, <2>3, <2>4 DEF Promise!LeaveOpen
  <2>5. CASE error # "EXTERNAL_SERVICE_COMMUNICATION_ERROR"
    <3>1. OutcomeOf(new) = "refused" /\ times = 0
      BY <2>2, <2>5
    <3> QED
      BY <2>3, <3>1 DEF Promise!Refuse
  <2> QED
    BY <2>4, <2>5
<1> QED
  BY <1>3, <1>4

\* Every step of a call is a step of ProviderCall, or none.
LEMMA CallStepAllowed ==
  ASSUME SessionInv, NEW c \in Caller, StepOf(c)
  PROVE  \/ Promise!Next
         \/ UNCHANGED <<[d \in Caller |-> OutcomeOf(calls[d])], carriedOut>>
<1> DEFINE call == calls[c]
           Stutters == UNCHANGED <<[d \in Caller |-> OutcomeOf(calls[d])], carriedOut>>
<1>1. call \in Call(logins) /\ carriedOut[c] \in Nat
      /\ carriedOut = [carriedOut EXCEPT ![c] = carriedOut[c] + 0]
  BY DEF SessionInv, SessionTypeOK, CallOK
<1>2. call.step \notin {"done", "failed"} => OutcomeOf(call) = "none"
  BY DEF OutcomeOf
<1>3. ASSUME NEW step \in CallStep \ {"done", "failed"}, NEW token,
             call.step \notin {"done", "failed"},
             calls' = [calls EXCEPT ![c].step = step, ![c].token = token],
             carriedOut' = carriedOut
      PROVE  Stutters
  <2> DEFINE new == [call EXCEPT !.step = step, !.token = token]
  <2>1. calls' = [calls EXCEPT ![c] = new]
    BY <1>3 DEF SessionInv, SessionTypeOK
  <2>2. OutcomeOf(new) = "none"
    BY <1>1 DEF OutcomeOf, Call
  <2> HIDE DEF new, call
  <2> QED
    BY <1>2, <1>3, <2>1, <2>2, CallGoesOn DEF call
<1>4. ASSUME NEW step \in CallStep \ {"done", "failed"},
             call.step \notin {"done", "failed"},
             calls' = [calls EXCEPT ![c].step = step], carriedOut' = carriedOut
      PROVE  Stutters
  <2> DEFINE new == [call EXCEPT !.step = step]
  <2>1. calls' = [calls EXCEPT ![c] = new]
    BY <1>4
  <2>2. OutcomeOf(new) = "none"
    BY <1>1 DEF OutcomeOf, Call
  <2> HIDE DEF new, call
  <2> QED
    BY <1>2, <1>4, <2>1, <2>2, CallGoesOn DEF call
<1>5. CASE StartCall(c)
  BY <1>4, <1>5 DEF StartCall, CallStep
<1>6. CASE LookUpToken(c)
  BY <1>3, <1>6 DEF LookUpToken, CallStep
<1>7. CASE DropToken(c)
  BY <1>4, <1>7 DEF DropToken, CallStep
<1>8. CASE LogIn(c)
  BY <1>3, <1>8 DEF LogIn, CallStep
<1>9. CASE StoreToken(c)
  BY <1>4, <1>9 DEF StoreToken, CallStep
<1>10. CASE SessionHasExpired(c)
  <2>1. /\ call.step = "operate" /\ calls' = OnError(c, "SESSION_EXPIRED")
        /\ carriedOut' = [carriedOut EXCEPT ![c] = carriedOut[c] + 0]
        /\ carriedOut' = carriedOut
    BY <1>1, <1>10 DEF SessionHasExpired, HandleHiperbancoError
  <2> QED
    BY <2>1, ErrorsAllowed DEF ErrorCode, Promise!Next
<1>11. CASE OperationRefused(c)
  <2>1. /\ call.step = "operate" /\ calls' = OnError(c, "EXTERNAL_SERVICE_ERROR")
        /\ carriedOut' = [carriedOut EXCEPT ![c] = carriedOut[c] + 0]
        /\ carriedOut' = carriedOut
    BY <1>1, <1>11 DEF OperationRefused, HandleHiperbancoError
  <2> QED
    BY <2>1, ErrorsAllowed DEF ErrorCode, Promise!Next
<1>12. CASE AnswerLost(c)
  <2>1. PICK times \in {0, 1} : carriedOut' = [carriedOut EXCEPT ![c] = carriedOut[c] + times]
    BY <1>12 DEF AnswerLost
  <2>2. call.step = "operate" /\ calls' = OnError(c, "EXTERNAL_SERVICE_COMMUNICATION_ERROR")
    BY <1>12 DEF AnswerLost, HandleHiperbancoError
  <2> QED
    BY <2>1, <2>2, ErrorsAllowed DEF ErrorCode, Promise!Next
<1>13. CASE OperationDone(c)
  <2> DEFINE new == [call EXCEPT !.step = "done"]
  <2>1. /\ call.step = "operate" /\ calls' = [calls EXCEPT ![c] = new]
        /\ carriedOut' = [carriedOut EXCEPT ![c] = carriedOut[c] + 1]
    BY <1>13 DEF OperationDone
  <2>2. OutcomeOf(new) = "returned"
    BY <1>1 DEF OutcomeOf, Call
  <2> HIDE DEF new
  <2>3. Promise!End(c, OutcomeOf(new), 1)
    BY <1>2, <2>1, CallEnds
  <2> QED
    BY <2>2, <2>3 DEF Promise!Return, Promise!Next
<1>14. CASE SessionFault(c)
  <2> DEFINE new == [call EXCEPT !.step = "failed", !.error = "EXTERNAL_SERVICE_ERROR"]
  <2>1. /\ call.step \notin {"done", "failed"} /\ calls' = [calls EXCEPT ![c] = new]
        /\ carriedOut' = [carriedOut EXCEPT ![c] = carriedOut[c] + 0]
    BY <1>1, <1>14 DEF SessionFault, Fail
  <2>2. OutcomeOf(new) = "refused"
    BY <1>1 DEF OutcomeOf, Call
  <2> HIDE DEF new
  <2>3. Promise!End(c, OutcomeOf(new), 0)
    BY <1>2, <2>1, CallEnds
  <2> QED
    BY <2>2, <2>3 DEF Promise!Refuse, Promise!Next
<1> QED
  BY <1>5, <1>6, <1>7, <1>8, <1>9, <1>10, <1>11, <1>12, <1>13, <1>14
     DEF StepOf, ExecuteWithRetry

\* executeWithRetry implements ProviderCall, however many calls share the token and
\* whatever expires or fails: a call that returns was carried out once, one that is
\* refused not at all, and one that got no answer at most once.
THEOREM ImplementsProviderCall == SessionSpec => CallsKeepPromise
<1>1. SessionInit => Promise!Init
  <2> SUFFICES ASSUME SessionInit PROVE Promise!Init
    OBVIOUS
  <2>1. IdleCall.step = "idle"
    BY DEF IdleCall
  <2>2. OutcomeOf(IdleCall) = "none"
    BY <2>1 DEF OutcomeOf
  <2>3. \A c \in Caller : calls[c] = IdleCall
    BY DEF SessionInit
  <2>4. carriedOut = [c \in Caller |-> 0]
    BY DEF SessionInit
  <2>5. \A c \in Caller : OutcomeOf(calls[c]) = "none"
    BY <2>2, <2>3
  <2> QED
    BY <2>4, <2>5 DEF Promise!Init
<1>2. SessionInv /\ [SessionNext]_sessionVars =>
        [Promise!Next]_<<[c \in Caller |-> OutcomeOf(calls[c])], carriedOut>>
  <2> SUFFICES ASSUME SessionInv, [SessionNext]_sessionVars
               PROVE  \/ Promise!Next
                      \/ UNCHANGED <<[c \in Caller |-> OutcomeOf(calls[c])], carriedOut>>
    OBVIOUS
  <2>1. CASE TokenExpires \/ KeyExpires \/ UNCHANGED sessionVars
    <3>1. UNCHANGED <<calls, carriedOut>>
      BY <2>1 DEF TokenExpires, KeyExpires, sessionVars
    <3> QED
      BY <3>1
  <2>2. ASSUME NEW c \in Caller, StepOf(c)
        PROVE  \/ Promise!Next
               \/ UNCHANGED <<[d \in Caller |-> OutcomeOf(calls[d])], carriedOut>>
    BY <2>2, CallStepAllowed
  <2> QED
    BY <2>1, <2>2 DEF SessionNext, StepOf
<1>3. SessionSpec => []SessionInv
  BY SessionInvariance
<1> QED
  BY <1>1, <1>2, <1>3, PTL DEF SessionSpec, CallsKeepPromise, Promise!Spec

\* A call of executeWithRetry that ends with SESSION_EXPIRED had logged in itself
\* and made a second attempt: other calls' stale tokens never fail it.
THEOREM RefusedOnOwnTokenOnly == SessionSpec => []ExpiryOnlyOnOwnToken
<1>1. SessionInv => ExpiryOnlyOnOwnToken
  BY DEF SessionInv, CallOK, ExpiryOnlyOnOwnToken, Token, ObtainedBy
<1> QED
  BY <1>1, SessionInvariance, PTL

-----------------------------------------------------------------------------
(* How long a call can go on: what EveryCallEnds rests on besides fairness. *)

\* The steps a call has left at most, which is none once it has ended.
StepsLeft(call) ==
  LET later == IF call.retried THEN 0 ELSE 4
  IN  CASE call.step = "idle"    -> 6 + later
        [] call.step = "look"    -> 5 + later
        [] call.step = "drop"    -> 4 + later
        [] call.step = "login"   -> 3 + later
        [] call.step = "store"   -> 2 + later
        [] call.step = "operate" -> 1 + later
        [] call.step \in {"done", "failed"} -> 0

\* Every step of a call leaves it fewer, whatever it finds, and no step of another call
\* and no expiry gives it any back: renewing the token cannot go round in circles.
CallsRunOut ==
  [][\A c \in Caller :
       calls'[c] = calls[c] \/ StepsLeft(calls'[c]) < StepsLeft(calls[c])]_sessionVars

LEMMA StepsLeftBounded ==
  ASSUME NEW log, NEW call \in Call(log)
  PROVE  StepsLeft(call) \in 0 .. 10
<1>1. call.step \in CallStep /\ call.retried \in BOOLEAN
  BY DEF Call
<1> QED
  BY <1>1 DEF StepsLeft, CallStep

\* The catch block lets a call go on only in its first attempt.
LEMMA ErrorsRunOut ==
  ASSUME SessionInv, NEW c \in Caller, NEW error \in ErrorCode, calls' = OnError(c, error),
         calls[c].step = "operate"
  PROVE  /\ StepsLeft(calls'[c]) < StepsLeft(calls[c])
         /\ \A d \in Caller : d # c => calls'[d] = calls[d]
<1> DEFINE call == calls[c]
<1>1. call \in Call(logins) /\ DOMAIN calls = Caller
  BY DEF SessionInv, CallOK, SessionTypeOK
<1>2. call.retried \in BOOLEAN
  BY <1>1 DEF Call
<1>3. CASE call.retried = FALSE /\ error = "SESSION_EXPIRED"
  <2> DEFINE new == [call EXCEPT !.step = "drop", !.retried = TRUE]
  <2>1. calls' = [calls EXCEPT ![c] = new]
    BY <1>3 DEF OnError, IsSessionExpiredError
  <2>2. new.step = "drop" /\ new.retried = TRUE
    BY <1>1 DEF Call
  <2>3. StepsLeft(new) = 4 /\ StepsLeft(call) = 5
    BY <1>3, <2>2 DEF StepsLeft
  <2> QED
    BY <1>1, <2>1, <2>3
<1>4. CASE ~(call.retried = FALSE /\ error = "SESSION_EXPIRED")
  <2> DEFINE new == [call EXCEPT !.step = "failed", !.error = error]
  <2>1. calls' = [calls EXCEPT ![c] = new]
    BY <1>2, <1>4 DEF OnError, IsSessionExpiredError, Fail
  <2>2. new.step = "failed"
    BY <1>1 DEF Call
  <2>3. StepsLeft(new) = 0
    BY <2>2 DEF StepsLeft
  <2>4. StepsLeft(call) \in {1, 5}
    BY <1>2 DEF StepsLeft
  <2> QED
    BY <1>1, <2>1, <2>3, <2>4
<1> QED
  BY <1>3, <1>4

\* Any other step takes a call one further, or ends it.
LEMMA StepRunsOut ==
  ASSUME SessionInv, NEW c \in Caller, StepOf(c)
  PROVE  /\ StepsLeft(calls'[c]) < StepsLeft(calls[c])
         /\ \A d \in Caller : d # c => calls'[d] = calls[d]
<1> DEFINE call == calls[c]
<1>1. call \in Call(logins) /\ DOMAIN calls = Caller
  BY DEF SessionInv, CallOK, SessionTypeOK
<1>2. call.retried \in BOOLEAN
  BY <1>1 DEF Call
<1>3. CASE SessionHasExpired(c) \/ OperationRefused(c) \/ AnswerLost(c)
  <2>1. PICK error \in ErrorCode : calls' = OnError(c, error) /\ call.step = "operate"
    BY <1>3 DEF SessionHasExpired, OperationRefused, AnswerLost, HandleHiperbancoError,
                ErrorCode
  <2> QED
    BY <2>1, ErrorsRunOut
\* The step of the record, and whether it is the second attempt, tell how many are left.
<1>4. ASSUME NEW new, calls' = [calls EXCEPT ![c] = new], new.retried = call.retried,
             StepsLeft(new) < StepsLeft(call)
      PROVE  /\ StepsLeft(calls'[c]) < StepsLeft(call)
             /\ \A d \in Caller : d # c => calls'[d] = calls[d]
  BY <1>1, <1>4
<1>5. CASE StartCall(c)
  <2> DEFINE new == [call EXCEPT !.step = "look"]
  <2>1. new.step = "look" /\ new.retried = call.retried
    BY <1>1 DEF Call
  <2>2. StepsLeft(new) < StepsLeft(call)
    BY <1>2, <1>5, <2>1 DEF StepsLeft, StartCall
  <2> QED
    BY <1>4, <1>5, <2>1, <2>2 DEF StartCall
<1>6. CASE LookUpToken(c)
  <2> DEFINE new == [call EXCEPT !.step = IF sharedToken = NoToken THEN "drop" ELSE "operate",
                                 !.token = sharedToken]
  <2>1. new.step \in {"drop", "operate"} /\ new.retried = call.retried
    BY <1>1 DEF Call
  <2>2. StepsLeft(new) < StepsLeft(call)
    BY <1>2, <1>6, <2>1 DEF StepsLeft, LookUpToken
  <2> QED
    BY <1>4, <1>6, <2>1, <2>2 DEF LookUpToken
<1>7. CASE DropToken(c)
  <2> DEFINE new == [call EXCEPT !.step = "login"]
  <2>1. new.step = "login" /\ new.retried = call.retried
    BY <1>1 DEF Call
  <2>2. StepsLeft(new) < StepsLeft(call)
    BY <1>2, <1>7, <2>1 DEF StepsLeft, DropToken
  <2> QED
    BY <1>4, <1>7, <2>1, <2>2 DEF DropToken
<1>8. CASE LogIn(c)
  <2> DEFINE new == [call EXCEPT !.step = "store", !.token = Len(logins) + 1]
  <2>1. new.step = "store" /\ new.retried = call.retried
    BY <1>1 DEF Call
  <2>2. StepsLeft(new) < StepsLeft(call)
    BY <1>2, <1>8, <2>1 DEF StepsLeft, LogIn
  <2> QED
    BY <1>4, <1>8, <2>1, <2>2 DEF LogIn
<1>9. CASE StoreToken(c)
  <2> DEFINE new == [call EXCEPT !.step = "operate"]
  <2>1. new.step = "operate" /\ new.retried = call.retried
    BY <1>1 DEF Call
  <2>2. StepsLeft(new) < StepsLeft(call)
    BY <1>2, <1>9, <2>1 DEF StepsLeft, StoreToken
  <2> QED
    BY <1>4, <1>9, <2>1, <2>2 DEF StoreToken
<1>10. CASE OperationDone(c)
  <2> DEFINE new == [call EXCEPT !.step = "done"]
  <2>1. new.step = "done" /\ new.retried = call.retried
    BY <1>1 DEF Call
  <2>2. StepsLeft(new) < StepsLeft(call)
    BY <1>2, <1>10, <2>1 DEF StepsLeft, OperationDone
  <2> QED
    BY <1>4, <1>10, <2>1, <2>2 DEF OperationDone
<1>11. CASE SessionFault(c)
  <2> DEFINE new == [call EXCEPT !.step = "failed", !.error = "EXTERNAL_SERVICE_ERROR"]
  <2>1. new.step = "failed" /\ new.retried = call.retried
    BY <1>1 DEF Call
  <2>2. StepsLeft(new) < StepsLeft(call)
    BY <1>2, <1>11, <2>1 DEF StepsLeft, SessionFault
  <2> QED
    BY <1>4, <1>11, <2>1, <2>2 DEF SessionFault, Fail
<1> QED
  BY <1>3, <1>5, <1>6, <1>7, <1>8, <1>9, <1>10, <1>11 DEF StepOf, ExecuteWithRetry

\* executeWithRetry makes at most ten steps per call, for any number of calls, expiries
\* and faults; EveryCallEnds needs only that each of them is taken.
THEOREM CallsAreBounded ==
  SessionSpec => [](\A c \in Caller : StepsLeft(calls[c]) \in 0 .. 10) /\ CallsRunOut
<1>1. SessionInv => \A c \in Caller : StepsLeft(calls[c]) \in 0 .. 10
  BY StepsLeftBounded DEF SessionInv, CallOK
<1>2. SessionInv /\ [SessionNext]_sessionVars =>
        [\A c \in Caller :
           calls'[c] = calls[c] \/ StepsLeft(calls'[c]) < StepsLeft(calls[c])]_sessionVars
  <2> SUFFICES ASSUME SessionInv, [SessionNext]_sessionVars, NEW c \in Caller
               PROVE  calls'[c] = calls[c] \/ StepsLeft(calls'[c]) < StepsLeft(calls[c])
    OBVIOUS
  <2>1. CASE TokenExpires \/ KeyExpires \/ UNCHANGED sessionVars
    BY <2>1 DEF TokenExpires, KeyExpires, sessionVars
  <2>2. ASSUME NEW d \in Caller, StepOf(d)
        PROVE  calls'[c] = calls[c] \/ StepsLeft(calls'[c]) < StepsLeft(calls[c])
    BY <2>2, StepRunsOut
  <2> QED
    BY <2>1, <2>2 DEF SessionNext, StepOf
<1> QED
  BY <1>1, <1>2, SessionInvariance, PTL DEF SessionSpec, CallsRunOut

-----------------------------------------------------------------------------
(* Bank logins: whose accounts are stored and paid from, and when a login fails. *)

BankLoginRecord ==
  [step : LoginStep, client : Client, user : BOOLEAN,
   list : Seq([external : BankAccount, status : AccountStatus]), known : BOOLEAN,
   saved : Seq(AccountId), alone : BOOLEAN]
BankSessionRecord ==
  [open : BOOLEAN, client : Client \cup {Nobody}, account : AccountId \cup {NoAccount},
   loginType : {"none", "BANK", "BACKOFFICE"}]
PaymentRecord == [client : Client \cup {Nobody}, account : AccountId \cup {NoAccount}]

OnItsWay(login) == login.step \notin {"idle", "done", "refused", "failed"}

\* What a login has saved are rows, and of its client.
SavedItsOwn(login, table) ==
  \A i \in DOMAIN login.saved :
    login.saved[i] \in table /\ login.saved[i].client = login.client

\* The row a login is about to save.
RowAtHand(login) == [external |-> Head(login.list).external, client |-> login.client]

\* What a login on its own found missing is missing still when it saves it.
MissingStill(login, users, table) ==
  /\ login.step = "save" => login.list # <<>>
  /\ login.alone = TRUE /\ login.known = FALSE =>
       /\ login.step = "saveUser" => login.client \notin users
       /\ login.step = "save" => RowAtHand(login) \notin table

FailedForAReason(login, faults) ==
  login.step = "failed" => login.alone = FALSE \/ faults > 0

LoginOK(login, users, table, faults) ==
  /\ SavedItsOwn(login, table)
  /\ MissingStill(login, users, table)
  /\ FailedForAReason(login, faults)

\* Two logins of a client under way know that they are not alone.
RivalsKnow(known) ==
  \A k, l \in Login :
    k # l /\ OnItsWay(known[k]) /\ OnItsWay(known[l]) /\ known[k].client = known[l].client
      => known[l].alone = FALSE

\* What an account is used by is a row of the client it is used for.
UsesItsOwn(use, table) == use.account \in table /\ use.account.client = use.client

LoginTables ==
  /\ onboarded \in SUBSET Client
  /\ DOMAIN accounts \subseteq AccountId
  /\ \A id \in DOMAIN accounts : accounts[id] \in AccountRow
  /\ loginFaults \in 0 .. MaxLoginFaults

LoginUses ==
  /\ sessions \in [Login -> BankSessionRecord]
  /\ payments \in [Payment -> PaymentRecord]
  /\ \A l \in Login : sessions[l].open => sessions[l].client \in Client
  /\ \A l \in Login :
       sessions[l].open /\ sessions[l].loginType = "BANK" =>
         UsesItsOwn(sessions[l], DOMAIN accounts)
  /\ \A p \in Payment : payments[p] # NoPayment => UsesItsOwn(payments[p], DOMAIN accounts)

LoginInv ==
  /\ LoginTables
  /\ LoginUses
  /\ bankLogins \in [Login -> BankLoginRecord]
  /\ \A l \in Login : LoginOK(bankLogins[l], onboarded, DOMAIN accounts, loginFaults)
  /\ RivalsKnow(bankLogins)

LEMMA LoginInitInv == LoginInit => LoginInv
<1> SUFFICES ASSUME LoginInit PROVE LoginInv
  OBVIOUS
<1>1. PICK f \in [Login -> Client] : bankLogins = [l \in Login |-> IdleLogin(f[l])]
  BY DEF LoginInit
<1>2. \A c \in Client : IdleLogin(c) \in BankLoginRecord
  <2>1. <<>> \in Seq([external : BankAccount, status : AccountStatus])
    OBVIOUS
  <2>2. <<>> \in Seq(AccountId)
    OBVIOUS
  <2> QED
    BY <2>1, <2>2 DEF IdleLogin, BankLoginRecord, LoginStep
<1>3. bankLogins \in [Login -> BankLoginRecord]
  BY <1>1, <1>2
<1>4. \A l \in Login : bankLogins[l].step = "idle" /\ bankLogins[l].saved = <<>>
  BY <1>1 DEF IdleLogin
<1>5. DOMAIN accounts = {}
  BY DEF LoginInit
<1>6. LoginTables
  BY <1>5, MaxLoginFaultsAssumption DEF LoginInit, LoginTables
<1>7. LoginUses
  BY DEF LoginInit, LoginUses, NoSession, NoPayment, BankSessionRecord, PaymentRecord
<1>8. \A l \in Login : LoginOK(bankLogins[l], onboarded, DOMAIN accounts, loginFaults)
  BY <1>4 DEF LoginOK, SavedItsOwn, MissingStill, FailedForAReason
<1>9. RivalsKnow(bankLogins)
  BY <1>4 DEF RivalsKnow, OnItsWay
<1> QED
  BY <1>3, <1>6, <1>7, <1>8, <1>9 DEF LoginInv

-----------------------------------------------------------------------------
\* A step of one login under way: new is what becomes of it.
LEMMA OneLoginStep ==
  ASSUME LoginInv, NEW l \in Login, NEW new \in BankLoginRecord,
         bankLogins' = [bankLogins EXCEPT ![l] = new],
         new.client = bankLogins[l].client, new.alone = bankLogins[l].alone,
         OnItsWay(bankLogins[l]) \/ ~OnItsWay(new),
         onboarded \subseteq onboarded',
         DOMAIN accounts \subseteq DOMAIN accounts',
         \A c \in onboarded' \ onboarded :
           OnItsWay(bankLogins[l]) /\ c = bankLogins[l].client,
         \A id \in DOMAIN accounts' \ DOMAIN accounts :
           OnItsWay(bankLogins[l]) /\ id.client = bankLogins[l].client,
         LoginTables', loginFaults <= loginFaults',
         LoginOK(new, onboarded', DOMAIN accounts', loginFaults')
  PROVE  /\ bankLogins' \in [Login -> BankLoginRecord]
         /\ \A k \in Login : LoginOK(bankLogins[k], onboarded, DOMAIN accounts, loginFaults)'
         /\ RivalsKnow(bankLogins')
<1>1. bankLogins' \in [Login -> BankLoginRecord]
  BY DEF LoginInv
<1>2. bankLogins'[l] = new /\ \A k \in Login \ {l} : bankLogins'[k] = bankLogins[k]
  BY DEF LoginInv
<1>3. RivalsKnow(bankLogins')
  <2> SUFFICES ASSUME NEW k \in Login, NEW m \in Login, k # m,
                      OnItsWay(bankLogins'[k]), OnItsWay(bankLogins'[m]),
                      bankLogins'[k].client = bankLogins'[m].client
               PROVE  bankLogins'[m].alone = FALSE
    BY DEF RivalsKnow
  <2>1. OnItsWay(bankLogins[k]) /\ OnItsWay(bankLogins[m])
    BY <1>2
  <2>2. bankLogins[k].client = bankLogins[m].client
    BY <1>2
  <2> QED
    BY <1>2, <2>1, <2>2 DEF LoginInv, RivalsKnow
<1>4. ASSUME NEW k \in Login
      PROVE  LoginOK(bankLogins'[k], onboarded', DOMAIN accounts', loginFaults')
  <2>1. CASE k = l
    BY <1>2, <2>1
  <2>2. CASE k # l
    <3> DEFINE other == bankLogins[k]
    <3>1. bankLogins'[k] = other
      BY <1>2, <2>2
    <3>2. /\ LoginOK(other, onboarded, DOMAIN accounts, loginFaults)
          /\ other \in BankLoginRecord
      BY DEF LoginInv
    <3>3. SavedItsOwn(other, DOMAIN accounts')
      BY <3>2 DEF LoginOK, SavedItsOwn
    <3>4. FailedForAReason(other, loginFaults')
      BY <3>2, MaxLoginFaultsAssumption
      DEF LoginOK, FailedForAReason, LoginInv, LoginTables
    <3>5. ASSUME OnItsWay(other), OnItsWay(bankLogins[l]), other.alone = TRUE
          PROVE  other.client # bankLogins[l].client
      BY <2>2, <3>5 DEF LoginInv, RivalsKnow
    <3>6. MissingStill(other, onboarded', DOMAIN accounts')
      <4>1. RowAtHand(other).client = other.client
        BY DEF RowAtHand
      <4>2. other.step \in {"saveUser", "save"} => OnItsWay(other)
        BY DEF OnItsWay
      <4> QED
        BY <3>2, <3>5, <4>1, <4>2 DEF LoginOK, MissingStill
    <3> QED
      BY <3>1, <3>3, <3>4, <3>6 DEF LoginOK
  <2> QED
    BY <2>1, <2>2
<1> QED
  BY <1>1, <1>3, <1>4

\* Rows are never deleted: who uses one goes on using one.
LEMMA UsesStay ==
  ASSUME LoginUses, UNCHANGED <<sessions, payments>>, DOMAIN accounts \subseteq DOMAIN accounts'
  PROVE  LoginUses'
BY DEF LoginUses, UsesItsOwn

-----------------------------------------------------------------------------
\* A login that only moves on, and neither saves nor starts anything.
LEMMA PlainStep ==
  ASSUME LoginInv, NEW l \in Login, NEW new \in BankLoginRecord,
         bankLogins' = [bankLogins EXCEPT ![l] = new],
         UNCHANGED <<onboarded, accounts, loginFaults>>,
         new.client = bankLogins[l].client, new.alone = bankLogins[l].alone,
         new.saved = bankLogins[l].saved,
         OnItsWay(bankLogins[l]) \/ ~OnItsWay(new),
         MissingStill(new, onboarded, DOMAIN accounts),
         new.step # "failed",
         LoginUses'
  PROVE  LoginInv'
<1>1. LoginOK(new, onboarded', DOMAIN accounts', loginFaults')
  BY DEF LoginInv, LoginOK, SavedItsOwn, FailedForAReason
<1>2. LoginTables' /\ loginFaults <= loginFaults'
  BY MaxLoginFaultsAssumption DEF LoginInv, LoginTables
<1> QED
  BY <1>1, <1>2, OneLoginStep DEF LoginInv

LEMMA StartLoginInv ==
  ASSUME LoginInv, NEW l \in Login, StartLogin(l)
  PROVE  LoginInv'
<1> DEFINE rivals ==
      {k \in Login : InProgress(k) /\ bankLogins[k].client = bankLogins[l].client}
<1>1. bankLogins' = [k \in Login |->
           IF k = l THEN [bankLogins[l] EXCEPT !.step = "ask", !.alone = (rivals = {})]
           ELSE IF k \in rivals THEN [bankLogins[k] EXCEPT !.alone = FALSE]
           ELSE bankLogins[k]]
  BY DEF StartLogin
<1>2. l \notin rivals
  BY DEF StartLogin, InProgress
<1> HIDE DEF rivals
<1>3. /\ bankLogins'[l] = [bankLogins[l] EXCEPT !.step = "ask", !.alone = (rivals = {})]
      /\ \A k \in Login \ {l} :
           bankLogins'[k] = IF k \in rivals THEN [bankLogins[k] EXCEPT !.alone = FALSE]
                            ELSE bankLogins[k]
  BY <1>1
<1>4. \A k \in Login : bankLogins[k] \in BankLoginRecord
  BY DEF LoginInv
<1>5. ASSUME NEW k \in Login
      PROVE  /\ bankLogins'[k] \in BankLoginRecord
             /\ bankLogins'[k].client = bankLogins[k].client
             /\ bankLogins'[k].saved = bankLogins[k].saved
             /\ bankLogins'[k].list = bankLogins[k].list
             /\ bankLogins'[k].known = bankLogins[k].known
             /\ k # l => bankLogins'[k].step = bankLogins[k].step
             /\ k # l => bankLogins'[k].alone = bankLogins[k].alone
                           \/ bankLogins'[k].alone = FALSE
  <2>0. bankLogins[k] \in BankLoginRecord
    BY <1>4
  <2>1. CASE k = l
    <3>1. (rivals = {}) \in BOOLEAN
      OBVIOUS
    <3> QED
      BY <1>3, <2>0, <2>1, <3>1 DEF BankLoginRecord, LoginStep
  <2>2. CASE k # l /\ k \in rivals
    <3>1. bankLogins'[k] = [bankLogins[k] EXCEPT !.alone = FALSE]
      BY <1>3, <2>2
    <3> QED
      BY <2>0, <2>2, <3>1 DEF BankLoginRecord
  <2>3. CASE k # l /\ k \notin rivals
    BY <1>3, <2>0, <2>3
  <2> QED
    BY <2>1, <2>2, <2>3
<1>6. bankLogins' \in [Login -> BankLoginRecord]
  BY <1>1, <1>5
<1>7. ASSUME NEW k \in Login
      PROVE  LoginOK(bankLogins'[k], onboarded', DOMAIN accounts', loginFaults')
  <2>0. LoginOK(bankLogins[k], onboarded, DOMAIN accounts, loginFaults)
    BY DEF LoginInv
  <2>1. UNCHANGED <<onboarded, accounts, loginFaults>>
    BY DEF StartLogin
  <2>2. SavedItsOwn(bankLogins'[k], DOMAIN accounts)
    BY <1>5, <2>0 DEF LoginOK, SavedItsOwn
  <2>3. CASE k = l
    <3>1. bankLogins'[k].step = "ask"
      BY <1>3, <1>4, <2>3 DEF BankLoginRecord
    <3> QED
      BY <2>1, <2>2, <3>1 DEF LoginOK, MissingStill, FailedForAReason
  <2>4. CASE k # l
    <3>1. RowAtHand(bankLogins'[k]) = RowAtHand(bankLogins[k])
      BY <1>5 DEF RowAtHand
    <3>2. MissingStill(bankLogins'[k], onboarded, DOMAIN accounts)
      BY <1>5, <2>0, <2>4, <3>1 DEF LoginOK, MissingStill
    <3>3. FailedForAReason(bankLogins'[k], loginFaults)
      BY <1>5, <2>0, <2>4 DEF LoginOK, FailedForAReason
    <3> QED
      BY <2>1, <2>2, <3>2, <3>3 DEF LoginOK
  <2> QED
    BY <2>3, <2>4
<1>8. RivalsKnow(bankLogins')
  <2> SUFFICES ASSUME NEW k \in Login, NEW m \in Login, k # m,
                      OnItsWay(bankLogins'[k]), OnItsWay(bankLogins'[m]),
                      bankLogins'[k].client = bankLogins'[m].client
               PROVE  bankLogins'[m].alone = FALSE
    BY DEF RivalsKnow
  <2>1. CASE k = l
    <3>1. InProgress(m) /\ bankLogins[m].client = bankLogins[l].client
      BY <1>5, <2>1 DEF InProgress, OnItsWay
    <3>2. m \in rivals
      BY <3>1 DEF rivals
    <3> QED
      BY <1>3, <1>4, <2>1, <3>2 DEF BankLoginRecord
  <2>2. CASE m = l
    <3>1. InProgress(k) /\ bankLogins[k].client = bankLogins[l].client
      BY <1>5, <2>2 DEF InProgress, OnItsWay
    <3>2. k \in rivals
      BY <3>1 DEF rivals
    <3> QED
      BY <1>3, <1>4, <2>2, <3>2 DEF BankLoginRecord
  <2>3. CASE k # l /\ m # l
    <3>1. bankLogins[m].alone = FALSE
      BY <1>5, <2>3 DEF LoginInv, RivalsKnow, OnItsWay
    <3> QED
      BY <1>5, <2>3, <3>1
  <2> QED
    BY <2>1, <2>2, <2>3
<1>9. LoginTables' /\ LoginUses'
  BY UsesStay DEF LoginInv, LoginTables, StartLogin
<1> QED
  BY <1>6, <1>7, <1>8, <1>9 DEF LoginInv

LEMMA ProviderAnswersInv ==
  ASSUME LoginInv, NEW l \in Login, ProviderAnswers(l)
  PROVE  LoginInv'
<1>1. PICK list \in AccountLists, status \in AccountStatus \cup {"CLOSED"}, user \in BOOLEAN :
        bankLogins' = [bankLogins EXCEPT ![l].step = IF user THEN "findUser" ELSE "find",
                                 ![l].user = user,
                                 ![l].list = [i \in DOMAIN list |->
                                                [external |-> list[i],
                                                 status |-> ParseAccountStatus(status)]]]
  BY DEF ProviderAnswers
<1> DEFINE answer == [i \in DOMAIN list |-> [external |-> list[i],
                                             status |-> ParseAccountStatus(status)]]
           next == IF user THEN "findUser" ELSE "find"
           new == [bankLogins[l] EXCEPT !.step = next, !.user = user, !.list = answer]
<1>2. list \in Seq(BankAccount)
  BY AccountListsAssumption
<1>3. ParseAccountStatus(status) \in AccountStatus
  BY DEF ParseAccountStatus, AccountStatus
<1>4. answer \in Seq([external : BankAccount, status : AccountStatus])
  <2> DEFINE Answered == [external : BankAccount, status : AccountStatus]
  <2>1. DOMAIN list = 1 .. Len(list) /\ Len(list) \in Nat
    BY <1>2
  <2>2. \A i \in 1 .. Len(list) : list[i] \in BankAccount
    BY <1>2
  <2>3. answer \in [1 .. Len(list) -> Answered]
    BY <1>3, <2>1, <2>2
  <2> HIDE DEF Answered
  <2>4. answer \in Seq(Answered)
    BY <2>1, <2>3, SeqDef
  <2> QED
    BY <2>4 DEF Answered
<1>4a. bankLogins' = [bankLogins EXCEPT ![l].step = next, ![l].user = user, ![l].list = answer]
  BY <1>1
<1>4b. next \in {"findUser", "find"}
  OBVIOUS
<1> HIDE DEF answer, next
<1>5. bankLogins[l] \in BankLoginRecord
  BY DEF LoginInv
<1>6. new \in BankLoginRecord
  BY <1>4, <1>4b, <1>5 DEF BankLoginRecord, LoginStep
<1>7. /\ new.step \in {"findUser", "find"}
      /\ new.client = bankLogins[l].client /\ new.alone = bankLogins[l].alone
      /\ new.saved = bankLogins[l].saved
  BY <1>4b, <1>5 DEF BankLoginRecord
<1>8. bankLogins' = [bankLogins EXCEPT ![l] = new]
  BY <1>4a DEF LoginInv
<1> HIDE DEF new
<1>9. OnItsWay(bankLogins[l]) /\ MissingStill(new, onboarded, DOMAIN accounts)
  BY <1>7 DEF OnItsWay, MissingStill, ProviderAnswers
<1>10. LoginUses' /\ UNCHANGED <<onboarded, accounts, loginFaults>>
  BY UsesStay DEF LoginInv, ProviderAnswers
<1> QED
  BY <1>6, <1>7, <1>8, <1>9, <1>10, PlainStep

LEMMA ProviderRefusesInv ==
  ASSUME LoginInv, NEW l \in Login, ProviderRefuses(l)
  PROVE  LoginInv'
<1> DEFINE new == [bankLogins[l] EXCEPT !.step = "refused"]
<1>1. bankLogins[l] \in BankLoginRecord
  BY DEF LoginInv
<1>2. new \in BankLoginRecord
  BY <1>1 DEF BankLoginRecord, LoginStep
<1>3. /\ new.step = "refused"
      /\ new.client = bankLogins[l].client /\ new.alone = bankLogins[l].alone
      /\ new.saved = bankLogins[l].saved
  BY <1>1 DEF BankLoginRecord
<1>4. bankLogins' = [bankLogins EXCEPT ![l] = new]
  BY DEF ProviderRefuses
<1> HIDE DEF new
<1>5. OnItsWay(bankLogins[l]) /\ MissingStill(new, onboarded, DOMAIN accounts)
  BY <1>3 DEF OnItsWay, MissingStill, ProviderRefuses
<1>6. LoginUses' /\ UNCHANGED <<onboarded, accounts, loginFaults>>
  BY UsesStay DEF LoginInv, ProviderRefuses
<1> QED
  BY <1>2, <1>3, <1>4, <1>5, <1>6, PlainStep

LEMMA FindOnboardingInv ==
  ASSUME LoginInv, NEW l \in Login, FindOnboarding(l)
  PROVE  LoginInv'
<1> DEFINE found == bankLogins[l].client \in onboarded
           new == [bankLogins[l] EXCEPT !.step = "saveUser", !.known = found]
<1>1. bankLogins[l] \in BankLoginRecord
  BY DEF LoginInv
<1>2. found \in BOOLEAN
  OBVIOUS
<1>3. bankLogins' = [bankLogins EXCEPT ![l] = new]
  BY DEF FindOnboarding
<1>4. found = FALSE => bankLogins[l].client \notin onboarded
  OBVIOUS
<1> HIDE DEF found
<1>5. new \in BankLoginRecord
  BY <1>1, <1>2 DEF BankLoginRecord, LoginStep
<1>6. /\ new.step = "saveUser" /\ new.known = found
      /\ new.client = bankLogins[l].client /\ new.alone = bankLogins[l].alone
      /\ new.saved = bankLogins[l].saved
  BY <1>1 DEF BankLoginRecord
<1> HIDE DEF new
<1>7. OnItsWay(bankLogins[l]) /\ MissingStill(new, onboarded, DOMAIN accounts)
  BY <1>4, <1>6 DEF OnItsWay, MissingStill, FindOnboarding
<1>8. LoginUses' /\ UNCHANGED <<onboarded, accounts, loginFaults>>
  BY UsesStay DEF LoginInv, FindOnboarding
<1> QED
  BY <1>3, <1>5, <1>6, <1>7, <1>8, PlainStep

LEMMA FindAccountInv ==
  ASSUME LoginInv, NEW l \in Login, FindAccount(l)
  PROVE  LoginInv'
<1> DEFINE found == RowOf(l, Head(bankLogins[l].list).external) \in DOMAIN accounts
           new == [bankLogins[l] EXCEPT !.step = "save", !.known = found]
<1>1. bankLogins[l] \in BankLoginRecord
  BY DEF LoginInv
<1>2. found \in BOOLEAN
  OBVIOUS
<1>3. bankLogins' = [bankLogins EXCEPT ![l] = new]
  BY DEF FindAccount
<1>4. found = FALSE => RowAtHand(bankLogins[l]) \notin DOMAIN accounts
  BY DEF RowAtHand, RowOf
<1> HIDE DEF found
<1>5. new \in BankLoginRecord
  BY <1>1, <1>2 DEF BankLoginRecord, LoginStep
<1>6. /\ new.step = "save" /\ new.known = found /\ new.list = bankLogins[l].list
      /\ new.client = bankLogins[l].client /\ new.alone = bankLogins[l].alone
      /\ new.saved = bankLogins[l].saved
  BY <1>1 DEF BankLoginRecord
<1> HIDE DEF new
<1>7. OnItsWay(bankLogins[l]) /\ MissingStill(new, onboarded, DOMAIN accounts)
  BY <1>4, <1>6 DEF OnItsWay, MissingStill, FindAccount, RowAtHand
<1>8. LoginUses' /\ UNCHANGED <<onboarded, accounts, loginFaults>>
  BY UsesStay DEF LoginInv, FindAccount
<1> QED
  BY <1>3, <1>5, <1>6, <1>7, <1>8, PlainStep

\* The unique index refuses the row of a login only if another ran meanwhile.
LEMMA RefusedRowLosesRace ==
  ASSUME LoginInv, NEW l \in Login,
         bankLogins[l].step \in {"saveUser", "save"}, bankLogins[l].known = FALSE,
         IF bankLogins[l].step = "saveUser" THEN bankLogins[l].client \in onboarded
         ELSE RowAtHand(bankLogins[l]) \in DOMAIN accounts
  PROVE  bankLogins[l].alone = FALSE
<1>1. bankLogins[l] \in BankLoginRecord /\ MissingStill(bankLogins[l], onboarded, DOMAIN accounts)
  BY DEF LoginInv, LoginOK
<1>2. bankLogins[l].alone \in BOOLEAN
  BY <1>1 DEF BankLoginRecord
<1> QED
  BY <1>1, <1>2 DEF MissingStill

\* A login fails, for a reason.
LEMMA LoginFailsInv ==
  ASSUME LoginInv, NEW l \in Login, OnItsWay(bankLogins[l]),
         bankLogins' = [bankLogins EXCEPT ![l].step = "failed"],
         UNCHANGED <<onboarded, accounts, sessions, payments>>,
         loginFaults' \in 0 .. MaxLoginFaults, loginFaults <= loginFaults',
         bankLogins[l].alone = FALSE \/ loginFaults' > 0
  PROVE  LoginInv'
<1> DEFINE new == [bankLogins[l] EXCEPT !.step = "failed"]
<1>1. bankLogins[l] \in BankLoginRecord
  BY DEF LoginInv
<1>2. new \in BankLoginRecord
  BY <1>1 DEF BankLoginRecord, LoginStep
<1>3. /\ new.step = "failed"
      /\ new.client = bankLogins[l].client /\ new.alone = bankLogins[l].alone
      /\ new.saved = bankLogins[l].saved
  BY <1>1 DEF BankLoginRecord
<1>4. bankLogins' = [bankLogins EXCEPT ![l] = new]
  OBVIOUS
<1> HIDE DEF new
<1>5. LoginTables'
  BY DEF LoginInv, LoginTables
<1>6. LoginOK(new, onboarded', DOMAIN accounts', loginFaults')
  BY <1>3 DEF LoginInv, LoginOK, SavedItsOwn, MissingStill, FailedForAReason
<1>7. LoginUses'
  BY UsesStay DEF LoginInv
<1> QED
  BY <1>2, <1>3, <1>4, <1>5, <1>6, <1>7, OneLoginStep DEF LoginInv

LEMMA SaveOnboardingInv ==
  ASSUME LoginInv, NEW l \in Login, SaveOnboarding(l)
  PROVE  LoginInv'
<1>1. bankLogins[l] \in BankLoginRecord /\ loginFaults \in 0 .. MaxLoginFaults
  BY DEF LoginInv, LoginTables
<1>2. OnItsWay(bankLogins[l]) /\ UNCHANGED <<accounts, sessions, payments, loginFaults>>
  BY DEF SaveOnboarding, OnItsWay
<1>2a. loginFaults' \in 0 .. MaxLoginFaults /\ loginFaults <= loginFaults'
  BY <1>1, <1>2, MaxLoginFaultsAssumption
<1>3. CASE DuplicateKey(l, bankLogins[l].client \in onboarded)
  <2>1. /\ bankLogins' = [bankLogins EXCEPT ![l].step = "failed"]
        /\ UNCHANGED onboarded
        /\ bankLogins[l].step = "saveUser"
    BY <1>3 DEF SaveOnboarding
  <2>2. bankLogins[l].known = FALSE /\ bankLogins[l].client \in onboarded
    BY <1>1, <1>3 DEF DuplicateKey, BankLoginRecord
  <2>3. bankLogins[l].alone = FALSE
    BY <2>1, <2>2, RefusedRowLosesRace
  <2> QED
    BY <1>2, <1>2a, <2>1, <2>3, LoginFailsInv
<1>4. CASE ~DuplicateKey(l, bankLogins[l].client \in onboarded)
  <2> DEFINE new == [bankLogins[l] EXCEPT !.step = "find"]
  <2>1. /\ bankLogins' = [bankLogins EXCEPT ![l] = new]
        /\ onboarded' = onboarded \cup {bankLogins[l].client}
    BY <1>4 DEF SaveOnboarding
  <2>2. new \in BankLoginRecord
    BY <1>1 DEF BankLoginRecord, LoginStep
  <2>3. /\ new.step = "find"
        /\ new.client = bankLogins[l].client /\ new.alone = bankLogins[l].alone
        /\ new.saved = bankLogins[l].saved
    BY <1>1 DEF BankLoginRecord
  <2> HIDE DEF new
  <2>4. LoginTables' /\ LoginUses'
    BY <1>1, <1>2, <2>1, UsesStay DEF LoginInv, LoginTables, BankLoginRecord
  <2>5. LoginOK(new, onboarded', DOMAIN accounts', loginFaults')
    BY <1>2, <2>3 DEF LoginInv, LoginOK, SavedItsOwn, MissingStill, FailedForAReason
  <2>6. /\ onboarded \subseteq onboarded' /\ DOMAIN accounts \subseteq DOMAIN accounts'
        /\ \A c \in onboarded' \ onboarded : c = bankLogins[l].client
        /\ \A id \in DOMAIN accounts' \ DOMAIN accounts : id.client = bankLogins[l].client
    BY <1>2, <2>1
  <2> QED
    BY <1>2, <1>2a, <2>1, <2>2, <2>3, <2>4, <2>5, <2>6, OneLoginStep DEF LoginInv
<1> QED
  BY <1>3, <1>4

LEMMA SaveAccountInv ==
  ASSUME LoginInv, NEW l \in Login, SaveAccount(l)
  PROVE  LoginInv'
<1> DEFINE login == bankLogins[l]
           account == Head(login.list)
           id == RowOf(l, account.external)
           exists == id \in DOMAIN accounts
           row == [status |-> account.status,
                   onboarded |-> login.user \/ (exists /\ accounts[id].onboarded)]
           new == [login EXCEPT !.step = "find", !.list = Tail(@), !.saved = Append(@, id)]
<1>1. login \in BankLoginRecord /\ loginFaults \in 0 .. MaxLoginFaults
  BY DEF LoginInv, LoginTables
<1>2. /\ OnItsWay(login) /\ login.step = "save"
      /\ UNCHANGED <<onboarded, sessions, payments, loginFaults>>
  BY DEF SaveAccount, OnItsWay
<1>2a. loginFaults' \in 0 .. MaxLoginFaults /\ loginFaults <= loginFaults'
  BY <1>1, <1>2, MaxLoginFaultsAssumption
<1>3. LoginOK(login, onboarded, DOMAIN accounts, loginFaults) /\ login.list # <<>>
  BY <1>2 DEF LoginInv, LoginOK, MissingStill
<1>4. id = RowAtHand(login)
  BY DEF RowAtHand, RowOf
<1>4a. IF DuplicateKey(l, exists)
       THEN /\ bankLogins' = [bankLogins EXCEPT ![l].step = "failed"]
            /\ UNCHANGED accounts
       ELSE /\ bankLogins' = [bankLogins EXCEPT ![l].step = "find", ![l].list = Tail(@),
                                                ![l].saved = Append(@, id)]
            /\ accounts' = [other \in DOMAIN accounts \cup {id} |->
                              IF other # id THEN accounts[other] ELSE row]
  BY DEF SaveAccount
<1>5. CASE DuplicateKey(l, exists)
  <2>1. bankLogins' = [bankLogins EXCEPT ![l].step = "failed"] /\ UNCHANGED accounts
    BY <1>4a, <1>5
  <2>2. login.known = FALSE /\ exists
    BY <1>1, <1>5 DEF DuplicateKey, BankLoginRecord
  <2>3. login.alone = FALSE
    BY <1>2, <1>4, <2>2, RefusedRowLosesRace
  <2> QED
    BY <1>2, <1>2a, <2>1, <2>3, LoginFailsInv
<1>6. CASE ~DuplicateKey(l, exists)
  <2>1. bankLogins' = [bankLogins EXCEPT ![l].step = "find", ![l].list = Tail(@),
                                         ![l].saved = Append(@, id)]
    BY <1>4a, <1>6
  <2>2. accounts' = [other \in DOMAIN accounts \cup {id} |->
                       IF other # id THEN accounts[other] ELSE row]
    BY <1>4a, <1>6
  <2>3. account \in [external : BankAccount, status : AccountStatus]
    <3>1. login.list \in Seq([external : BankAccount, status : AccountStatus])
      BY <1>1 DEF BankLoginRecord
    <3> QED
      BY <1>3, <3>1, HeadTailProperties
  <2>4. id \in AccountId /\ id.client = login.client
    BY <1>1, <2>3 DEF RowOf, AccountId, BankLoginRecord
  <2>5. row \in AccountRow
    <3>1. (login.user \/ (exists /\ accounts[id].onboarded)) \in BOOLEAN
      OBVIOUS
    <3> QED
      BY <2>3, <3>1 DEF AccountRow
  <2> HIDE DEF row, id
  <2>6. /\ DOMAIN accounts' = DOMAIN accounts \cup {id}
        /\ \A other \in DOMAIN accounts' :
             accounts'[other] = IF other = id THEN row ELSE accounts[other]
    BY <2>2
  <2>7. new \in BankLoginRecord
    <3>1. Tail(login.list) \in Seq([external : BankAccount, status : AccountStatus])
      BY <1>1, <1>3 DEF BankLoginRecord
    <3>2. Append(login.saved, id) \in Seq(AccountId)
      BY <1>1, <2>4 DEF BankLoginRecord
    <3> QED
      BY <1>1, <3>1, <3>2 DEF BankLoginRecord, LoginStep
  <2>8. /\ new.step = "find" /\ new.saved = Append(login.saved, id)
        /\ new.client = login.client /\ new.alone = login.alone
    BY <1>1 DEF BankLoginRecord
  <2>9. bankLogins' = [bankLogins EXCEPT ![l] = new]
    BY <2>1 DEF LoginInv
  <2> HIDE DEF new
  <2>10. SavedItsOwn(new, DOMAIN accounts')
    <3>1. login.saved \in Seq(AccountId)
      BY <1>1 DEF BankLoginRecord
    <3>2. ASSUME NEW i \in DOMAIN new.saved
          PROVE  \/ new.saved[i] = id
                 \/ i \in DOMAIN login.saved /\ new.saved[i] = login.saved[i]
      BY <2>4, <2>8, <3>1, <3>2
    <3> QED
      BY <1>3, <2>4, <2>6, <2>8, <3>2 DEF LoginOK, SavedItsOwn
  <2>11. LoginOK(new, onboarded', DOMAIN accounts', loginFaults')
    BY <2>8, <2>10 DEF LoginOK, MissingStill, FailedForAReason
  <2>12. LoginTables' /\ LoginUses'
    <3>1. LoginTables'
      BY <1>2, <2>4, <2>5, <2>6 DEF LoginInv, LoginTables
    <3> QED
      BY <1>2, <2>6, <3>1, UsesStay DEF LoginInv
  <2>13. /\ onboarded \subseteq onboarded' /\ DOMAIN accounts \subseteq DOMAIN accounts'
         /\ \A c \in onboarded' \ onboarded : c = login.client
         /\ \A other \in DOMAIN accounts' \ DOMAIN accounts : other.client = login.client
    BY <1>2, <2>4, <2>6
  <2> QED
    BY <1>2, <1>2a, <2>7, <2>8, <2>9, <2>11, <2>12, <2>13, OneLoginStep DEF LoginInv
<1> QED
  BY <1>5, <1>6

LEMMA NoPrimaryAccountInv ==
  ASSUME LoginInv, NEW l \in Login, NoPrimaryAccount(l)
  PROVE  LoginInv'
<1> DEFINE new == [bankLogins[l] EXCEPT !.step = "refused"]
<1>1. bankLogins[l] \in BankLoginRecord
  BY DEF LoginInv
<1>2. new \in BankLoginRecord
  BY <1>1 DEF BankLoginRecord, LoginStep
<1>3. /\ new.step = "refused"
      /\ new.client = bankLogins[l].client /\ new.alone = bankLogins[l].alone
      /\ new.saved = bankLogins[l].saved
  BY <1>1 DEF BankLoginRecord
<1>4. bankLogins' = [bankLogins EXCEPT ![l] = new]
  BY DEF NoPrimaryAccount
<1> HIDE DEF new
<1>5. ~OnItsWay(new) /\ MissingStill(new, onboarded, DOMAIN accounts)
  BY <1>3 DEF OnItsWay, MissingStill
<1>6. LoginUses' /\ UNCHANGED <<onboarded, accounts, loginFaults>>
  BY UsesStay DEF LoginInv, NoPrimaryAccount
<1> QED
  BY <1>2, <1>3, <1>4, <1>5, <1>6, PlainStep

\* A login that ends in a session: what is left to show is that of the session.
LEMMA LoginDone ==
  ASSUME LoginInv, NEW l \in Login,
         bankLogins' = [bankLogins EXCEPT ![l].step = "done"],
         UNCHANGED <<onboarded, accounts, loginFaults>>,
         LoginUses'
  PROVE  LoginInv'
<1> DEFINE new == [bankLogins[l] EXCEPT !.step = "done"]
<1>1. bankLogins[l] \in BankLoginRecord
  BY DEF LoginInv
<1>2. new \in BankLoginRecord
  BY <1>1 DEF BankLoginRecord, LoginStep
<1>3. /\ new.step = "done"
      /\ new.client = bankLogins[l].client /\ new.alone = bankLogins[l].alone
      /\ new.saved = bankLogins[l].saved
  BY <1>1 DEF BankLoginRecord
<1>4. bankLogins' = [bankLogins EXCEPT ![l] = new]
  OBVIOUS
<1> HIDE DEF new
<1>5. ~OnItsWay(new) /\ MissingStill(new, onboarded, DOMAIN accounts)
  BY <1>3 DEF OnItsWay, MissingStill
<1> QED
  BY <1>2, <1>3, <1>4, <1>5, PlainStep

LEMMA SessionOpens ==
  ASSUME LoginInv, NEW l \in Login, NEW session \in BankSessionRecord,
         sessions' = [sessions EXCEPT ![l] = session],
         UNCHANGED <<accounts, payments>>,
         session.open => session.client \in Client,
         session.open /\ session.loginType = "BANK" => UsesItsOwn(session, DOMAIN accounts)
  PROVE  LoginUses'
<1>1. /\ sessions' \in [Login -> BankSessionRecord]
      /\ sessions'[l] = session
      /\ \A k \in Login \ {l} : sessions'[k] = sessions[k]
  BY DEF LoginInv, LoginUses
<1>2. \A k \in Login :
        /\ sessions'[k].open => sessions'[k].client \in Client
        /\ sessions'[k].open /\ sessions'[k].loginType = "BANK" =>
             UsesItsOwn(sessions'[k], DOMAIN accounts)
  BY <1>1 DEF LoginInv, LoginUses
<1> QED
  BY <1>1, <1>2 DEF LoginInv, LoginUses, UsesItsOwn

LEMMA CreateSessionInv ==
  ASSUME LoginInv, NEW l \in Login, CreateSession(l)
  PROVE  LoginInv'
<1> DEFINE login == bankLogins[l]
           session == [open |-> TRUE, client |-> login.client,
                       account |-> Head(login.saved), loginType |-> "BANK"]
<1>1. login \in BankLoginRecord /\ LoginOK(login, onboarded, DOMAIN accounts, loginFaults)
  BY DEF LoginInv
<1>2. /\ login.saved \in Seq(AccountId) /\ login.saved # <<>> /\ login.client \in Client
      /\ sessions' = [sessions EXCEPT ![l] = session]
      /\ bankLogins' = [bankLogins EXCEPT ![l].step = "done"]
      /\ UNCHANGED <<onboarded, accounts, payments, loginFaults>>
  BY <1>1 DEF CreateSession, BankLoginRecord
<1>3. 1 \in DOMAIN login.saved /\ Head(login.saved) = login.saved[1]
  BY <1>2
<1>4. Head(login.saved) \in DOMAIN accounts /\ Head(login.saved).client = login.client
  BY <1>1, <1>3 DEF LoginOK, SavedItsOwn
<1>5. session \in BankSessionRecord
  BY <1>2, HeadTailProperties DEF BankSessionRecord
<1>6. UsesItsOwn(session, DOMAIN accounts) /\ session.client \in Client
  BY <1>2, <1>4 DEF UsesItsOwn
<1> HIDE DEF session
<1>7. LoginUses'
  BY <1>2, <1>5, <1>6, SessionOpens
<1> QED
  BY <1>2, <1>7, LoginDone

LEMMA BackofficeLoginInv ==
  ASSUME LoginInv, NEW l \in Login, NEW c \in Client, BackofficeLogin(l, c)
  PROVE  LoginInv'
<1> DEFINE session == [open |-> TRUE, client |-> c, account |-> NoAccount,
                       loginType |-> "BACKOFFICE"]
<1>1. /\ sessions' = [sessions EXCEPT ![l] = session]
      /\ bankLogins' = [bankLogins EXCEPT ![l].step = "done"]
      /\ UNCHANGED <<onboarded, accounts, payments, loginFaults>>
  BY DEF BackofficeLogin
<1>2. session \in BankSessionRecord /\ session.client = c /\ session.loginType # "BANK"
  BY DEF BankSessionRecord
<1> HIDE DEF session
<1>3. LoginUses'
  BY <1>1, <1>2, SessionOpens
<1> QED
  BY <1>1, <1>3, LoginDone

LEMMA SessionTtlEndsInv ==
  ASSUME LoginInv, NEW l \in Login, SessionTtlEnds(l)
  PROVE  LoginInv'
<1>1. /\ sessions' = [sessions EXCEPT ![l] = NoSession]
      /\ UNCHANGED <<onboarded, accounts, bankLogins, payments, loginFaults>>
  BY DEF SessionTtlEnds
<1>2. NoSession \in BankSessionRecord /\ NoSession.open = FALSE
  BY DEF NoSession, BankSessionRecord
<1>3. LoginUses'
  BY <1>1, <1>2, SessionOpens
<1> QED
  BY <1>1, <1>3 DEF LoginInv, LoginTables

LEMMA MakePaymentInv ==
  ASSUME LoginInv, NEW l \in Login, NEW p \in Payment, MakePayment(p, l)
  PROVE  LoginInv'
<1> DEFINE payment == [client |-> sessions[l].client, account |-> sessions[l].account]
<1>1. /\ payments' = [payments EXCEPT ![p] = payment]
      /\ UNCHANGED <<onboarded, accounts, bankLogins, sessions, loginFaults>>
      /\ sessions[l].open /\ sessions[l].loginType = "BANK"
  BY DEF MakePayment
<1>2. sessions[l] \in BankSessionRecord /\ UsesItsOwn(sessions[l], DOMAIN accounts)
  BY <1>1 DEF LoginInv, LoginUses
<1>3. payment \in PaymentRecord /\ UsesItsOwn(payment, DOMAIN accounts)
  BY <1>2 DEF BankSessionRecord, PaymentRecord, UsesItsOwn
<1> HIDE DEF payment
<1>4. /\ payments' \in [Payment -> PaymentRecord]
      /\ payments'[p] = payment
      /\ \A q \in Payment \ {p} : payments'[q] = payments[q]
  BY <1>1, <1>3 DEF LoginInv, LoginUses
<1>5. \A q \in Payment : payments'[q] # NoPayment => UsesItsOwn(payments'[q], DOMAIN accounts)
  BY <1>3, <1>4 DEF LoginInv, LoginUses
<1>6. LoginUses'
  BY <1>1, <1>4, <1>5 DEF LoginInv, LoginUses
<1> QED
  BY <1>1, <1>6 DEF LoginInv, LoginTables

LEMMA LoginFaultInv ==
  ASSUME LoginInv, NEW l \in Login, LoginFault(l)
  PROVE  LoginInv'
<1>1. loginFaults' \in 0 .. MaxLoginFaults /\ loginFaults <= loginFaults' /\ loginFaults' > 0
  BY MaxLoginFaultsAssumption DEF LoginInv, LoginTables, LoginFault
<1>2. /\ OnItsWay(bankLogins[l])
      /\ bankLogins' = [bankLogins EXCEPT ![l].step = "failed"]
      /\ UNCHANGED <<onboarded, accounts, sessions, payments>>
  BY DEF LoginFault, InProgress, OnItsWay
<1> QED
  BY <1>1, <1>2, LoginFailsInv

LEMMA LoginStutterInv ==
  ASSUME LoginInv, UNCHANGED loginVars
  PROVE  LoginInv'
BY DEF LoginInv, LoginTables, LoginUses, loginVars

LEMMA LoginNextInv == LoginInv /\ [LoginNext]_loginVars => LoginInv'
<1> SUFFICES ASSUME LoginInv, [LoginNext]_loginVars PROVE LoginInv'
  OBVIOUS
<1>1. CASE UNCHANGED loginVars
  BY <1>1, LoginStutterInv
<1>2. ASSUME NEW l \in Login, LogInBank(l) PROVE LoginInv'
  BY <1>2, ProviderAnswersInv, ProviderRefusesInv, FindOnboardingInv, SaveOnboardingInv,
     FindAccountInv, SaveAccountInv, NoPrimaryAccountInv, CreateSessionInv
  DEF LogInBank
<1>3. ASSUME NEW l \in Login,
             \/ StartLogin(l) \/ LogInBank(l) \/ LoginFault(l) \/ SessionTtlEnds(l)
             \/ \E c \in Client : BackofficeLogin(l, c)
             \/ \E p \in Payment : MakePayment(p, l)
      PROVE  LoginInv'
  BY <1>2, <1>3, StartLoginInv, LoginFaultInv, SessionTtlEndsInv, BackofficeLoginInv,
     MakePaymentInv
<1> QED
  BY <1>1, <1>3 DEF LoginNext

LEMMA LoginSpecInv == LoginSpec => []LoginInv
BY LoginInitInv, LoginNextInv, PTL DEF LoginSpec

\* A payment is made for an account row of its own client, saved by then, however
\* many logins and clients share the bank user's accounts.
THEOREM PaidFromOwnAccount == LoginSpec => []PaymentsActForTheirClient
<1>1. LoginInv => PaymentsActForTheirClient
  BY DEF LoginInv, LoginUses, UsesItsOwn, PaymentsActForTheirClient
<1> QED
  BY <1>1, LoginSpecInv, PTL

\* A login the provider agreed to fails only if something broke or a login of the
\* same client ran beside it, whatever earlier logins left behind.
THEOREM LoginsFailByOverlap == LoginSpec => []LoginFailsOnlyByOverlap
<1>1. LoginInv => LoginFailsOnlyByOverlap
  BY DEF LoginInv, LoginOK, FailedForAReason, LoginFailsOnlyByOverlap
<1> QED
  BY <1>1, LoginSpecInv, PTL

\* The tables, the logins under way and their sessions keep their types.
THEOREM LoginTypesCorrect == LoginSpec => []LoginTypeOK
<1>1. LoginInv => LoginTypeOK
  BY DEF LoginInv, LoginTables, LoginUses, LoginTypeOK, BankLoginRecord
<1> QED
  BY <1>1, LoginSpecInv, PTL

-----------------------------------------------------------------------------
(* The registration of webhooks: its queues, the state it works on, what clients   *)
(* are told, and the table against the provider's list.                            *)

\* The queue of registrations stays well typed, and an operation touches one job.
LEMMA RegQueueStep ==
  ASSUME RegQueue!QueueTypeOK, NEW r \in Registration,
         \/ \E job \in RegisterWebhookJob : RegQueue!Add(r, job)
         \/ RegQueue!Take(r) \/ RegQueue!Complete(r) \/ RegQueue!Stall(r)
  PROVE  /\ RegQueue!QueueTypeOK'
         /\ \A k \in Registration \ {r} :
              /\ regPlace'[k] = regPlace[k]
              /\ regPayload'[k] = regPayload[k]
              /\ regStalls'[k] = regStalls[k]
BY DEF RegQueue!QueueTypeOK, RegQueue!Place, RegQueue!Add, RegQueue!Exists, RegQueue!queueVars,
       RegQueue!Take, RegQueue!Complete, RegQueue!Stall, RegQueue!Remove, DefaultQueueAttempts,
       DefaultMaxStalledCount

LEMMA TellQueueStep ==
  ASSUME TellQueue!QueueTypeOK, NEW id \in ExternalId,
         \/ \E uri \in Uri : TellQueue!Add(id, uri)
         \/ TellQueue!Take(id) \/ TellQueue!Complete(id) \/ TellQueue!FailAttempt(id)
         \/ TellQueue!Promote(id) \/ TellQueue!Stall(id)
  PROVE  /\ TellQueue!QueueTypeOK'
         /\ \A k \in ExternalId \ {id} : tellPlace'[k] = tellPlace[k]
<1>1. CASE \E uri \in Uri : TellQueue!Add(id, uri)
  BY <1>1 DEF TellQueue!QueueTypeOK, TellQueue!Place, TellQueue!Add, TellQueue!Exists,
              TellQueue!queueVars
<1>2. CASE TellQueue!Take(id) \/ TellQueue!Promote(id)
  BY <1>2 DEF TellQueue!QueueTypeOK, TellQueue!Place, TellQueue!Take, TellQueue!Promote
<1>3. CASE TellQueue!Complete(id)
  BY <1>3 DEF TellQueue!QueueTypeOK, TellQueue!Place, TellQueue!Complete, TellQueue!Remove,
              DefaultQueueAttempts, DefaultMaxStalledCount
<1>4. CASE TellQueue!FailAttempt(id)
  BY <1>4 DEF TellQueue!QueueTypeOK, TellQueue!Place, TellQueue!FailAttempt, TellQueue!Remove,
              TellQueue!IsLastAttempt, DefaultQueueAttempts, DefaultMaxStalledCount
<1>5. CASE TellQueue!Stall(id)
  BY <1>5 DEF TellQueue!QueueTypeOK, TellQueue!Place, TellQueue!Stall, TellQueue!Remove,
              DefaultQueueAttempts, DefaultMaxStalledCount
<1> QED
  BY <1>1, <1>2, <1>3, <1>4, <1>5

-----------------------------------------------------------------------------
(* Counting what the provider registered. *)

Issue == [by : Registration, uri : Uri, deleted : BOOLEAN]

IssuedTo(r, log) == {id \in DOMAIN log : log[id].by = r}

\* The issues of one request are finitely many.
LEMMA FinitelyManyIssues ==
  ASSUME NEW log \in Seq(Issue), NEW r
  PROVE  /\ IsFiniteSet(IssuedTo(r, log))
         /\ Cardinality(IssuedTo(r, log)) \in Nat
<1>1. IsFiniteSet(1 .. Len(log))
  BY FS_Interval
<1>2. IssuedTo(r, log) \in SUBSET (1 .. Len(log))
  BY DEF IssuedTo
<1>3. IsFiniteSet(IssuedTo(r, log))
  BY <1>1, <1>2, FS_Subset
<1> QED
  BY <1>3, FS_CardinalityType

\* One more issue is one more of its request, and of no other.
LEMMA OneMoreIssued ==
  ASSUME NEW log \in Seq(Issue), NEW issue \in Issue, NEW r
  PROVE  IF issue.by = r
         THEN Cardinality(IssuedTo(r, Append(log, issue))) = Cardinality(IssuedTo(r, log)) + 1
         ELSE IssuedTo(r, Append(log, issue)) = IssuedTo(r, log)
<1>1. DOMAIN log = 1 .. Len(log) /\ Len(log) \in Nat
  OBVIOUS
<1>3. IssuedTo(r, log) \in SUBSET (1 .. Len(log))
  BY <1>1 DEF IssuedTo
<1>4. IsFiniteSet(IssuedTo(r, log))
  BY FinitelyManyIssues
<1>5. /\ DOMAIN Append(log, issue) = 1 .. Len(log) + 1
      /\ \A id \in 1 .. Len(log) : Append(log, issue)[id] = log[id]
      /\ Append(log, issue)[Len(log) + 1] = issue
  OBVIOUS
<1>6. CASE issue.by = r
  <2>1. IssuedTo(r, Append(log, issue)) = IssuedTo(r, log) \cup {Len(log) + 1}
    BY <1>1, <1>5, <1>6 DEF IssuedTo
  <2>2. Len(log) + 1 \notin IssuedTo(r, log)
    BY <1>1, <1>3
  <2> QED
    BY <1>4, <1>6, <2>1, <2>2, FS_AddElement, FS_CardinalityType
<1>7. CASE issue.by # r
  <2>1. IssuedTo(r, Append(log, issue)) = IssuedTo(r, log)
    BY <1>1, <1>5, <1>7 DEF IssuedTo
  <2> QED
    BY <1>4, <1>7, <2>1, FS_CardinalityType
<1> QED
  BY <1>6, <1>7

\* At most two issues of every request are at most twice as many as requests.
LEMMA TwoEachAtMost ==
  ASSUME NEW log \in Seq(Issue),
         \A r \in Registration : Cardinality(IssuedTo(r, log)) <= 2
  PROVE  Len(log) <= Cardinality(Registration) * 2
<1> DEFINE ids == 1 .. Len(log)
           later(id) == \E other \in ids : other < id /\ log[other].by = log[id].by
           f == [id \in ids |-> <<log[id].by, IF later(id) THEN 1 ELSE 0>>]
           slots == Registration \X (0 .. 1)
<1>1. DOMAIN log = ids /\ Len(log) \in Nat /\ \A id \in ids : log[id].by \in Registration
  <2>1. DOMAIN log = ids /\ Len(log) \in Nat /\ \A id \in ids : log[id] \in Issue
    OBVIOUS
  <2> QED
    BY <2>1 DEF Issue
<1>2. IsFiniteSet(ids) /\ Cardinality(ids) = Len(log)
  BY <1>1, FS_Interval
<1>3. IsFiniteSet(0 .. 1) /\ Cardinality(0 .. 1) = 2
  <2>1. 0 \in Int /\ 1 \in Int
    OBVIOUS
  <2>2. /\ IsFiniteSet(0 .. 1)
        /\ Cardinality(0 .. 1) = IF 0 > 1 THEN 0 ELSE 1 - 0 + 1
    BY <2>1, FS_Interval, Zenon
  <2> QED
    BY <2>2
<1>4. /\ IsFiniteSet(slots)
      /\ Cardinality(slots) = Cardinality(Registration) * 2
  <2>1. IsFiniteSet(slots) /\ Cardinality(slots) = Cardinality(Registration) * Cardinality(0 .. 1)
    BY <1>3, RegistrationAssumption, FS_Product
  <2> QED
    BY <1>3, <2>1
<1>5. f \in [ids -> slots]
  BY <1>1
<1>6. ASSUME NEW i \in ids, NEW k \in ids, i < k, f[i] = f[k]
      PROVE  FALSE
  <2>1. log[i].by = log[k].by /\ (later(i) <=> later(k))
    BY <1>6
  <2>2. later(k)
    BY <1>6, <2>1
  <2>3. PICK j \in ids : j < i /\ log[j].by = log[i].by
    BY <2>1, <2>2
  <2> DEFINE r == log[i].by
  <2>4. {i, j, k} \in SUBSET IssuedTo(r, log) /\ r \in Registration
    BY <1>1, <2>1, <2>3 DEF IssuedTo
  <2>5. IsFiniteSet(IssuedTo(r, log))
    <3>1. IssuedTo(r, log) \in SUBSET ids
      BY <1>1 DEF IssuedTo
    <3> QED
      BY <1>2, <3>1, FS_Subset
  <2>6. Cardinality({i, j, k}) = 3
    <3>1. IsFiniteSet({j}) /\ Cardinality({j}) = 1
      BY FS_Singleton
    <3>2. i \notin {j} /\ k \notin {j} \cup {i}
      BY <1>6, <2>3
    <3> DEFINE pair == {j} \cup {i}
    <3>3. IsFiniteSet(pair) /\ Cardinality(pair) = 2
      <4>1. IsFiniteSet(pair) /\ Cardinality(pair) = Cardinality({j}) + 1
        BY <3>1, <3>2, FS_AddElement, Zenon
      <4> QED
        BY <3>1, <4>1
    <3>4. k \notin pair /\ pair \cup {k} = {i, j, k}
      BY <3>2
    <3> HIDE DEF pair
    <3>5. Cardinality(pair \cup {k}) = Cardinality(pair) + 1
      BY <3>3, <3>4, FS_AddElement
    <3>6. Cardinality({i, j, k}) = Cardinality(pair) + 1
      BY <3>4, <3>5, Zenon
    <3> QED
      BY <3>3, <3>6
  <2>7. Cardinality({i, j, k}) <= Cardinality(IssuedTo(r, log))
    BY <2>4, <2>5, FS_Subset
  <2>8. Cardinality(IssuedTo(r, log)) <= 2 /\ Cardinality(IssuedTo(r, log)) \in Nat
    BY <2>4, <2>5, FS_CardinalityType
  <2> HIDE DEF r
  <2> QED
    BY <2>6, <2>7, <2>8
<1>7. \A i, k \in ids : f[i] = f[k] => i = k
  <2> HIDE DEF f
  <2>1. \A i, k \in ids : i = k \/ i < k \/ k < i
    BY <1>1
  <2> QED
    BY <1>6, <2>1
<1> HIDE DEF f, slots
<1>8. f \in Injection(ids, slots)
  BY <1>5, <1>7 DEF Injection, IsInjective
<1>9. Cardinality(ids) <= Cardinality(slots)
  BY <1>4, <1>8, FS_Injection
<1> QED
  BY <1>2, <1>4, <1>9

-----------------------------------------------------------------------------
(* What the workers hold, and how often a request was registered. *)

WorkersHold ==
  /\ \A r \in Registration : regPlace[r] # "none" => regPayload[r] \in RegisterWebhookJob
  /\ registrar.job # NoRegistration => regPlace[registrar.job] = "active"
  /\ registrar.job # NoRegistration /\ registrar.step = "save" =>
       /\ registrar.id \in DOMAIN issued
       /\ registrar.id \notin DOMAIN rows
       /\ issued[registrar.id].uri = regPayload[registrar.job].uri
       /\ issued[registrar.id].deleted = FALSE
  /\ registrar.job # NoRegistration /\ registrar.step = "enqueue" =>
       registrar.id \in DOMAIN rows

EditsOfRows ==
  \A e \in Edit : edits[e].step \in {"provider", "row"} => edits[e].id \in DOMAIN rows

\* What the worker is doing for r.
AtWork(worker, r) ==
  IF worker.job # r THEN "no" ELSE IF worker.step = "register" THEN "register" ELSE "saved"

\* A job that is still to register has registered once for each worker it lost.
Counted(times, where, stalls, work, crashes) ==
  /\ times <= 1 + crashes
  /\ times <= 2
  /\ where \in {"waiting", "delayed"} \/ (where = "active" /\ work = "register") =>
       times <= crashes /\ times <= stalls
  /\ where = "active" => times <= 1 + stalls
  /\ where = "active" /\ work = "no" => times <= crashes

RunsCounted ==
  \A r \in Registration :
    Counted(Cardinality(IssuedTo(r, issued)), regPlace[r], regStalls[r], AtWork(registrar, r),
            registrationCrashes)

RegistrationInv == RegistrationTypeOK /\ WorkersHold /\ EditsOfRows /\ RunsCounted

LEMMA RegistrationInitInv == RegistrationInit => RegistrationInv
<1> SUFFICES ASSUME RegistrationInit PROVE RegistrationInv
  OBVIOUS
<1>1. \A r \in Registration : IssuedTo(r, issued) = {}
  BY DEF RegistrationInit, IssuedTo
<1>2. RunsCounted
  <2>1. ASSUME NEW r \in Registration
        PROVE  Counted(0, regPlace[r], regStalls[r], AtWork(registrar, r), 0)
    BY DEF RegistrationInit, RegQueue!QueueInit, Counted
  <2> QED
    BY <1>1, <2>1, FS_EmptySet DEF RunsCounted, RegistrationInit
<1>3. RegQueue!QueueTypeOK /\ TellQueue!QueueTypeOK
  BY DEF RegistrationInit, RegQueue!QueueInit, RegQueue!QueueTypeOK, RegQueue!Place,
         TellQueue!QueueInit, TellQueue!QueueTypeOK, TellQueue!Place, DefaultQueueAttempts,
         DefaultMaxStalledCount
<1>4. RegistrationTypeOK
  <2>1. issued \in Seq(Issue) /\ DOMAIN rows = {}
    BY DEF RegistrationInit
  <2>2. edits \in [Edit -> [step : {"idle", "provider", "row", "done"},
                           op : {"update", "delete"}, id : ExternalId \cup {NoId}, uri : Uri]]
    <3>1. ASSUME NEW e \in Edit
          PROVE  edits[e] \in [step : {"idle", "provider", "row", "done"},
                               op : {"update", "delete"}, id : ExternalId \cup {NoId}, uri : Uri]
      <4>1. edits[e] \in [step : {"idle"}, op : {"update", "delete"}, id : {NoId}, uri : Uri]
        BY DEF RegistrationInit
      <4> QED
        BY <4>1
    <3>2. edits = [e \in Edit |-> edits[e]]
      BY DEF RegistrationInit
    <3> QED
      BY <3>1, <3>2
  <2>3. /\ registrar \in [job : Registration \cup {NoRegistration},
                          step : {"register", "save", "enqueue"}, id : ExternalId \cup {NoId}]
        /\ told \in [ExternalId -> Nat]
    BY DEF RegistrationInit, IdleRegistrar
  <2>4. /\ registrationErrors \in 0 .. MaxRegistrationErrors
        /\ registrationCrashes \in 0 .. MaxRegistrationCrashes
    BY RegistrationBoundsAssumption DEF RegistrationInit
  <2> QED
    BY <1>3, <2>1, <2>2, <2>3, <2>4 DEF RegistrationInit, RegistrationTypeOK, Issue
<1>5. WorkersHold /\ EditsOfRows
  BY DEF RegistrationInit, WorkersHold, EditsOfRows, IdleRegistrar, RegQueue!QueueInit
<1> QED
  BY <1>2, <1>4, <1>5 DEF RegistrationInv

LEMMA RegistrationNumbers ==
  ASSUME RegistrationTypeOK, NEW r \in Registration
  PROVE  /\ issued \in Seq(Issue)
         /\ Cardinality(IssuedTo(r, issued)) \in Nat
         /\ regStalls[r] \in Nat /\ regStalls[r] <= 1
         /\ registrationErrors \in Nat /\ registrationCrashes \in Nat
<1>1. issued \in Seq(Issue)
  BY DEF RegistrationTypeOK, Issue
<1>2. Cardinality(IssuedTo(r, issued)) \in Nat
  BY <1>1, FinitelyManyIssues
<1>3. regStalls[r] \in 0 .. DefaultMaxStalledCount
  BY DEF RegistrationTypeOK, RegQueue!QueueTypeOK
<1>4. regStalls[r] \in Nat /\ regStalls[r] <= 1
  BY <1>3 DEF DefaultMaxStalledCount
<1>5. registrationErrors \in Nat /\ registrationCrashes \in Nat
  BY RegistrationBoundsAssumption DEF RegistrationTypeOK
<1> QED
  BY <1>1, <1>2, <1>4, <1>5

\* External ids are the numbers of the issues, which stay within ExternalId.
LEMMA IssuesAreNumbered ==
  ASSUME NEW log \in Seq(Issue),
         \A r \in Registration : Cardinality(IssuedTo(r, log)) <= 2
  PROVE  DOMAIN log \subseteq ExternalId
<1>1. Len(log) <= Cardinality(Registration) * 2 /\ Len(log) \in Nat
  BY TwoEachAtMost
<1>2. Cardinality(Registration) \in Nat
  BY RegistrationAssumption, FS_CardinalityType
<1> QED
  BY <1>1, <1>2 DEF ExternalId, DefaultMaxStalledCount

\* A step that registers nothing and concerns the job of r at most.
LEMMA CountedStep ==
  ASSUME RunsCounted, NEW r \in Registration,
         \A k \in Registration \ {r} :
           /\ IssuedTo(k, issued') = IssuedTo(k, issued)
           /\ regPlace'[k] = regPlace[k]
           /\ regStalls'[k] = regStalls[k]
           /\ AtWork(registrar', k) = AtWork(registrar, k),
         registrationCrashes' = registrationCrashes,
         Counted(Cardinality(IssuedTo(r, issued')), regPlace'[r], regStalls'[r],
                 AtWork(registrar', r), registrationCrashes)
  PROVE  RunsCounted'
<1> SUFFICES ASSUME NEW k \in Registration
             PROVE  Counted(Cardinality(IssuedTo(k, issued')), regPlace'[k], regStalls'[k],
                            AtWork(registrar', k), registrationCrashes')
  BY DEF RunsCounted
<1>1. CASE k = r
  BY <1>1
<1>2. CASE k # r
  BY <1>2 DEF RunsCounted
<1> QED
  BY <1>1, <1>2

\* What happens on the side of the notifications leaves registrations alone.
LEMMA TellSideInv ==
  ASSUME RegistrationInv,
         UNCHANGED <<issued, rows, regPlace, regPayload, regAttempts, regStalls, registrar,
                     edits, registrationCrashes>>,
         TellQueue!QueueTypeOK', teller' \in ExternalId \cup {NoId},
         told' \in [ExternalId -> Nat], crossed' \in BOOLEAN,
         registrationErrors' \in 0 .. MaxRegistrationErrors
  PROVE  RegistrationInv'
<1>1. RegQueue!QueueTypeOK'
  BY DEF RegistrationInv, RegistrationTypeOK, RegQueue!QueueTypeOK
<1>2. RegistrationTypeOK'
  BY <1>1 DEF RegistrationInv, RegistrationTypeOK
<1>3. WorkersHold' /\ EditsOfRows' /\ RunsCounted'
  BY DEF RegistrationInv, WorkersHold, EditsOfRows, RunsCounted
<1> QED
  BY <1>2, <1>3 DEF RegistrationInv

-----------------------------------------------------------------------------
LEMMA RegisterWebhookInv ==
  ASSUME RegistrationInv, NEW r \in Registration, NEW job \in RegisterWebhookJob,
         RegisterWebhook(r, job)
  PROVE  RegistrationInv'
<1>1. /\ RegQueue!QueueTypeOK'
      /\ \A k \in Registration \ {r} :
           /\ regPlace'[k] = regPlace[k]
           /\ regPayload'[k] = regPayload[k]
           /\ regStalls'[k] = regStalls[k]
  BY RegQueueStep DEF RegistrationInv, RegistrationTypeOK, RegisterWebhook
<1>2. /\ regPlace[r] = "none" /\ regPlace'[r] = "waiting" /\ regPayload'[r] = job
      /\ regStalls' = regStalls
  BY DEF RegisterWebhook, RegQueue!Add, RegQueue!Exists, RegistrationInv, RegistrationTypeOK,
         RegQueue!QueueTypeOK
<1>3. UNCHANGED <<issued, rows, tellPlace, tellPayload, tellAttempts, tellStalls, registrar,
                  teller, told, edits, crossed, registrationErrors, registrationCrashes>>
  BY DEF RegisterWebhook, tellVars, faultVars
<1>4. RegistrationTypeOK'
  BY <1>1, <1>3 DEF RegistrationInv, RegistrationTypeOK, TellQueue!QueueTypeOK
<1>5. registrar.job # r
  BY <1>2, RegistrationAssumption DEF RegistrationInv, WorkersHold
<1>6. WorkersHold' /\ EditsOfRows'
  BY <1>1, <1>2, <1>3, <1>5 DEF RegistrationInv, WorkersHold, EditsOfRows, RegistrationTypeOK
<1>7. Cardinality(IssuedTo(r, issued)) = 0
  <2>1. IssuedTo(r, issued) = {}
    BY DEF RegisterWebhook, IssuedTo
  <2> QED
    BY <2>1, FS_EmptySet
<1>8. regStalls[r] \in Nat /\ registrationCrashes \in Nat
  BY RegistrationNumbers DEF RegistrationInv
<1>9. Counted(0, "waiting", regStalls[r], "no", registrationCrashes)
  BY <1>8 DEF Counted
<1>10. RunsCounted'
  <2>1. AtWork(registrar, r) = "no"
    BY <1>5 DEF AtWork
  <2> QED
    BY <1>1, <1>2, <1>3, <1>7, <1>9, <2>1, CountedStep DEF RegistrationInv
<1> QED
  BY <1>4, <1>6, <1>10 DEF RegistrationInv

LEMMA TakeRegistrationInv ==
  ASSUME RegistrationInv, NEW r \in Registration, TakeRegistration(r)
  PROVE  RegistrationInv'
<1>1. /\ RegQueue!QueueTypeOK'
      /\ \A k \in Registration \ {r} :
           /\ regPlace'[k] = regPlace[k]
           /\ regPayload'[k] = regPayload[k]
           /\ regStalls'[k] = regStalls[k]
  BY RegQueueStep DEF RegistrationInv, RegistrationTypeOK, TakeRegistration
<1>2. /\ regPlace[r] = "waiting" /\ regPlace'[r] = "active"
      /\ UNCHANGED <<regPayload, regStalls>>
  BY DEF TakeRegistration, RegQueue!Take, RegistrationInv, RegistrationTypeOK,
         RegQueue!QueueTypeOK
<1>3. UNCHANGED <<issued, rows, tellPlace, tellPayload, tellAttempts, tellStalls,
                  teller, told, edits, crossed, registrationErrors, registrationCrashes>>
  BY DEF TakeRegistration, tellVars, faultVars
<1>4. /\ registrar.job = NoRegistration
      /\ registrar' = [job |-> r, step |-> "register", id |-> NoId]
  BY DEF TakeRegistration, IdleRegistrar
<1>5. RegistrationTypeOK'
  BY <1>1, <1>3, <1>4 DEF RegistrationInv, RegistrationTypeOK, TellQueue!QueueTypeOK
<1>6. WorkersHold' /\ EditsOfRows'
  BY <1>1, <1>2, <1>3, <1>4 DEF RegistrationInv, WorkersHold, EditsOfRows
<1>7. \A k \in Registration \ {r} : AtWork(registrar', k) = "no" /\ AtWork(registrar, k) = "no"
  BY <1>4, RegistrationAssumption DEF AtWork
<1>8. AtWork(registrar', r) = "register"
  BY <1>4 DEF AtWork
<1>9. /\ Counted(Cardinality(IssuedTo(r, issued)), "waiting", regStalls[r],
                 AtWork(registrar, r), registrationCrashes)
  BY <1>2 DEF RegistrationInv, RunsCounted
<1>10. /\ Cardinality(IssuedTo(r, issued)) \in Nat
       /\ regStalls[r] \in Nat /\ registrationCrashes \in Nat
  BY RegistrationNumbers DEF RegistrationInv
<1>11. Counted(Cardinality(IssuedTo(r, issued)), "active", regStalls[r], "register",
               registrationCrashes)
  BY <1>9, <1>10 DEF Counted
<1>12. RunsCounted'
  BY <1>1, <1>2, <1>3, <1>7, <1>8, <1>11, CountedStep DEF RegistrationInv
<1> QED
  BY <1>5, <1>6, <1>12 DEF RegistrationInv

\* The worker registers at the provider: one more issue, within what is counted.
LEMMA IssueStep ==
  ASSUME RegistrationInv, registrar.job # NoRegistration, registrar.step = "register",
         issued' = Append(issued, [by |-> registrar.job, uri |-> regPayload[registrar.job].uri,
                                   deleted |-> FALSE])
  PROVE  LET r == registrar.job
             times == Cardinality(IssuedTo(r, issued'))
         IN  /\ r \in Registration /\ regPlace[r] = "active"
             /\ issued' \in Seq(Issue)
             /\ DOMAIN issued' = DOMAIN issued \cup {Len(issued) + 1}
             /\ Len(issued) + 1 \notin DOMAIN issued
             /\ Len(issued) + 1 \in ExternalId
             /\ \A id \in DOMAIN issued : issued'[id] = issued[id]
             /\ issued'[Len(issued) + 1] = [by |-> r, uri |-> regPayload[r].uri,
                                            deleted |-> FALSE]
             /\ \A k \in Registration \ {r} : IssuedTo(k, issued') = IssuedTo(k, issued)
             /\ times \in Nat /\ times <= 1 + registrationCrashes /\ times <= 2
             /\ times <= 1 + regStalls[r]
<1> DEFINE r == registrar.job
           issue == [by |-> r, uri |-> regPayload[r].uri, deleted |-> FALSE]
<1>1. r \in Registration /\ regPlace[r] = "active" /\ regPayload[r] \in RegisterWebhookJob
  BY DEF RegistrationInv, RegistrationTypeOK, WorkersHold
<1>2. issue \in Issue /\ issue.by = r
  BY <1>1 DEF Issue, RegisterWebhookJob
<1>3. issued' = Append(issued, issue)
  OBVIOUS
<1> HIDE DEF issue, r
<1>4. /\ issued \in Seq(Issue) /\ Cardinality(IssuedTo(r, issued)) \in Nat
      /\ regStalls[r] \in Nat /\ regStalls[r] <= 1 /\ registrationCrashes \in Nat
  BY <1>1, RegistrationNumbers DEF RegistrationInv
<1>5. /\ issued' \in Seq(Issue)
      /\ DOMAIN issued' = DOMAIN issued \cup {Len(issued) + 1}
      /\ Len(issued) + 1 \in DOMAIN issued' /\ Len(issued) + 1 \notin DOMAIN issued
      /\ \A id \in DOMAIN issued : issued'[id] = issued[id]
      /\ issued'[Len(issued) + 1] = issue
  BY <1>2, <1>3, <1>4
<1>6. /\ \A k \in Registration \ {r} : IssuedTo(k, issued') = IssuedTo(k, issued)
      /\ Cardinality(IssuedTo(r, issued')) = Cardinality(IssuedTo(r, issued)) + 1
  BY <1>2, <1>3, <1>4, OneMoreIssued
<1>7. AtWork(registrar, r) = "register"
  BY DEF AtWork, r
<1>8. /\ Cardinality(IssuedTo(r, issued)) <= registrationCrashes
      /\ Cardinality(IssuedTo(r, issued)) <= regStalls[r]
  BY <1>1, <1>7 DEF RegistrationInv, RunsCounted, Counted
<1>9. /\ Cardinality(IssuedTo(r, issued')) \in Nat
      /\ Cardinality(IssuedTo(r, issued')) <= 1 + registrationCrashes
      /\ Cardinality(IssuedTo(r, issued')) <= 2
      /\ Cardinality(IssuedTo(r, issued')) <= 1 + regStalls[r]
  BY <1>4, <1>6, <1>8
<1>10. \A k \in Registration : Cardinality(IssuedTo(k, issued')) <= 2
  BY <1>6, <1>9 DEF RegistrationInv, RunsCounted, Counted
<1>11. Len(issued) + 1 \in ExternalId
  BY <1>5, <1>10, IssuesAreNumbered
<1> QED
  BY <1>1, <1>5, <1>6, <1>9, <1>11 DEF issue, r

LEMMA RegisterAtProviderInv ==
  ASSUME RegistrationInv, RegisterAtProvider
  PROVE  RegistrationInv'
<1> DEFINE r == registrar.job
           new == Len(issued) + 1
<1>1. /\ r # NoRegistration /\ registrar.step = "register"
      /\ issued' = Append(issued, [by |-> r, uri |-> regPayload[r].uri, deleted |-> FALSE])
      /\ registrar' = [registrar EXCEPT !.step = "save", !.id = new]
      /\ UNCHANGED <<rows, regPlace, regPayload, regAttempts, regStalls, tellPlace, tellPayload,
                     tellAttempts, tellStalls, teller, told, edits, crossed,
                     registrationErrors, registrationCrashes>>
  BY DEF RegisterAtProvider, regVars, tellVars, faultVars
<1>2. /\ r \in Registration /\ regPlace[r] = "active"
      /\ issued' \in Seq(Issue)
      /\ DOMAIN issued' = DOMAIN issued \cup {new} /\ new \notin DOMAIN issued
      /\ new \in ExternalId
      /\ \A id \in DOMAIN issued : issued'[id] = issued[id]
      /\ issued'[new] = [by |-> r, uri |-> regPayload[r].uri, deleted |-> FALSE]
      /\ \A k \in Registration \ {r} : IssuedTo(k, issued') = IssuedTo(k, issued)
  BY <1>1, IssueStep
<1>3. LET times == Cardinality(IssuedTo(r, issued'))
      IN  /\ times \in Nat /\ times <= 1 + registrationCrashes /\ times <= 2
          /\ times <= 1 + regStalls[r]
  BY <1>1, IssueStep
<1> HIDE DEF new
<1>4. /\ registrar' \in [job : Registration \cup {NoRegistration},
                         step : {"register", "save", "enqueue"}, id : ExternalId \cup {NoId}]
      /\ registrar'.job = r /\ registrar'.step = "save" /\ registrar'.id = new
  BY <1>1, <1>2 DEF RegistrationInv, RegistrationTypeOK
<1>5. RegQueue!QueueTypeOK' /\ TellQueue!QueueTypeOK'
  BY <1>1 DEF RegistrationInv, RegistrationTypeOK, RegQueue!QueueTypeOK,
              TellQueue!QueueTypeOK
<1>6. RegistrationTypeOK'
  BY <1>1, <1>2, <1>4, <1>5 DEF RegistrationInv, RegistrationTypeOK, Issue
<1>7. new \notin DOMAIN rows
  BY <1>2 DEF RegistrationInv, RegistrationTypeOK
<1>8. WorkersHold' /\ EditsOfRows'
  BY <1>1, <1>2, <1>4, <1>7 DEF RegistrationInv, WorkersHold, EditsOfRows
<1>9. \A k \in Registration \ {r} : AtWork(registrar', k) = AtWork(registrar, k)
  BY <1>4 DEF AtWork
<1>10. AtWork(registrar', r) = "saved"
  BY <1>4 DEF AtWork
<1> HIDE DEF r
<1>11. Counted(Cardinality(IssuedTo(r, issued')), "active", regStalls[r], "saved",
               registrationCrashes)
  BY <1>3 DEF Counted
<1>12. RunsCounted'
  BY <1>1, <1>2, <1>9, <1>10, <1>11, CountedStep DEF RegistrationInv
<1> QED
  BY <1>6, <1>8, <1>12 DEF RegistrationInv

\* The registration job is done with, whatever it did at its end.
LEMMA EndStep ==
  ASSUME RegistrationInv, registrar.job # NoRegistration, EndRegistration
  PROVE  LET r == registrar.job
         IN  /\ r \in Registration
             /\ RegQueue!QueueTypeOK'
             /\ \A k \in Registration \ {r} :
                  /\ regPlace'[k] = regPlace[k]
                  /\ regPayload'[k] = regPayload[k]
                  /\ regStalls'[k] = regStalls[k]
                  /\ AtWork(registrar', k) = AtWork(registrar, k)
             /\ regPlace'[r] = "none"
             /\ registrar' = IdleRegistrar
<1> DEFINE r == registrar.job
<1>1. r \in Registration /\ RegQueue!QueueTypeOK
  BY DEF RegistrationInv, RegistrationTypeOK
<1>2. RegQueue!Complete(r) /\ registrar' = IdleRegistrar
  BY DEF EndRegistration
<1>3. /\ RegQueue!QueueTypeOK'
      /\ \A k \in Registration \ {r} :
           /\ regPlace'[k] = regPlace[k]
           /\ regPayload'[k] = regPayload[k]
           /\ regStalls'[k] = regStalls[k]
  BY <1>1, <1>2, RegQueueStep
<1>4. regPlace'[r] = "none"
  BY <1>1, <1>2 DEF RegQueue!Complete, RegQueue!Remove, RegQueue!QueueTypeOK
<1>5. \A k \in Registration \ {r} : AtWork(registrar', k) = AtWork(registrar, k)
  BY <1>2, RegistrationAssumption DEF AtWork, IdleRegistrar
<1> QED
  BY <1>1, <1>2, <1>3, <1>4, <1>5

\* A job that ends without a new issue leaves the counts right.
LEMMA EndCounted ==
  ASSUME RegistrationInv, registrar.job # NoRegistration, EndRegistration,
         UNCHANGED <<issued, registrationCrashes>>
  PROVE  RunsCounted'
<1> DEFINE r == registrar.job
<1>1. /\ r \in Registration
      /\ \A k \in Registration \ {r} :
                  /\ regPlace'[k] = regPlace[k]
                  /\ regStalls'[k] = regStalls[k]
                  /\ AtWork(registrar', k) = AtWork(registrar, k)
      /\ regPlace'[r] = "none"
  BY EndStep
<1> HIDE DEF r
<1>2. Counted(Cardinality(IssuedTo(r, issued)), "none", regStalls'[r], AtWork(registrar', r),
              registrationCrashes)
  BY <1>1 DEF RegistrationInv, RunsCounted, Counted
<1> QED
  BY <1>1, <1>2, CountedStep DEF RegistrationInv

LEMMA EndInv ==
  ASSUME RegistrationInv, registrar.job # NoRegistration, EndRegistration, RunsCounted',
         issued' \in Seq(Issue), DOMAIN issued \subseteq DOMAIN issued',
         DOMAIN rows \subseteq DOMAIN rows', DOMAIN rows' \subseteq DOMAIN issued',
         \A id \in DOMAIN rows' : rows'[id] \in Webhook,
         TellQueue!QueueTypeOK', UNCHANGED <<teller, told, edits, crossed>>,
         registrationErrors' \in 0 .. MaxRegistrationErrors,
         registrationCrashes' \in 0 .. MaxRegistrationCrashes
  PROVE  RegistrationInv'
<1> DEFINE r == registrar.job
<1>1. /\ RegQueue!QueueTypeOK'
      /\ \A k \in Registration \ {r} :
                  /\ regPlace'[k] = regPlace[k]
                  /\ regPayload'[k] = regPayload[k]
      /\ regPlace'[r] = "none"
      /\ registrar' = IdleRegistrar
  BY EndStep
<1>2. /\ registrar' \in [job : Registration \cup {NoRegistration},
                         step : {"register", "save", "enqueue"}, id : ExternalId \cup {NoId}]
      /\ registrar'.job = NoRegistration
  BY <1>1 DEF IdleRegistrar
<1>3. RegistrationTypeOK'
  BY <1>1, <1>2 DEF RegistrationInv, RegistrationTypeOK, Issue
<1>4. WorkersHold' /\ EditsOfRows'
  BY <1>1, <1>2 DEF RegistrationInv, WorkersHold, EditsOfRows
<1> QED
  BY <1>3, <1>4 DEF RegistrationInv

\* What types say of a step that leaves a part alone.
LEMMA FaultsUnchanged ==
  ASSUME RegistrationInv, UNCHANGED faultVars
  PROVE  /\ registrationErrors' \in 0 .. MaxRegistrationErrors
         /\ registrationCrashes' \in 0 .. MaxRegistrationCrashes
         /\ registrationErrors' = registrationErrors
         /\ registrationCrashes' = registrationCrashes
BY DEF RegistrationInv, RegistrationTypeOK, faultVars

LEMMA TellUnchanged ==
  ASSUME RegistrationInv, UNCHANGED tellVars
  PROVE  TellQueue!QueueTypeOK'
BY DEF RegistrationInv, RegistrationTypeOK, tellVars, TellQueue!QueueTypeOK

LEMMA RegUnchanged ==
  ASSUME RegistrationInv, UNCHANGED regVars
  PROVE  /\ RegQueue!QueueTypeOK'
         /\ UNCHANGED <<regPlace, regPayload, regAttempts, regStalls>>
BY DEF RegistrationInv, RegistrationTypeOK, regVars, RegQueue!QueueTypeOK

LEMMA ErrorCounted ==
  ASSUME RegistrationInv, Error
  PROVE  /\ registrationErrors' \in 0 .. MaxRegistrationErrors
         /\ registrationCrashes' \in 0 .. MaxRegistrationCrashes
         /\ registrationCrashes' = registrationCrashes
         /\ registrationErrors' # 0
BY RegistrationBoundsAssumption DEF RegistrationInv, RegistrationTypeOK, Error

LEMMA RegistrationRefusedInv ==
  ASSUME RegistrationInv, RegistrationRefused
  PROVE  RegistrationInv'
<1>1. /\ registrar.job # NoRegistration /\ EndRegistration
      /\ UNCHANGED <<issued, rows, teller, told, edits, crossed>>
      /\ UNCHANGED tellVars /\ UNCHANGED faultVars
  BY DEF RegistrationRefused
<1>2. TellQueue!QueueTypeOK'
  BY <1>1, TellUnchanged
<1>3. RunsCounted'
  BY <1>1, EndCounted, FaultsUnchanged
<1>4. /\ issued' \in Seq(Issue) /\ DOMAIN rows' \subseteq DOMAIN issued'
      /\ \A id \in DOMAIN rows' : rows'[id] \in Webhook
  BY <1>1 DEF RegistrationInv, RegistrationTypeOK, Issue
<1> QED
  BY <1>1, <1>2, <1>3, <1>4, EndInv, FaultsUnchanged

\* The row that is saved is of the issue at hand.
LEMMA SavedRow ==
  ASSUME RegistrationInv, SaveWebhook
  PROVE  LET r == registrar.job
             id == registrar.id
         IN  /\ r \in Registration /\ regPlace[r] = "active" /\ registrar.step = "save"
             /\ regPayload[r] \in RegisterWebhookJob
             /\ id \in DOMAIN issued /\ id \notin DOMAIN rows
             /\ DOMAIN rows' = DOMAIN rows \cup {id}
             /\ \A other \in DOMAIN rows : rows'[other] = rows[other]
             /\ rows'[id] = [uri |-> regPayload[r].uri, deleted |-> FALSE,
                             callback |-> regPayload[r].callback]
             /\ rows'[id] \in Webhook
<1> DEFINE r == registrar.job
           id == registrar.id
           row == [uri |-> regPayload[r].uri, deleted |-> FALSE,
                   callback |-> regPayload[r].callback]
<1>1. r # NoRegistration /\ registrar.step = "save" /\ rows' = Inserted(id, row)
  BY DEF SaveWebhook
<1>2. /\ r \in Registration /\ regPlace[r] = "active"
      /\ regPayload[r] \in RegisterWebhookJob
      /\ id \in DOMAIN issued /\ id \notin DOMAIN rows
  BY <1>1 DEF RegistrationInv, RegistrationTypeOK, WorkersHold
<1>3. row \in Webhook
  BY <1>2 DEF RegisterWebhookJob, Webhook
<1> HIDE DEF row, r, id
<1>4. /\ DOMAIN rows' = DOMAIN rows \cup {id}
      /\ \A other \in DOMAIN rows : rows'[other] = rows[other]
      /\ rows'[id] = row
  BY <1>1, <1>2 DEF Inserted
<1> QED
  BY <1>1, <1>2, <1>3, <1>4 DEF row, r, id

LEMMA SaveWebhookInv ==
  ASSUME RegistrationInv, SaveWebhook
  PROVE  RegistrationInv'
<1> DEFINE r == registrar.job
           id == registrar.id
<1>1. /\ r \in Registration /\ regPlace[r] = "active" /\ registrar.step = "save"
      /\ regPayload[r] \in RegisterWebhookJob
      /\ id \in DOMAIN issued /\ id \notin DOMAIN rows
      /\ DOMAIN rows' = DOMAIN rows \cup {id}
      /\ \A other \in DOMAIN rows : rows'[other] = rows[other]
      /\ rows'[id] \in Webhook
  BY SavedRow
<1>2. /\ r # NoRegistration
      /\ UNCHANGED <<issued, teller, told, edits, crossed>>
      /\ UNCHANGED tellVars /\ UNCHANGED faultVars
  BY DEF SaveWebhook
<1>3. /\ issued' \in Seq(Issue) /\ DOMAIN rows' \subseteq DOMAIN issued'
      /\ \A other \in DOMAIN rows' : rows'[other] \in Webhook
  BY <1>1, <1>2 DEF RegistrationInv, RegistrationTypeOK, Issue
<1>4. CASE regPayload[r].callback /\ registrar' = [registrar EXCEPT !.step = "enqueue"]
           /\ UNCHANGED regVars
  <2>1. /\ RegQueue!QueueTypeOK'
        /\ UNCHANGED <<regPlace, regPayload, regAttempts, regStalls>>
    BY <1>4, RegUnchanged
  <2>2. TellQueue!QueueTypeOK'
    BY <1>2, TellUnchanged
  <2>3. /\ registrar' \in [job : Registration \cup {NoRegistration},
                           step : {"register", "save", "enqueue"},
                           id : ExternalId \cup {NoId}]
        /\ registrar'.job = r /\ registrar'.step = "enqueue" /\ registrar'.id = id
    BY <1>4 DEF RegistrationInv, RegistrationTypeOK
  <2>4. RegistrationTypeOK'
    BY <1>1, <1>2, <1>3, <2>1, <2>2, <2>3, FaultsUnchanged
    DEF RegistrationInv, RegistrationTypeOK, Issue
  <2>5. WorkersHold' /\ EditsOfRows'
    BY <1>1, <1>2, <2>1, <2>3 DEF RegistrationInv, WorkersHold, EditsOfRows
  <2>6. \A k \in Registration : AtWork(registrar', k) = AtWork(registrar, k)
    BY <1>1, <2>3 DEF AtWork
  <2>7. RunsCounted'
    BY <1>2, <2>1, <2>6, FaultsUnchanged DEF RegistrationInv, RunsCounted
  <2> QED
    BY <2>4, <2>5, <2>7 DEF RegistrationInv
<1>5. CASE EndRegistration
  <2>1. TellQueue!QueueTypeOK'
    BY <1>2, TellUnchanged
  <2>2. RunsCounted'
    BY <1>2, <1>5, EndCounted, FaultsUnchanged
  <2> HIDE DEF id
  <2> QED
    BY <1>1, <1>2, <1>3, <1>5, <2>1, <2>2, EndInv, FaultsUnchanged
<1> QED
  BY <1>4, <1>5 DEF SaveWebhook

LEMMA EnqueueSuccessInv ==
  ASSUME RegistrationInv, EnqueueSuccess
  PROVE  RegistrationInv'
<1>1. /\ registrar.job # NoRegistration /\ registrar.step = "enqueue" /\ EndRegistration
      /\ TellQueue!Add(registrar.id, regPayload[registrar.job].uri)
      /\ UNCHANGED <<issued, rows, teller, told, edits, crossed>> /\ UNCHANGED faultVars
  BY DEF EnqueueSuccess
<1>2. /\ issued' \in Seq(Issue) /\ DOMAIN rows' \subseteq DOMAIN issued'
      /\ \A id \in DOMAIN rows' : rows'[id] \in Webhook
      /\ issued \in Seq(Issue)
  BY <1>1 DEF RegistrationInv, RegistrationTypeOK, Issue
<1>3. registrar.id \in ExternalId /\ regPayload[registrar.job].uri \in Uri
  <2>1. registrar.id \in DOMAIN issued /\ regPayload[registrar.job] \in RegisterWebhookJob
    BY <1>1 DEF RegistrationInv, RegistrationTypeOK, WorkersHold
  <2>2. DOMAIN issued \subseteq ExternalId
    BY <1>2, IssuesAreNumbered DEF RegistrationInv, RunsCounted, Counted
  <2> QED
    BY <2>1, <2>2 DEF RegisterWebhookJob
<1>4. TellQueue!QueueTypeOK'
  BY <1>1, <1>3, TellQueueStep DEF RegistrationInv, RegistrationTypeOK
<1>5. RunsCounted'
  BY <1>1, EndCounted, FaultsUnchanged
<1> QED
  BY <1>1, <1>2, <1>4, <1>5, EndInv, FaultsUnchanged

LEMMA ErrorIsSwallowedInv ==
  ASSUME RegistrationInv, ErrorIsSwallowed
  PROVE  RegistrationInv'
<1> DEFINE r == registrar.job
<1>1. /\ r # NoRegistration /\ EndRegistration /\ Error
      /\ UNCHANGED <<rows, teller, told, edits, crossed>> /\ UNCHANGED tellVars
  BY DEF ErrorIsSwallowed
<1>2. TellQueue!QueueTypeOK'
  BY <1>1, TellUnchanged
<1>3. \A id \in DOMAIN rows' : rows'[id] \in Webhook
  BY <1>1 DEF RegistrationInv, RegistrationTypeOK
<1>4. CASE UNCHANGED issued
  <2>1. RunsCounted'
    BY <1>1, <1>4, EndCounted, ErrorCounted
  <2>2. issued' \in Seq(Issue) /\ DOMAIN rows' \subseteq DOMAIN issued'
    BY <1>1, <1>4 DEF RegistrationInv, RegistrationTypeOK, Issue
  <2> QED
    BY <1>1, <1>2, <1>3, <1>4, <2>1, <2>2, EndInv, ErrorCounted
<1>5. CASE registrar.step = "register" /\
           issued' = Append(issued, [by |-> r, deleted |-> FALSE, uri |-> regPayload[r].uri])
  <2>1. [by |-> r, deleted |-> FALSE, uri |-> regPayload[r].uri]
          = [by |-> r, uri |-> regPayload[r].uri, deleted |-> FALSE]
    OBVIOUS
  <2>2. /\ r \in Registration
        /\ issued' \in Seq(Issue)
        /\ DOMAIN issued' = DOMAIN issued \cup {Len(issued) + 1}
        /\ \A k \in Registration \ {r} : IssuedTo(k, issued') = IssuedTo(k, issued)
    BY <1>1, <1>5, <2>1, IssueStep
  <2>3. LET times == Cardinality(IssuedTo(r, issued'))
        IN  /\ times \in Nat /\ times <= 1 + registrationCrashes /\ times <= 2
    BY <1>1, <1>5, <2>1, IssueStep
  <2>4. /\ \A k \in Registration \ {r} :
             /\ regPlace'[k] = regPlace[k]
             /\ regStalls'[k] = regStalls[k]
             /\ AtWork(registrar', k) = AtWork(registrar, k)
        /\ regPlace'[r] = "none"
    BY <1>1, EndStep
  <2>5. DOMAIN rows' \subseteq DOMAIN issued'
    BY <1>1, <2>2 DEF RegistrationInv, RegistrationTypeOK
  <2>6. registrationCrashes' = registrationCrashes
    BY <1>1, ErrorCounted
  <2> HIDE DEF r
  <2>7. Counted(Cardinality(IssuedTo(r, issued')), regPlace'[r], regStalls'[r],
                AtWork(registrar', r), registrationCrashes)
    BY <2>3, <2>4 DEF Counted
  <2>8. RunsCounted'
    BY <2>2, <2>4, <2>6, <2>7, CountedStep DEF RegistrationInv
  <2>9. r # NoRegistration /\ DOMAIN issued \subseteq DOMAIN issued'
    BY <1>1, <2>2
  <2> QED
    BY <1>1, <1>2, <1>3, <2>2, <2>5, <2>8, <2>9, EndInv, ErrorCounted DEF r
<1> QED
  BY <1>4, <1>5 DEF ErrorIsSwallowed

LEMMA NotificationsInv ==
  ASSUME RegistrationInv,
         (\E id \in ExternalId : TakeNotification(id)) \/ Notify \/ NotificationFails
  PROVE  RegistrationInv'
<1>1. TellQueue!QueueTypeOK /\ teller \in ExternalId \cup {NoId} /\ told \in [ExternalId -> Nat]
  BY DEF RegistrationInv, RegistrationTypeOK
<1>2. ASSUME NEW id \in ExternalId, TakeNotification(id) PROVE RegistrationInv'
  <2>1. TellQueue!QueueTypeOK'
    BY <1>1, <1>2, TellQueueStep DEF TakeNotification
  <2>2. /\ teller' = id /\ UNCHANGED <<issued, rows, registrar, told, edits, crossed>>
        /\ UNCHANGED regVars /\ UNCHANGED faultVars
    BY <1>2 DEF TakeNotification
  <2>3. crossed' \in BOOLEAN
    BY <2>2 DEF RegistrationInv, RegistrationTypeOK
  <2> QED
    BY <1>1, <2>1, <2>2, <2>3, RegUnchanged, FaultsUnchanged, TellSideInv
<1>3. ASSUME Notify PROVE RegistrationInv'
  <2>1. /\ teller \in ExternalId /\ TellQueue!Complete(teller) /\ teller' = NoId
        /\ told' = [told EXCEPT ![teller] = @ + 1]
        /\ UNCHANGED <<issued, rows, registrar, edits, crossed>>
        /\ UNCHANGED regVars /\ UNCHANGED faultVars
    BY <1>1, <1>3 DEF Notify
  <2>2. TellQueue!QueueTypeOK'
    BY <1>1, <2>1, TellQueueStep
  <2>3. told' \in [ExternalId -> Nat]
    BY <1>1, <2>1
  <2>4. crossed' \in BOOLEAN
    BY <2>1 DEF RegistrationInv, RegistrationTypeOK
  <2> QED
    BY <2>1, <2>2, <2>3, <2>4, RegUnchanged, FaultsUnchanged, TellSideInv
<1>4. ASSUME NotificationFails PROVE RegistrationInv'
  <2>1. /\ teller \in ExternalId /\ TellQueue!FailAttempt(teller) /\ teller' = NoId /\ Error
        /\ UNCHANGED <<issued, rows, registrar, edits, crossed>>
        /\ UNCHANGED regVars
    BY <1>1, <1>4 DEF NotificationFails
  <2>2. PICK reached \in {0, 1} : told' = [told EXCEPT ![teller] = @ + reached]
    BY <1>4 DEF NotificationFails
  <2>3. TellQueue!QueueTypeOK'
    BY <1>1, <2>1, TellQueueStep
  <2>4. told' \in [ExternalId -> Nat]
    BY <1>1, <2>1, <2>2
  <2>5. crossed' \in BOOLEAN
    BY <2>1 DEF RegistrationInv, RegistrationTypeOK
  <2> QED
    BY <2>1, <2>3, <2>4, <2>5, RegUnchanged, ErrorCounted, TellSideInv
<1> QED
  BY <1>2, <1>3, <1>4

EditRequest == [step : {"idle", "provider", "row", "done"}, op : {"update", "delete"},
                id : ExternalId \cup {NoId}, uri : Uri]

\* PATCH and DELETE change what an issue and a row say, and neither which there
\* are nor whose they are.
LEMMA EditSideInv ==
  ASSUME RegistrationInv, UNCHANGED <<registrar, teller, told>>,
         UNCHANGED regVars, UNCHANGED tellVars,
         issued' \in Seq(Issue), DOMAIN issued' = DOMAIN issued,
         \A id \in DOMAIN issued : issued'[id].by = issued[id].by,
         \A id \in DOMAIN issued \ DOMAIN rows : issued'[id] = issued[id],
         DOMAIN rows' = DOMAIN rows, \A id \in DOMAIN rows : rows'[id] \in Webhook,
         edits' \in [Edit -> EditRequest], EditsOfRows', crossed' \in BOOLEAN,
         registrationErrors' \in 0 .. MaxRegistrationErrors,
         registrationCrashes' = registrationCrashes
  PROVE  RegistrationInv'
<1>1. RegQueue!QueueTypeOK' /\ TellQueue!QueueTypeOK'
      /\ UNCHANGED <<regPlace, regPayload, regAttempts, regStalls>>
  BY RegUnchanged, TellUnchanged
<1>2. RegistrationTypeOK'
  BY <1>1 DEF RegistrationInv, RegistrationTypeOK, Issue, EditRequest
<1>3. WorkersHold'
  BY <1>1 DEF RegistrationInv, WorkersHold
<1>4. \A r : IssuedTo(r, issued') = IssuedTo(r, issued)
  BY DEF IssuedTo
<1>5. RunsCounted'
  BY <1>1, <1>4 DEF RegistrationInv, RunsCounted
<1> QED
  BY <1>2, <1>3, <1>5 DEF RegistrationInv

LEMMA StartEditInv ==
  ASSUME RegistrationInv, NEW e \in Edit, NEW id \in ExternalId, StartEdit(e, id)
  PROVE  RegistrationInv'
<1>1. /\ id \in DOMAIN rows /\ edits \in [Edit -> EditRequest]
      /\ edits' = [edits EXCEPT ![e].step = "provider", ![e].id = id]
      /\ UNCHANGED <<issued, rows, registrar, teller, told, crossed>>
      /\ UNCHANGED regVars /\ UNCHANGED tellVars /\ UNCHANGED faultVars
  BY DEF StartEdit, RegistrationInv, RegistrationTypeOK, EditRequest
<1>2. /\ edits' \in [Edit -> EditRequest]
      /\ edits'[e].id = id /\ \A k \in Edit \ {e} : edits'[k] = edits[k]
  BY <1>1 DEF EditRequest
<1>3. EditsOfRows'
  BY <1>1, <1>2 DEF EditsOfRows, RegistrationInv
<1>4. /\ issued' \in Seq(Issue) /\ \A k \in DOMAIN rows : rows'[k] \in Webhook
      /\ crossed' \in BOOLEAN
  BY <1>1 DEF RegistrationInv, RegistrationTypeOK, Issue
<1> QED
  BY <1>1, <1>2, <1>3, <1>4, FaultsUnchanged, EditSideInv

\* What an edit does at the provider, to a registration it still knows.
LEMMA EditedIssue ==
  ASSUME RegistrationInv, NEW e \in Edit, EditAtProvider(e)
  PROVE  /\ edits[e].id \in DOMAIN rows /\ edits[e].id \in DOMAIN issued
         /\ issued' \in Seq(Issue) /\ DOMAIN issued' = DOMAIN issued
         /\ \A id \in DOMAIN issued : issued'[id].by = issued[id].by
         /\ \A id \in DOMAIN issued \ {edits[e].id} : issued'[id] = issued[id]
<1> DEFINE id == edits[e].id
<1>1. id \in DOMAIN rows /\ id \in DOMAIN issued
  BY DEF EditAtProvider, RegistrationInv, RegistrationTypeOK, EditsOfRows
<1>2. issued \in Seq(Issue) /\ edits[e].uri \in Uri
  BY DEF RegistrationInv, RegistrationTypeOK, Issue
<1>3. issued[id] \in Issue /\ id \in 1 .. Len(issued)
  BY <1>1, <1>2
<1>4. \/ issued' = issued
      \/ issued' = [issued EXCEPT ![id].deleted = TRUE]
      \/ issued' = [issued EXCEPT ![id].uri = edits[e].uri]
  BY DEF EditAtProvider
<1>5. PICK new \in Issue : issued' = [issued EXCEPT ![id] = new] /\ new.by = issued[id].by
  <2>1. CASE issued' = issued
    <3>1. issued' = [issued EXCEPT ![id] = issued[id]]
      BY <1>2, <1>3, <2>1
    <3> QED
      BY <1>3, <3>1
  <2>2. CASE issued' = [issued EXCEPT ![id].deleted = TRUE]
    <3> DEFINE new == [issued[id] EXCEPT !.deleted = TRUE]
    <3>1. new \in Issue /\ new.by = issued[id].by
      BY <1>3 DEF Issue
    <3>2. issued' = [issued EXCEPT ![id] = new]
      BY <2>2
    <3> QED
      BY <3>1, <3>2
  <2>3. CASE issued' = [issued EXCEPT ![id].uri = edits[e].uri]
    <3> DEFINE new == [issued[id] EXCEPT !.uri = edits[e].uri]
    <3>1. new \in Issue /\ new.by = issued[id].by
      BY <1>2, <1>3 DEF Issue
    <3>2. issued' = [issued EXCEPT ![id] = new]
      BY <2>3
    <3> QED
      BY <3>1, <3>2
  <2> QED
    BY <1>4, <2>1, <2>2, <2>3
<1> HIDE DEF id
<1>6. issued' \in Seq(Issue)
  BY <1>2, <1>3, <1>5, ExceptSeq
<1>7. /\ DOMAIN issued' = DOMAIN issued /\ issued'[id] = new
      /\ \A other \in DOMAIN issued \ {id} : issued'[other] = issued[other]
  BY <1>1, <1>2, <1>5
<1> QED
  BY <1>1, <1>5, <1>6, <1>7 DEF id

LEMMA EditAtProviderInv ==
  ASSUME RegistrationInv, NEW e \in Edit, EditAtProvider(e)
  PROVE  RegistrationInv'
<1>1. /\ edits[e].step = "provider" /\ edits \in [Edit -> EditRequest]
      /\ \E step \in {"row", "done"} : edits' = [edits EXCEPT ![e].step = step]
      /\ UNCHANGED <<rows, registrar, teller, told>>
      /\ UNCHANGED regVars /\ UNCHANGED tellVars /\ UNCHANGED faultVars
  BY DEF EditAtProvider, RegistrationInv, RegistrationTypeOK, EditRequest
<1>2. crossed' \in BOOLEAN
  BY DEF EditAtProvider
<1>3. /\ edits' \in [Edit -> EditRequest]
      /\ \A k \in Edit : edits'[k].id = edits[k].id
                          /\ (k # e => edits'[k].step = edits[k].step)
  BY <1>1 DEF EditRequest
<1>4. EditsOfRows'
  BY <1>1, <1>3 DEF EditsOfRows, RegistrationInv
<1>5. \A k \in DOMAIN rows : rows'[k] \in Webhook
  BY <1>1 DEF RegistrationInv, RegistrationTypeOK
<1> QED
  BY <1>1, <1>2, <1>3, <1>4, <1>5, EditedIssue, FaultsUnchanged, EditSideInv

\* What an edit does to the row.
LEMMA EditedRow ==
  ASSUME RegistrationInv, NEW e \in Edit, EditRow(e)
  PROVE  LET id == edits[e].id
         IN  /\ id \in DOMAIN rows /\ DOMAIN rows' = DOMAIN rows
             /\ \A other \in DOMAIN rows \ {id} : rows'[other] = rows[other]
             /\ rows'[id] = IF edits[e].op = "delete" THEN [rows[id] EXCEPT !.deleted = TRUE]
                            ELSE [rows[id] EXCEPT !.uri = edits[e].uri]
             /\ rows'[id] \in Webhook /\ rows'[id].callback = rows[id].callback
<1> DEFINE id == edits[e].id
           new == IF edits[e].op = "delete" THEN [rows[id] EXCEPT !.deleted = TRUE]
                  ELSE [rows[id] EXCEPT !.uri = edits[e].uri]
<1>1. id \in DOMAIN rows /\ rows[id] \in Webhook /\ edits[e].uri \in Uri
  BY DEF EditRow, RegistrationInv, RegistrationTypeOK, EditsOfRows
<1>2. rows' = [rows EXCEPT ![id] = new]
  BY DEF EditRow
<1>3. new \in Webhook /\ new.callback = rows[id].callback
  BY <1>1 DEF Webhook
<1>4. /\ DOMAIN rows' = DOMAIN rows /\ rows'[id] = new
      /\ \A other \in DOMAIN rows \ {id} : rows'[other] = rows[other]
  <2> HIDE DEF new, id
  <2> QED
    BY <1>1, <1>2
<1> QED
  BY <1>1, <1>3, <1>4

LEMMA EditRowInv ==
  ASSUME RegistrationInv, NEW e \in Edit, EditRow(e)
  PROVE  RegistrationInv'
<1>1. /\ edits \in [Edit -> EditRequest]
      /\ edits' = [edits EXCEPT ![e].step = "done"]
      /\ UNCHANGED <<issued, registrar, teller, told, crossed>>
      /\ UNCHANGED regVars /\ UNCHANGED tellVars /\ UNCHANGED faultVars
  BY DEF EditRow, RegistrationInv, RegistrationTypeOK, EditRequest
<1>2. /\ edits' \in [Edit -> EditRequest]
      /\ edits'[e].step = "done" /\ \A k \in Edit \ {e} : edits'[k] = edits[k]
  BY <1>1 DEF EditRequest
<1>3. DOMAIN rows' = DOMAIN rows /\ \A k \in DOMAIN rows : rows'[k] \in Webhook
  <2>1. \A k \in DOMAIN rows : rows[k] \in Webhook
    BY DEF RegistrationInv, RegistrationTypeOK
  <2> QED
    BY <2>1, EditedRow
<1>4. EditsOfRows'
  BY <1>2, <1>3 DEF EditsOfRows, RegistrationInv
<1>5. issued' \in Seq(Issue) /\ crossed' \in BOOLEAN
  BY <1>1 DEF RegistrationInv, RegistrationTypeOK, Issue
<1> QED
  BY <1>1, <1>2, <1>3, <1>4, <1>5, FaultsUnchanged, EditSideInv

LEMMA EditFailsInv ==
  ASSUME RegistrationInv, NEW e \in Edit, EditFails(e)
  PROVE  RegistrationInv'
<1>1. /\ edits \in [Edit -> EditRequest] /\ Error
      /\ edits' = [edits EXCEPT ![e].step = "done"]
      /\ UNCHANGED <<issued, rows, registrar, teller, told, crossed>>
      /\ UNCHANGED regVars /\ UNCHANGED tellVars
  BY DEF EditFails, RegistrationInv, RegistrationTypeOK, EditRequest
<1>2. /\ edits' \in [Edit -> EditRequest]
      /\ edits'[e].step = "done" /\ \A k \in Edit \ {e} : edits'[k] = edits[k]
  BY <1>1 DEF EditRequest
<1>3. EditsOfRows'
  BY <1>1, <1>2 DEF EditsOfRows, RegistrationInv
<1>4. /\ issued' \in Seq(Issue) /\ crossed' \in BOOLEAN
      /\ \A k \in DOMAIN rows : rows'[k] \in Webhook
  BY <1>1 DEF RegistrationInv, RegistrationTypeOK, Issue
<1> QED
  BY <1>1, <1>2, <1>3, <1>4, ErrorCounted, EditSideInv

\* A registration that lost its worker is handed out again, or given up.
LEMMA RegistrationStallsInv ==
  ASSUME RegistrationInv, NEW r \in Registration, r # registrar.job, RegQueue!Stall(r),
         UNCHANGED tellVars,
         UNCHANGED <<issued, rows, registrar, teller, told, edits, crossed>>,
         UNCHANGED faultVars
  PROVE  RegistrationInv'
<1>1. /\ RegQueue!QueueTypeOK'
      /\ \A k \in Registration \ {r} :
           /\ regPlace'[k] = regPlace[k]
           /\ regPayload'[k] = regPayload[k]
           /\ regStalls'[k] = regStalls[k]
  BY RegQueueStep DEF RegistrationInv, RegistrationTypeOK
<1>2. /\ regPlace[r] = "active"
      /\ \/ /\ regPlace'[r] = "waiting" /\ regPayload'[r] = regPayload[r]
            /\ regStalls'[r] = regStalls[r] + 1
         \/ regPlace'[r] = "none"
         \/ regPlace'[r] = "failed" /\ regPayload'[r] = regPayload[r]
  BY DEF RegQueue!Stall, RegQueue!Remove, RegistrationInv, RegistrationTypeOK,
         RegQueue!QueueTypeOK
<1>3. /\ RegistrationTypeOK'
      /\ registrationCrashes' = registrationCrashes
  <2>1. TellQueue!QueueTypeOK'
    BY TellUnchanged
  <2>2. /\ registrationErrors' \in 0 .. MaxRegistrationErrors
        /\ registrationCrashes' \in 0 .. MaxRegistrationCrashes
        /\ registrationCrashes' = registrationCrashes
    BY FaultsUnchanged
  <2> QED
    BY <1>1, <2>1, <2>2 DEF RegistrationInv, RegistrationTypeOK
<1>4. WorkersHold' /\ EditsOfRows'
  <2>1. registrar.job \in Registration \cup {NoRegistration}
    BY DEF RegistrationInv, RegistrationTypeOK
  <2>2. \A k \in Registration : regPlace'[k] # "none" => regPayload'[k] \in RegisterWebhookJob
    BY <1>1, <1>2 DEF RegistrationInv, WorkersHold
  <2>3. registrar.job # NoRegistration =>
          /\ regPlace'[registrar.job] = regPlace[registrar.job]
          /\ regPayload'[registrar.job] = regPayload[registrar.job]
    BY <1>1, <2>1
  <2> QED
    BY <2>2, <2>3 DEF RegistrationInv, WorkersHold, EditsOfRows
<1>5. AtWork(registrar, r) = "no"
  BY DEF AtWork
<1>6. /\ Counted(Cardinality(IssuedTo(r, issued)), "active", regStalls[r], "no",
                 registrationCrashes)
      /\ Cardinality(IssuedTo(r, issued)) \in Nat /\ regStalls[r] \in Nat
      /\ registrationCrashes \in Nat
  BY <1>2, <1>5, RegistrationNumbers DEF RegistrationInv, RunsCounted
<1>7. Counted(Cardinality(IssuedTo(r, issued)), regPlace'[r], regStalls'[r], "no",
              registrationCrashes)
  BY <1>2, <1>6 DEF Counted
<1>8. RunsCounted'
  BY <1>1, <1>3, <1>5, <1>7, CountedStep DEF RegistrationInv
<1> QED
  BY <1>3, <1>4, <1>8 DEF RegistrationInv

LEMMA RegistrationQueuesInv ==
  ASSUME RegistrationInv, RegistrationQueues
  PROVE  RegistrationInv'
<1>1. /\ UNCHANGED <<issued, rows, registrar, teller, told, edits, crossed>>
      /\ UNCHANGED faultVars
  BY DEF RegistrationQueues
<1>2. ASSUME NEW r \in Registration, r # registrar.job, RegQueue!Stall(r), UNCHANGED tellVars
      PROVE  RegistrationInv'
  BY <1>1, <1>2, RegistrationStallsInv
<1>3. ASSUME NEW id \in ExternalId, TellQueue!Promote(id) \/ TellQueue!Stall(id),
             UNCHANGED regVars
      PROVE  RegistrationInv'
  <2>1. TellQueue!QueueTypeOK'
    BY <1>3, TellQueueStep DEF RegistrationInv, RegistrationTypeOK
  <2>2. /\ teller' \in ExternalId \cup {NoId} /\ told' \in [ExternalId -> Nat]
        /\ crossed' \in BOOLEAN
    BY <1>1 DEF RegistrationInv, RegistrationTypeOK
  <2> QED
    BY <1>1, <1>3, <2>1, <2>2, RegUnchanged, FaultsUnchanged, TellSideInv
<1> QED
  BY <1>2, <1>3 DEF RegistrationQueues

\* A job whose worker is gone may register once more.
LEMMA RegistrationCrashInv ==
  ASSUME RegistrationInv, RegistrationCrash
  PROVE  RegistrationInv'
<1>1. /\ registrationCrashes' = registrationCrashes + 1
      /\ registrationCrashes < MaxRegistrationCrashes
      /\ registrar' = IdleRegistrar /\ teller' = NoId
      /\ UNCHANGED <<issued, rows, told, crossed, registrationErrors>>
      /\ UNCHANGED regVars /\ UNCHANGED tellVars
      /\ edits' = [e \in Edit |-> IF edits[e].step \in {"provider", "row"}
                                  THEN [edits[e] EXCEPT !.step = "done"] ELSE edits[e]]
  BY DEF RegistrationCrash
<1>2. /\ RegQueue!QueueTypeOK' /\ TellQueue!QueueTypeOK'
      /\ UNCHANGED <<regPlace, regPayload, regAttempts, regStalls>>
  BY <1>1, RegUnchanged, TellUnchanged
<1>3. ASSUME NEW e \in Edit
      PROVE  edits'[e] \in EditRequest /\ edits'[e].step \notin {"provider", "row"}
  <2>1. edits[e] \in EditRequest
    BY DEF RegistrationInv, RegistrationTypeOK, EditRequest
  <2>2. CASE edits[e].step \in {"provider", "row"}
    <3>1. edits'[e] = [edits[e] EXCEPT !.step = "done"]
      BY <1>1, <2>2
    <3> QED
      BY <2>1, <3>1 DEF EditRequest
  <2>3. CASE edits[e].step \notin {"provider", "row"}
    BY <1>1, <2>1, <2>3
  <2> QED
    BY <2>2, <2>3
<1>4. edits' \in [Edit -> EditRequest]
  BY <1>1, <1>3
<1>5. registrationCrashes' \in 0 .. MaxRegistrationCrashes
  BY <1>1, RegistrationBoundsAssumption DEF RegistrationInv, RegistrationTypeOK
<1>6. /\ registrar' \in [job : Registration \cup {NoRegistration},
                         step : {"register", "save", "enqueue"}, id : ExternalId \cup {NoId}]
      /\ registrar'.job = NoRegistration
  BY <1>1 DEF IdleRegistrar
<1>7. RegistrationTypeOK'
  BY <1>1, <1>2, <1>4, <1>5, <1>6 DEF RegistrationInv, RegistrationTypeOK, EditRequest
<1>8. WorkersHold' /\ EditsOfRows'
  BY <1>1, <1>2, <1>3, <1>6 DEF RegistrationInv, WorkersHold, EditsOfRows
<1>9. RunsCounted'
  <2> SUFFICES ASSUME NEW r \in Registration
               PROVE  Counted(Cardinality(IssuedTo(r, issued)), regPlace[r], regStalls[r],
                              AtWork(registrar', r), registrationCrashes + 1)
    BY <1>1, <1>2 DEF RunsCounted
  <2>1. AtWork(registrar', r) = "no"
    BY <1>6, RegistrationAssumption DEF AtWork
  <2>2. AtWork(registrar, r) \in {"no", "register", "saved"}
    BY DEF AtWork
  <2>3. /\ Counted(Cardinality(IssuedTo(r, issued)), regPlace[r], regStalls[r],
                   AtWork(registrar, r), registrationCrashes)
        /\ Cardinality(IssuedTo(r, issued)) \in Nat /\ regStalls[r] \in Nat
        /\ registrationCrashes \in Nat
    BY RegistrationNumbers DEF RegistrationInv, RunsCounted
  <2> QED
    BY <2>1, <2>2, <2>3 DEF Counted
<1> QED
  BY <1>7, <1>8, <1>9 DEF RegistrationInv

LEMMA RegistrationStutterInv ==
  ASSUME RegistrationInv, UNCHANGED registrationVars
  PROVE  RegistrationInv'
<1>1. /\ UNCHANGED <<issued, rows, registrar, teller, told, edits, crossed>>
      /\ UNCHANGED regVars /\ UNCHANGED tellVars /\ UNCHANGED faultVars
  BY DEF registrationVars
<1>2. /\ TellQueue!QueueTypeOK' /\ UNCHANGED <<regPlace, regPayload, regAttempts, regStalls>>
      /\ registrationErrors' \in 0 .. MaxRegistrationErrors
      /\ registrationCrashes' = registrationCrashes
  BY <1>1, TellUnchanged, RegUnchanged, FaultsUnchanged
<1>3. /\ teller' \in ExternalId \cup {NoId} /\ told' \in [ExternalId -> Nat]
      /\ crossed' \in BOOLEAN
  BY <1>1 DEF RegistrationInv, RegistrationTypeOK
<1> QED
  BY <1>1, <1>2, <1>3, TellSideInv

\* The steps, one disjunct for each lemma about them.
LEMMA RegistrationSteps ==
  ASSUME [RegistrationNext]_registrationVars
  PROVE  \/ \E r \in Registration : TakeRegistration(r)
         \/ \E r \in Registration, job \in RegisterWebhookJob : RegisterWebhook(r, job)
         \/ RegisterAtProvider \/ RegistrationRefused \/ SaveWebhook \/ EnqueueSuccess
         \/ ErrorIsSwallowed
         \/ (\E id \in ExternalId : TakeNotification(id)) \/ Notify \/ NotificationFails
         \/ \E e \in Edit : EditAtProvider(e)
         \/ \E e \in Edit : EditRow(e)
         \/ \E e \in Edit : EditFails(e)
         \/ \E e \in Edit, id \in ExternalId : StartEdit(e, id)
         \/ RegistrationQueues \/ RegistrationCrash
         \/ UNCHANGED registrationVars
BY Zenon DEF RegistrationNext, Register

LEMMA RegistrationNextInv == RegistrationInv /\ [RegistrationNext]_registrationVars
                               => RegistrationInv'
<1> SUFFICES ASSUME RegistrationInv, [RegistrationNext]_registrationVars
             PROVE  RegistrationInv'
  OBVIOUS
<1>1. CASE \/ \E r \in Registration : TakeRegistration(r)
           \/ \E r \in Registration, job \in RegisterWebhookJob : RegisterWebhook(r, job)
  BY <1>1, TakeRegistrationInv, RegisterWebhookInv
<1>2. CASE RegisterAtProvider \/ RegistrationRefused \/ SaveWebhook \/ EnqueueSuccess
           \/ ErrorIsSwallowed
  BY <1>2, RegisterAtProviderInv, RegistrationRefusedInv, SaveWebhookInv, EnqueueSuccessInv,
     ErrorIsSwallowedInv
<1>3. CASE (\E id \in ExternalId : TakeNotification(id)) \/ Notify \/ NotificationFails
  BY <1>3, NotificationsInv
<1>4. CASE \/ \E e \in Edit : EditAtProvider(e)
           \/ \E e \in Edit : EditRow(e)
           \/ \E e \in Edit : EditFails(e)
           \/ \E e \in Edit, id \in ExternalId : StartEdit(e, id)
  BY <1>4, EditAtProviderInv, EditRowInv, EditFailsInv, StartEditInv
<1>5. CASE RegistrationQueues \/ RegistrationCrash \/ UNCHANGED registrationVars
  BY <1>5, RegistrationQueuesInv, RegistrationCrashInv, RegistrationStutterInv
<1> QED
  BY <1>1, <1>2, <1>3, <1>4, <1>5, RegistrationSteps

\* The provider's list, the table, both queues and both workers keep their types: no
\* job of a request registers more often than its worker was lost, so that external
\* ids stay within ExternalId.
THEOREM RegistrationTypesCorrect == RegistrationSpec => []RegistrationTypeOK
<1>1. RegistrationInv => RegistrationTypeOK
  BY DEF RegistrationInv
<1> QED
  BY <1>1, RegistrationInitInv, RegistrationNextInv, PTL DEF RegistrationSpec

-----------------------------------------------------------------------------
(* How long a registration can stay in its queue: what RegistrationsEnd rests on *)
(* besides fairness.                                                             *)

RegistrarSteps(step) ==
  CASE step = "register" -> 4 [] step = "save" -> 3 [] step = "enqueue" -> 2

\* The steps a queued registration has left at most: a stall gives it another run, and
\* an error does not.
StepsToEnd(r) ==
  LET runs == 5 * (DefaultMaxStalledCount - regStalls[r])
  IN  CASE regPlace[r] = "waiting" -> runs + 5
        [] regPlace[r] = "active" /\ registrar.job = r -> runs + RegistrarSteps(registrar.step)
        [] regPlace[r] = "active" /\ registrar.job # r -> runs + 1
        [] OTHER -> 0

RegistrationLeftAlone(r) ==
  /\ regPlace'[r] = regPlace[r] /\ regStalls'[r] = regStalls[r]
  /\ registrar.job = r => registrar' = registrar
  /\ registrar.job # r => registrar'.job # r

\* Whatever happens to a queued registration leaves it fewer steps, whoever fails.
RegistrationsRunOut ==
  [][\A r \in Registration : regPlace[r] # "none" =>
       RegistrationLeftAlone(r) \/ StepsToEnd(r)' < StepsToEnd(r)]_registrationVars

LEMMA StepsToEndBounded ==
  ASSUME RegistrationInv, NEW r \in Registration
  PROVE  StepsToEnd(r) \in 0 .. 10
<1>1. /\ regStalls[r] \in {0, 1} /\ regPlace[r] \in RegQueue!Place
      /\ registrar.step \in {"register", "save", "enqueue"}
  <2>1. regStalls[r] \in Nat /\ regStalls[r] <= 1
    BY RegistrationNumbers DEF RegistrationInv
  <2>2. regPlace[r] \in RegQueue!Place /\ registrar.step \in {"register", "save", "enqueue"}
    BY DEF RegistrationInv, RegistrationTypeOK, RegQueue!QueueTypeOK
  <2> QED
    BY <2>1, <2>2
<1>2. 5 * (DefaultMaxStalledCount - regStalls[r]) \in {0, 5}
  BY <1>1 DEF DefaultMaxStalledCount
<1>3. RegistrarSteps(registrar.step) \in {2, 3, 4}
  BY <1>1 DEF RegistrarSteps
<1> QED
  BY <1>1, <1>2, <1>3 DEF StepsToEnd

LEMMA RegistrationRunsOut ==
  ASSUME RegistrationInv, [RegistrationNext]_registrationVars, NEW r \in Registration,
         regPlace[r] # "none"
  PROVE  RegistrationLeftAlone(r) \/ StepsToEnd(r)' < StepsToEnd(r)
<1> DEFINE runs == 5 * (DefaultMaxStalledCount - regStalls[r])
           worker == registrar.job
<1>1. /\ RegQueue!QueueTypeOK /\ regStalls[r] \in {0, 1} /\ runs \in {0, 5}
      /\ registrar \in [job : Registration \cup {NoRegistration},
                        step : {"register", "save", "enqueue"}, id : ExternalId \cup {NoId}]
  <2>1. regStalls[r] \in Nat /\ regStalls[r] <= 1
    BY RegistrationNumbers DEF RegistrationInv
  <2>2. regStalls[r] \in {0, 1}
    BY <2>1
  <2> QED
    BY <2>2 DEF RegistrationInv, RegistrationTypeOK, DefaultMaxStalledCount
<1>2. worker # NoRegistration => worker \in Registration /\ regPlace[worker] = "active"
  BY <1>1 DEF RegistrationInv, WorkersHold
<1>3. StepsToEnd(r) \in 0 .. 10
  BY StepsToEndBounded
\* A step that leaves the queue and the worker alone.
<1>4. CASE UNCHANGED <<regPlace, regStalls, registrar>>
  BY <1>4 DEF RegistrationLeftAlone
\* A step of the queue about another registration.
<1>5. ASSUME NEW k \in Registration, k # r,
             \/ \E job \in RegisterWebhookJob : RegQueue!Add(k, job)
             \/ RegQueue!Take(k) \/ RegQueue!Complete(k) \/ RegQueue!Stall(k),
             worker # r, registrar'.job # r
      PROVE  RegistrationLeftAlone(r)
  BY <1>1, <1>5, RegQueueStep DEF RegistrationLeftAlone
<1>6. ASSUME NEW k \in Registration, NEW job \in RegisterWebhookJob, RegisterWebhook(k, job)
      PROVE  RegistrationLeftAlone(r)
  <2>1. k # r /\ RegQueue!Add(k, job) /\ registrar' = registrar
    BY <1>6 DEF RegisterWebhook
  <2>2. regPlace'[r] = regPlace[r] /\ regStalls'[r] = regStalls[r]
    BY <1>1, <2>1, RegQueueStep
  <2> QED
    BY <2>1, <2>2 DEF RegistrationLeftAlone
<1>7. ASSUME NEW k \in Registration, TakeRegistration(k)
      PROVE  RegistrationLeftAlone(r) \/ StepsToEnd(r)' < StepsToEnd(r)
  <2>1. /\ worker = NoRegistration /\ RegQueue!Take(k) /\ worker # r
        /\ registrar'.job = k /\ registrar'.step = "register"
    BY <1>7, RegistrationAssumption DEF TakeRegistration, IdleRegistrar
  <2>2. CASE k # r
    BY <1>5, <2>1, <2>2
  <2>3. CASE k = r
    <3>1. regPlace[r] = "waiting" /\ regPlace'[r] = "active" /\ regStalls' = regStalls
      BY <1>1, <2>1, <2>3 DEF RegQueue!Take, RegQueue!QueueTypeOK
    <3>2. StepsToEnd(r) = runs + 5
      BY <3>1 DEF StepsToEnd
    <3>3. StepsToEnd(r)' = runs + 4
      BY <2>1, <2>3, <3>1 DEF StepsToEnd, RegistrarSteps
    <3> HIDE DEF runs
    <3> QED
      BY <1>1, <3>2, <3>3
  <2> QED
    BY <2>2, <2>3
\* The worker is done with its job.
<1>8. ASSUME EndRegistration, worker # NoRegistration
      PROVE  RegistrationLeftAlone(r) \/ StepsToEnd(r)' < StepsToEnd(r)
  <2>1. RegQueue!Complete(worker) /\ registrar'.job = NoRegistration
    BY <1>8 DEF EndRegistration, IdleRegistrar
  <2>2. CASE worker # r
    BY <1>2, <1>5, <1>8, <2>1, <2>2, RegistrationAssumption
  <2>3. CASE worker = r
    <3>1. regPlace[r] = "active" /\ regPlace'[r] = "none"
      BY <1>1, <2>1, <2>3 DEF RegQueue!Complete, RegQueue!Remove, RegQueue!QueueTypeOK
    <3>2. StepsToEnd(r) = runs + RegistrarSteps(registrar.step) /\ StepsToEnd(r)' = 0
      BY <2>3, <3>1 DEF StepsToEnd
    <3>3. RegistrarSteps(registrar.step) \in {2, 3, 4}
      BY <1>1 DEF RegistrarSteps
    <3> HIDE DEF runs
    <3> QED
      BY <1>1, <3>2, <3>3
  <2> QED
    BY <2>2, <2>3
\* The worker goes on.
<1>9. ASSUME UNCHANGED <<regPlace, regStalls>>, worker # NoRegistration,
             registrar'.job = worker,
             RegistrarSteps(registrar'.step) < RegistrarSteps(registrar.step)
      PROVE  RegistrationLeftAlone(r) \/ StepsToEnd(r)' < StepsToEnd(r)
  <2>1. CASE worker # r
    BY <1>9, <2>1 DEF RegistrationLeftAlone
  <2>2. CASE worker = r
    <3>1. regPlace[r] = "active"
      BY <1>2, <1>9, <2>2
    <3>2. /\ StepsToEnd(r) = runs + RegistrarSteps(registrar.step)
          /\ StepsToEnd(r)' = runs + RegistrarSteps(registrar'.step)
      BY <1>9, <2>2, <3>1 DEF StepsToEnd
    <3>3. RegistrationInv'
      BY RegistrationNextInv
    <3>4. registrar'.step \in {"register", "save", "enqueue"}
      BY <3>3 DEF RegistrationInv, RegistrationTypeOK
    <3>5. RegistrarSteps(registrar.step) \in Nat /\ RegistrarSteps(registrar'.step) \in Nat
      BY <1>1, <3>4 DEF RegistrarSteps
    <3> HIDE DEF runs
    <3> QED
      BY <1>1, <1>9, <3>2, <3>5
  <2> QED
    BY <2>1, <2>2
<1>10. CASE RegisterAtProvider
  <2>1. registrar.step = "register" /\ registrar'.step = "save" /\ registrar'.job = worker
        /\ worker # NoRegistration /\ UNCHANGED <<regPlace, regStalls>>
    BY <1>1, <1>10 DEF RegisterAtProvider, regVars
  <2> QED
    BY <1>9, <2>1 DEF RegistrarSteps
<1>11. CASE SaveWebhook
  <2>1. worker # NoRegistration /\ registrar.step = "save"
    BY <1>11 DEF SaveWebhook
  <2>2. CASE EndRegistration
    BY <1>8, <2>1, <2>2
  <2>3. CASE ~EndRegistration
    <3>1. registrar' = [registrar EXCEPT !.step = "enqueue"] /\ UNCHANGED regVars
      BY <1>11, <2>3 DEF SaveWebhook
    <3>2. registrar'.step = "enqueue" /\ registrar'.job = worker
      BY <1>1, <3>1
    <3> QED
      BY <1>9, <2>1, <3>1, <3>2 DEF RegistrarSteps, regVars
  <2> QED
    BY <2>2, <2>3
<1>12. CASE RegistrationRefused \/ EnqueueSuccess \/ ErrorIsSwallowed
  <2>1. EndRegistration /\ worker # NoRegistration
    BY <1>12 DEF RegistrationRefused, EnqueueSuccess, ErrorIsSwallowed
  <2> QED
    BY <1>8, <2>1
\* The process dies: the job waits to be found stalled.
<1>13. CASE RegistrationCrash
  <2>1. UNCHANGED <<regPlace, regStalls>> /\ registrar'.job = NoRegistration
    BY <1>13 DEF RegistrationCrash, IdleRegistrar, regVars
  <2>2. CASE worker # r
    BY <2>1, <2>2, RegistrationAssumption DEF RegistrationLeftAlone
  <2>3. CASE worker = r
    <3>1. regPlace[r] = "active" /\ registrar'.job # r
      BY <1>2, <2>1, <2>3, RegistrationAssumption
    <3>2. StepsToEnd(r) = runs + RegistrarSteps(registrar.step) /\ StepsToEnd(r)' = runs + 1
      BY <2>1, <2>3, <3>1 DEF StepsToEnd
    <3>3. RegistrarSteps(registrar.step) \in {2, 3, 4}
      BY <1>1 DEF RegistrarSteps
    <3> HIDE DEF runs
    <3> QED
      BY <1>1, <3>2, <3>3
  <2> QED
    BY <2>2, <2>3
<1>14. ASSUME NEW k \in Registration, k # worker, RegQueue!Stall(k), registrar' = registrar
       PROVE  RegistrationLeftAlone(r) \/ StepsToEnd(r)' < StepsToEnd(r)
  <2>1. CASE k # r
    <3>1. regPlace'[r] = regPlace[r] /\ regStalls'[r] = regStalls[r]
      BY <1>1, <1>14, <2>1, RegQueueStep
    <3> QED
      BY <1>14, <3>1 DEF RegistrationLeftAlone
  <2>2. CASE k = r
    <3>1. regPlace[r] = "active" /\ worker # r
      BY <1>14, <2>2 DEF RegQueue!Stall
    <3>2. StepsToEnd(r) = runs + 1
      BY <3>1 DEF StepsToEnd
    <3>3. CASE regPlace'[r] \in {"none", "failed"}
      <4>1. StepsToEnd(r)' = 0
        BY <3>3 DEF StepsToEnd
      <4> HIDE DEF runs
      <4> QED
        BY <1>1, <3>2, <4>1
    <3>4. CASE /\ regStalls[r] < DefaultMaxStalledCount
               /\ regPlace' = [regPlace EXCEPT ![r] = "waiting"]
               /\ regStalls' = [regStalls EXCEPT ![r] = @ + 1]
      <4>1. regPlace'[r] = "waiting" /\ regStalls'[r] = 1 /\ regStalls[r] = 0
        BY <1>1, <3>4 DEF DefaultMaxStalledCount, RegQueue!QueueTypeOK
      <4>2. runs = 5 /\ StepsToEnd(r)' = 5
        BY <4>1 DEF StepsToEnd, DefaultMaxStalledCount
      <4> HIDE DEF runs
      <4> QED
        BY <3>2, <4>2
    <3>5. \/ regPlace'[r] \in {"none", "failed"}
          \/ /\ regStalls[r] < DefaultMaxStalledCount
             /\ regPlace' = [regPlace EXCEPT ![r] = "waiting"]
             /\ regStalls' = [regStalls EXCEPT ![r] = @ + 1]
      BY <1>1, <1>14, <2>2 DEF RegQueue!Stall, RegQueue!Remove, RegQueue!QueueTypeOK
    <3> QED
      BY <3>3, <3>4, <3>5
  <2> QED
    BY <2>1, <2>2
<1>15. CASE RegistrationQueues
  <2>1. registrar' = registrar
    BY <1>15 DEF RegistrationQueues
  <2>2. CASE UNCHANGED regVars
    BY <1>4, <2>1, <2>2 DEF regVars
  <2>3. CASE \E k \in Registration : k # worker /\ RegQueue!Stall(k)
    BY <1>14, <2>1, <2>3
  <2> QED
    BY <1>15, <2>2, <2>3 DEF RegistrationQueues
<1>16. ASSUME \/ \E id \in ExternalId : TakeNotification(id)
              \/ Notify \/ NotificationFails
              \/ \E e \in Edit : EditAtProvider(e) \/ EditRow(e) \/ EditFails(e)
              \/ \E e \in Edit, id \in ExternalId : StartEdit(e, id)
              \/ UNCHANGED registrationVars
       PROVE  UNCHANGED <<regPlace, regStalls, registrar>>
  BY <1>16 DEF TakeNotification, Notify, NotificationFails, EditAtProvider, EditRow, EditFails,
               StartEdit, registrationVars, regVars
<1> QED
  BY <1>4, <1>6, <1>7, <1>10, <1>11, <1>12, <1>13, <1>15, <1>16, RegistrationSteps

\* A registration is out of its queue after ten steps of its own at most, for any number
\* of requests, errors and crashes; RegistrationsEnd needs only that they are taken.
THEOREM RegistrationsAreBounded ==
  RegistrationSpec =>
    [](\A r \in Registration : StepsToEnd(r) \in 0 .. 10) /\ RegistrationsRunOut
<1>1. RegistrationInv => \A r \in Registration : StepsToEnd(r) \in 0 .. 10
  BY StepsToEndBounded
<1>2. RegistrationInv /\ [RegistrationNext]_registrationVars =>
        [\A r \in Registration : regPlace[r] # "none" =>
           RegistrationLeftAlone(r) \/ StepsToEnd(r)' < StepsToEnd(r)]_registrationVars
  BY RegistrationRunsOut
<1> QED
  BY <1>1, <1>2, RegistrationInitInv, RegistrationNextInv, PTL
  DEF RegistrationSpec, RegistrationsRunOut

-----------------------------------------------------------------------------
(* Who is told.  A notification is on its way, or has arrived, of saved webhooks  *)
(* only; as long as nothing failed it is exactly one of: still to be queued, in   *)
(* its queue, arrived.                                                            *)

AboutToQueue(worker, id) ==
  worker.job # NoRegistration /\ worker.step = "enqueue" /\ worker.id = id

ToldOfRows ==
  /\ \A id \in ExternalId :
       told[id] # 0 \/ tellPlace[id] # "none" => id \in DOMAIN rows /\ rows[id].callback
  /\ \A id \in ExternalId :
       AboutToQueue(registrar, id) =>
         rows[id].callback /\ told[id] = 0 /\ tellPlace[id] = "none"
  /\ teller # NoId => tellPlace[teller] = "active"

ToldOnce ==
  NothingFailed =>
    \A id \in ExternalId :
      /\ tellPlace[id] = "active" => teller = id
      /\ id \in DOMAIN rows /\ rows[id].callback =>
           /\ told[id] \in {0, 1}
           /\ told[id] = 0 <=> tellPlace[id] # "none" \/ AboutToQueue(registrar, id)

TellInv == RegistrationInv /\ ToldOfRows /\ ToldOnce

LEMMA TellInitInv == RegistrationInit => TellInv
<1> SUFFICES ASSUME RegistrationInit PROVE TellInv
  OBVIOUS
<1>1. RegistrationInv
  BY RegistrationInitInv
<1>2. /\ registrar.job = NoRegistration /\ teller = NoId /\ DOMAIN rows = {}
      /\ \A id \in ExternalId : told[id] = 0 /\ tellPlace[id] = "none"
  BY DEF RegistrationInit, TellQueue!QueueInit, IdleRegistrar
<1> QED
  BY <1>1, <1>2 DEF TellInv, ToldOfRows, ToldOnce, AboutToQueue

\* External ids in use are external ids.
LEMMA IdsInUse ==
  ASSUME RegistrationInv
  PROVE  /\ DOMAIN issued \subseteq ExternalId /\ DOMAIN rows \subseteq ExternalId
         /\ NoId \notin ExternalId
<1>1. issued \in Seq(Issue) /\ DOMAIN rows \subseteq DOMAIN issued
  BY DEF RegistrationInv, RegistrationTypeOK, Issue
<1>2. DOMAIN issued \subseteq ExternalId
  BY <1>1, IssuesAreNumbered DEF RegistrationInv, RunsCounted, Counted
<1> QED
  BY <1>1, <1>2 DEF ExternalId, NoId

\* A step that tells nobody, and after which the worker is about to queue what it was.
LEMMA NobodyTold ==
  ASSUME TellInv, RegistrationInv', UNCHANGED <<told, tellPlace>>, teller' \in {teller, NoId},
         DOMAIN rows' = DOMAIN rows,
         \A id \in DOMAIN rows : rows'[id].callback = rows[id].callback,
         \A id \in ExternalId : AboutToQueue(registrar', id) => AboutToQueue(registrar, id),
         NothingFailed' => /\ NothingFailed /\ teller' = teller
                           /\ \A id \in ExternalId :
                                AboutToQueue(registrar, id) => AboutToQueue(registrar', id)
  PROVE  TellInv'
<1>1. ASSUME NEW id \in ExternalId, AboutToQueue(registrar', id)
      PROVE  id \in DOMAIN rows
  BY <1>1 DEF TellInv, RegistrationInv, WorkersHold, AboutToQueue
<1>2. ToldOfRows'
  <2>1. \A id \in ExternalId :
          told'[id] # 0 \/ tellPlace'[id] # "none" => id \in DOMAIN rows' /\ rows'[id].callback
    BY DEF TellInv, ToldOfRows
  <2>2. \A id \in ExternalId :
          AboutToQueue(registrar', id) =>
            rows'[id].callback /\ told'[id] = 0 /\ tellPlace'[id] = "none"
    BY <1>1 DEF TellInv, ToldOfRows
  <2>3. teller' # NoId => tellPlace'[teller'] = "active"
    BY DEF TellInv, ToldOfRows
  <2> QED
    BY <2>1, <2>2, <2>3 DEF ToldOfRows
<1>3. ToldOnce'
  <2> SUFFICES ASSUME NothingFailed', NEW id \in ExternalId
               PROVE  /\ tellPlace'[id] = "active" => teller' = id
                      /\ id \in DOMAIN rows' /\ rows'[id].callback =>
                           /\ told'[id] \in {0, 1}
                           /\ told'[id] = 0 <=>
                                tellPlace'[id] # "none" \/ AboutToQueue(registrar', id)
    BY DEF ToldOnce
  <2> QED
    BY DEF TellInv, ToldOnce
<1> QED
  BY <1>2, <1>3 DEF TellInv

\* Steps on the side of the registrations and of the edits.
LEMMA UntoldSteps ==
  ASSUME TellInv, RegistrationInv',
         \/ \E r \in Registration : TakeRegistration(r)
         \/ \E r \in Registration, job \in RegisterWebhookJob : RegisterWebhook(r, job)
         \/ RegisterAtProvider \/ RegistrationRefused \/ ErrorIsSwallowed
         \/ \E e \in Edit : EditAtProvider(e)
         \/ \E e \in Edit : EditRow(e)
         \/ \E e \in Edit : EditFails(e)
         \/ \E e \in Edit, id \in ExternalId : StartEdit(e, id)
         \/ RegistrationCrash
         \/ UNCHANGED registrationVars
  PROVE  TellInv'
<1>1. ~AboutToQueue(IdleRegistrar, NoId) /\ \A id \in ExternalId : ~AboutToQueue(IdleRegistrar, id)
  BY DEF AboutToQueue, IdleRegistrar
<1>2. CASE \E r \in Registration : TakeRegistration(r)
  <2>1. /\ registrar.job = NoRegistration /\ registrar'.step = "register"
        /\ UNCHANGED <<told, tellPlace, teller, rows, registrationErrors, registrationCrashes>>
    BY <1>2 DEF TakeRegistration, IdleRegistrar, tellVars, faultVars
  <2> QED
    BY <2>1, NobodyTold DEF AboutToQueue, NothingFailed
<1>3. CASE \E r \in Registration, job \in RegisterWebhookJob : RegisterWebhook(r, job)
  <2>1. UNCHANGED <<told, tellPlace, teller, rows, registrar, registrationErrors,
                    registrationCrashes>>
    BY <1>3 DEF RegisterWebhook, tellVars, faultVars
  <2> QED
    BY <2>1, NobodyTold DEF NothingFailed
<1>4. CASE RegisterAtProvider
  <2>1. /\ registrar.step = "register" /\ registrar'.step = "save"
        /\ UNCHANGED <<told, tellPlace, teller, rows, registrationErrors, registrationCrashes>>
    BY <1>4 DEF RegisterAtProvider, tellVars, faultVars, TellInv, RegistrationInv,
                RegistrationTypeOK
  <2> QED
    BY <2>1, NobodyTold DEF AboutToQueue, NothingFailed
<1>5. CASE RegistrationRefused
  <2>1. /\ registrar.step = "register" /\ registrar' = IdleRegistrar
        /\ UNCHANGED <<told, tellPlace, teller, rows, registrationErrors, registrationCrashes>>
    BY <1>5 DEF RegistrationRefused, EndRegistration, tellVars, faultVars
  <2> QED
    BY <1>1, <2>1, NobodyTold DEF AboutToQueue, NothingFailed
<1>6. CASE ErrorIsSwallowed
  <2>1. /\ registrar' = IdleRegistrar /\ Error
        /\ UNCHANGED <<told, tellPlace, teller, rows>>
    BY <1>6 DEF ErrorIsSwallowed, EndRegistration, tellVars
  <2>2. ~NothingFailed'
    BY <2>1, ErrorCounted DEF NothingFailed, TellInv
  <2> QED
    BY <1>1, <2>1, <2>2, NobodyTold
<1>7. CASE \E e \in Edit : EditAtProvider(e)
  <2>1. UNCHANGED <<told, tellPlace, teller, rows, registrar, registrationErrors,
                    registrationCrashes>>
    BY <1>7 DEF EditAtProvider, tellVars, faultVars
  <2> QED
    BY <2>1, NobodyTold DEF NothingFailed
<1>8. ASSUME NEW e \in Edit, EditRow(e) PROVE TellInv'
  <2>1. UNCHANGED <<told, tellPlace, teller, registrar, registrationErrors,
                    registrationCrashes>>
    BY <1>8 DEF EditRow, tellVars, faultVars
  <2>2. /\ DOMAIN rows' = DOMAIN rows
        /\ \A id \in DOMAIN rows : rows'[id].callback = rows[id].callback
    BY <1>8, EditedRow DEF TellInv
  <2> QED
    BY <2>1, <2>2, NobodyTold DEF NothingFailed
<1>9. ASSUME NEW e \in Edit, EditFails(e) PROVE TellInv'
  <2>1. UNCHANGED <<told, tellPlace, teller, rows, registrar>> /\ Error
    BY <1>9 DEF EditFails, tellVars
  <2>2. ~NothingFailed'
    BY <2>1, ErrorCounted DEF NothingFailed, TellInv
  <2> QED
    BY <2>1, <2>2, NobodyTold
<1>10. CASE \E e \in Edit, id \in ExternalId : StartEdit(e, id)
  <2>1. UNCHANGED <<told, tellPlace, teller, rows, registrar, registrationErrors,
                    registrationCrashes>>
    BY <1>10 DEF StartEdit, tellVars, faultVars
  <2> QED
    BY <2>1, NobodyTold DEF NothingFailed
<1>11. CASE RegistrationCrash
  <2>1. /\ registrar' = IdleRegistrar /\ teller' = NoId
        /\ registrationCrashes' = registrationCrashes + 1
        /\ UNCHANGED <<told, tellPlace, rows>>
    BY <1>11 DEF RegistrationCrash, tellVars
  <2>2. registrationCrashes \in Nat
    BY RegistrationBoundsAssumption DEF TellInv, RegistrationInv, RegistrationTypeOK
  <2>3. ~NothingFailed'
    BY <2>1, <2>2 DEF NothingFailed
  <2> QED
    BY <1>1, <2>1, <2>3, NobodyTold
<1>12. CASE UNCHANGED registrationVars
  <2>1. UNCHANGED <<told, tellPlace, teller, rows, registrar, registrationErrors,
                    registrationCrashes>>
    BY <1>12 DEF registrationVars, tellVars, faultVars
  <2> QED
    BY <2>1, NobodyTold DEF NothingFailed
<1> QED
  BY <1>2, <1>3, <1>4, <1>5, <1>6, <1>7, <1>8, <1>9, <1>10, <1>11, <1>12

LEMMA SaveWebhookTells ==
  ASSUME TellInv, RegistrationInv', SaveWebhook
  PROVE  TellInv'
<1> DEFINE r == registrar.job
           new == registrar.id
<1>1. /\ r \in Registration /\ registrar.step = "save"
      /\ new \in DOMAIN issued /\ new \notin DOMAIN rows
      /\ DOMAIN rows' = DOMAIN rows \cup {new}
      /\ \A id \in DOMAIN rows : rows'[id] = rows[id]
      /\ rows'[new] = [uri |-> regPayload[r].uri, deleted |-> FALSE,
                       callback |-> regPayload[r].callback]
  BY SavedRow DEF TellInv
<1>2. /\ r # NoRegistration
      /\ UNCHANGED <<told, tellPlace, teller, registrationErrors, registrationCrashes>>
      /\ \/ regPayload[r].callback /\ registrar' = [registrar EXCEPT !.step = "enqueue"]
         \/ ~regPayload[r].callback /\ registrar' = IdleRegistrar
  BY DEF SaveWebhook, EndRegistration, tellVars, faultVars
<1>3. rows'[new].callback = regPayload[r].callback
  BY <1>1
<1> HIDE DEF r
<1>4. new \in ExternalId /\ told[new] = 0 /\ tellPlace[new] = "none"
  BY <1>1, IdsInUse DEF TellInv, ToldOfRows
<1>5. \A id \in ExternalId : ~AboutToQueue(registrar, id)
  BY <1>1 DEF AboutToQueue
<1>6. \A id \in ExternalId :
        AboutToQueue(registrar', id) <=> regPayload[r].callback /\ id = new
  <2>1. CASE regPayload[r].callback /\ registrar' = [registrar EXCEPT !.step = "enqueue"]
    <3>1. registrar'.job = r /\ registrar'.step = "enqueue" /\ registrar'.id = new
      BY <2>1 DEF TellInv, RegistrationInv, RegistrationTypeOK, r
    <3> QED
      BY <1>2, <2>1, <3>1 DEF AboutToQueue
  <2>2. CASE ~regPayload[r].callback /\ registrar' = IdleRegistrar
    BY <2>2 DEF AboutToQueue, IdleRegistrar
  <2> QED
    BY <1>2, <2>1, <2>2
<1> HIDE DEF new
<1>7. ToldOfRows'
  <2>1. \A id \in ExternalId :
          told'[id] # 0 \/ tellPlace'[id] # "none" => id \in DOMAIN rows' /\ rows'[id].callback
    BY <1>1, <1>2 DEF TellInv, ToldOfRows
  <2>2. \A id \in ExternalId :
          AboutToQueue(registrar', id) =>
            rows'[id].callback /\ told'[id] = 0 /\ tellPlace'[id] = "none"
    BY <1>2, <1>3, <1>4, <1>6
  <2>3. teller' # NoId => tellPlace'[teller'] = "active"
    BY <1>2 DEF TellInv, ToldOfRows
  <2> QED
    BY <2>1, <2>2, <2>3 DEF ToldOfRows
<1>8. ToldOnce'
  <2> SUFFICES ASSUME NothingFailed', NEW id \in ExternalId
               PROVE  /\ tellPlace'[id] = "active" => teller' = id
                      /\ id \in DOMAIN rows' /\ rows'[id].callback =>
                           /\ told'[id] \in {0, 1}
                           /\ told'[id] = 0 <=>
                                tellPlace'[id] # "none" \/ AboutToQueue(registrar', id)
    BY DEF ToldOnce
  <2>1. NothingFailed
    BY <1>2 DEF NothingFailed
  <2>2. CASE id = new
    BY <1>2, <1>3, <1>4, <1>6, <2>2
  <2>3. CASE id # new
    BY <1>1, <1>2, <1>5, <1>6, <2>1, <2>3 DEF TellInv, ToldOnce
  <2> QED
    BY <2>2, <2>3
<1> QED
  BY <1>7, <1>8 DEF TellInv

\* A step of the second queue on the notification of one webhook.
LEMMA OneNotification ==
  ASSUME TellInv, RegistrationInv', NEW id \in ExternalId,
         UNCHANGED rows, id \in DOMAIN rows, rows[id].callback,
         \A other \in ExternalId \ {id} :
           /\ told'[other] = told[other] /\ tellPlace'[other] = tellPlace[other]
           /\ AboutToQueue(registrar', other) <=> AboutToQueue(registrar, other),
         ~AboutToQueue(registrar', id),
         teller' # NoId => teller' \in ExternalId /\ tellPlace'[teller'] = "active",
         NothingFailed' =>
           /\ NothingFailed
           /\ \A other \in ExternalId \ {id} : teller = other => teller' = other
           /\ tellPlace'[id] = "active" => teller' = id
           /\ told'[id] \in {0, 1}
           /\ told'[id] = 0 <=> tellPlace'[id] # "none"
  PROVE  TellInv'
<1>1. ToldOfRows'
  <2>1. \A other \in ExternalId :
          told'[other] # 0 \/ tellPlace'[other] # "none" =>
            other \in DOMAIN rows' /\ rows'[other].callback
    BY DEF TellInv, ToldOfRows
  <2>2. \A other \in ExternalId :
          AboutToQueue(registrar', other) =>
            rows'[other].callback /\ told'[other] = 0 /\ tellPlace'[other] = "none"
    BY DEF TellInv, ToldOfRows
  <2> QED
    BY <2>1, <2>2 DEF ToldOfRows
<1>2. ToldOnce'
  <2> SUFFICES ASSUME NothingFailed', NEW other \in ExternalId
               PROVE  /\ tellPlace'[other] = "active" => teller' = other
                      /\ other \in DOMAIN rows' /\ rows'[other].callback =>
                           /\ told'[other] \in {0, 1}
                           /\ told'[other] = 0 <=>
                                tellPlace'[other] # "none" \/ AboutToQueue(registrar', other)
    BY DEF ToldOnce
  <2>1. CASE other = id
    BY <2>1
  <2>2. CASE other # id
    BY <2>2 DEF TellInv, ToldOnce
  <2> QED
    BY <2>1, <2>2
<1> QED
  BY <1>1, <1>2 DEF TellInv

LEMMA EnqueueSuccessTells ==
  ASSUME TellInv, RegistrationInv', EnqueueSuccess
  PROVE  TellInv'
<1> DEFINE id == registrar.id
<1>1. /\ AboutToQueue(registrar, id) /\ registrar' = IdleRegistrar
      /\ \E uri : TellQueue!Add(id, uri)
      /\ UNCHANGED <<rows, teller, told, registrationErrors, registrationCrashes>>
  BY DEF EnqueueSuccess, EndRegistration, AboutToQueue, faultVars
<1>2. id \in DOMAIN rows
  BY <1>1 DEF TellInv, RegistrationInv, WorkersHold, AboutToQueue
<1>3. id \in ExternalId
  BY <1>2, IdsInUse DEF TellInv
<1> HIDE DEF id
<1>4. rows[id].callback /\ told[id] = 0 /\ tellPlace[id] = "none"
  BY <1>1, <1>3 DEF TellInv, ToldOfRows
<1>5. /\ tellPlace'[id] = "waiting"
      /\ \A other \in ExternalId \ {id} : tellPlace'[other] = tellPlace[other]
  BY <1>1, <1>3, <1>4
  DEF TellInv, RegistrationInv, RegistrationTypeOK, TellQueue!QueueTypeOK, TellQueue!Add,
      TellQueue!Exists
<1>6. /\ \A other \in ExternalId : ~AboutToQueue(registrar', other)
      /\ \A other \in ExternalId \ {id} : ~AboutToQueue(registrar, other)
  BY <1>1 DEF AboutToQueue, IdleRegistrar
<1>7. teller' # NoId => teller' \in ExternalId /\ tellPlace'[teller'] = "active"
  <2>1. teller # NoId => teller \in ExternalId /\ tellPlace[teller] = "active"
    BY DEF TellInv, ToldOfRows, RegistrationInv, RegistrationTypeOK
  <2> QED
    BY <1>1, <1>4, <1>5, <2>1
<1>8. NothingFailed' => NothingFailed
  BY <1>1 DEF NothingFailed
<1> QED
  BY <1>1, <1>2, <1>3, <1>4, <1>5, <1>6, <1>7, <1>8, OneNotification

LEMMA NotificationsTell ==
  ASSUME TellInv, RegistrationInv',
         (\E id \in ExternalId : TakeNotification(id)) \/ Notify \/ NotificationFails
  PROVE  TellInv'
<1>1. /\ TellQueue!QueueTypeOK /\ told \in [ExternalId -> Nat] /\ NoId \notin ExternalId
      /\ teller # NoId => teller \in ExternalId /\ tellPlace[teller] = "active"
  BY IdsInUse DEF TellInv, ToldOfRows, RegistrationInv, RegistrationTypeOK
<1>2. ASSUME NEW id \in ExternalId, tellPlace[id] # "none"
      PROVE  /\ id \in DOMAIN rows /\ rows[id].callback
             /\ ~AboutToQueue(registrar, id)
             /\ NothingFailed => told[id] = 0
  <2>1. id \in DOMAIN rows /\ rows[id].callback /\ ~AboutToQueue(registrar, id)
    BY <1>2 DEF TellInv, ToldOfRows
  <2>2. NothingFailed => told[id] = 0
    BY <1>2, <2>1 DEF TellInv, ToldOnce
  <2> QED
    BY <2>1, <2>2
<1>3. ASSUME NEW id \in ExternalId, TakeNotification(id) PROVE TellInv'
  <2>1. /\ teller = NoId /\ teller' = id /\ tellPlace[id] = "waiting"
        /\ tellPlace' = [tellPlace EXCEPT ![id] = "active"]
        /\ UNCHANGED <<rows, registrar, told, registrationErrors, registrationCrashes>>
    BY <1>3 DEF TakeNotification, TellQueue!Take, faultVars
  <2>2. /\ tellPlace'[id] = "active"
        /\ \A other \in ExternalId \ {id} : tellPlace'[other] = tellPlace[other]
    BY <1>1, <2>1 DEF TellQueue!QueueTypeOK
  <2>3. NothingFailed' => NothingFailed
    BY <2>1 DEF NothingFailed
  <2>4. /\ id \in DOMAIN rows /\ rows[id].callback /\ ~AboutToQueue(registrar, id)
        /\ NothingFailed => told[id] = 0
    BY <1>2, <2>1
  <2>5. \A other \in ExternalId : teller # other
    BY <1>1, <2>1
  <2> QED
    BY <2>1, <2>2, <2>3, <2>4, <2>5, OneNotification
<1>4. ASSUME Notify PROVE TellInv'
  <2>1. /\ teller \in ExternalId /\ tellPlace[teller] = "active" /\ teller' = NoId
        /\ told' = [told EXCEPT ![teller] = @ + 1]
        /\ tellPlace' = [tellPlace EXCEPT ![teller] = "none"]
        /\ UNCHANGED <<rows, registrar, registrationErrors, registrationCrashes>>
    BY <1>1, <1>4 DEF Notify, TellQueue!Complete, TellQueue!Remove, faultVars
  <2>2. /\ tellPlace'[teller] = "none" /\ told'[teller] = told[teller] + 1
        /\ \A other \in ExternalId \ {teller} :
             tellPlace'[other] = tellPlace[other] /\ told'[other] = told[other]
    BY <1>1, <2>1 DEF TellQueue!QueueTypeOK
  <2>3. NothingFailed' => NothingFailed
    BY <2>1 DEF NothingFailed
  <2>4. /\ teller \in DOMAIN rows /\ rows[teller].callback /\ ~AboutToQueue(registrar, teller)
        /\ NothingFailed => told[teller] = 0
    BY <1>2, <2>1
  <2>5. NothingFailed' => told'[teller] = 1
    BY <2>2, <2>3, <2>4
  <2> QED
    BY <2>1, <2>2, <2>3, <2>4, <2>5, OneNotification
<1>5. ASSUME NotificationFails PROVE TellInv'
  <2>1. /\ teller \in ExternalId /\ tellPlace[teller] = "active" /\ teller' = NoId
        /\ TellQueue!FailAttempt(teller) /\ Error
        /\ UNCHANGED <<rows, registrar>>
    BY <1>1, <1>5 DEF NotificationFails
  <2>2. \A other \in ExternalId \ {teller} : tellPlace'[other] = tellPlace[other]
    BY <1>1, <2>1, TellQueueStep
  <2>3. \A other \in ExternalId \ {teller} : told'[other] = told[other]
    BY <1>1, <1>5, <2>1 DEF NotificationFails
  <2>4. ~NothingFailed'
    BY <2>1, ErrorCounted DEF NothingFailed, TellInv
  <2>5. teller \in DOMAIN rows /\ rows[teller].callback /\ ~AboutToQueue(registrar, teller)
    BY <1>2, <2>1
  <2> QED
    BY <2>1, <2>2, <2>3, <2>4, <2>5, OneNotification
<1> QED
  BY <1>3, <1>4, <1>5

\* Bull recovers a notification only after a crash.
LEMMA QueuesTell ==
  ASSUME TellInv, RegistrationInv', RegistrationQueues
  PROVE  TellInv'
<1>1. UNCHANGED <<rows, registrar, teller, told, registrationErrors, registrationCrashes>>
  BY DEF RegistrationQueues, faultVars
<1>2. NothingFailed' => NothingFailed
  BY <1>1 DEF NothingFailed
<1>3. CASE UNCHANGED tellVars
  BY <1>1, <1>2, <1>3, NobodyTold DEF tellVars
<1>4. ASSUME NEW id \in ExternalId,
             TellQueue!Promote(id) \/ (id # teller /\ TellQueue!Stall(id))
      PROVE  TellInv'
  <2>1. /\ tellPlace[id] \in {"delayed", "active"}
        /\ tellPlace[id] = "active" => id # teller
        /\ tellPlace[id] = "delayed" => tellPlace' = [tellPlace EXCEPT ![id] = "waiting"]
    BY <1>4 DEF TellQueue!Promote, TellQueue!Stall
  <2>2. \A other \in ExternalId \ {id} : tellPlace'[other] = tellPlace[other]
    BY <1>4, TellQueueStep DEF TellInv, RegistrationInv, RegistrationTypeOK
  <2>3. id \in DOMAIN rows /\ rows[id].callback /\ ~AboutToQueue(registrar, id)
    BY <2>1 DEF TellInv, ToldOfRows
  <2>4. /\ teller # NoId => teller \in ExternalId /\ tellPlace[teller] = "active"
        /\ tellPlace \in [ExternalId -> TellQueue!Place]
    BY DEF TellInv, ToldOfRows, RegistrationInv, RegistrationTypeOK, TellQueue!QueueTypeOK
  <2>5. teller # id
    BY <2>1, <2>4, IdsInUse DEF TellInv
  <2>6. NothingFailed => /\ tellPlace'[id] = "waiting"
                         /\ told[id] = 0
    BY <2>1, <2>3, <2>4 DEF TellInv, ToldOnce
  <2> QED
    BY <1>1, <1>2, <2>2, <2>3, <2>4, <2>5, <2>6, OneNotification
<1> QED
  BY <1>3, <1>4 DEF RegistrationQueues

LEMMA TellNextInv == TellInv /\ [RegistrationNext]_registrationVars => TellInv'
<1> SUFFICES ASSUME TellInv, [RegistrationNext]_registrationVars PROVE TellInv'
  OBVIOUS
<1>1. RegistrationInv'
  BY RegistrationNextInv DEF TellInv
<1>2. CASE SaveWebhook \/ EnqueueSuccess \/ RegistrationQueues
  BY <1>1, <1>2, SaveWebhookTells, EnqueueSuccessTells, QueuesTell
<1>3. CASE (\E id \in ExternalId : TakeNotification(id)) \/ Notify \/ NotificationFails
  BY <1>1, <1>3, NotificationsTell
<1>4. CASE ~(SaveWebhook \/ EnqueueSuccess \/ RegistrationQueues) /\
           ~((\E id \in ExternalId : TakeNotification(id)) \/ Notify \/ NotificationFails)
  BY <1>1, <1>4, RegistrationSteps, UntoldSteps
<1> QED
  BY <1>2, <1>3, <1>4

\* A client is told of saved webhooks only and, once everything has come to rest and
\* nothing failed, exactly once of each it wanted to be told of.
THEOREM ToldOncePerWebhook == RegistrationSpec => []ClientsAreTold
<1>1. TellInv => ClientsAreTold
  <2> SUFFICES ASSUME TellInv PROVE ClientsAreTold
    OBVIOUS
  <2>1. ASSUME NEW id \in ExternalId, told[id] > 0
        PROVE  id \in DOMAIN rows /\ rows[id].callback
    <3>1. told[id] # 0
      BY <2>1 DEF TellInv, RegistrationInv, RegistrationTypeOK
    <3> QED
      BY <3>1 DEF TellInv, ToldOfRows
  <2>2. ASSUME RegistrationAtRest, NothingFailed, NEW id \in DOMAIN rows
        PROVE  told[id] = IF rows[id].callback THEN 1 ELSE 0
    <3>1. id \in ExternalId
      BY IdsInUse DEF TellInv
    <3>2. registrar.job = NoRegistration
      BY <2>2 DEF TellInv, RegistrationInv, RegistrationTypeOK, WorkersHold,
                  RegistrationAtRest
    <3>3. tellPlace[id] = "none" /\ ~AboutToQueue(registrar, id)
      BY <2>2, <3>1, <3>2 DEF RegistrationAtRest, AboutToQueue
    <3>4. CASE rows[id].callback
      BY <2>2, <3>1, <3>3, <3>4 DEF TellInv, ToldOnce
    <3>5. CASE ~rows[id].callback
      BY <3>1, <3>5 DEF TellInv, ToldOfRows
    <3> QED
      BY <3>4, <3>5
  <2> QED
    BY <2>1, <2>2 DEF ClientsAreTold
<1> QED
  BY <1>1, TellInitInv, TellNextInv, PTL DEF RegistrationSpec

-----------------------------------------------------------------------------
(* The table and the provider's list.  As long as nothing failed they differ only  *)
(* by the issue the worker is about to save and by what edits under way have done  *)
(* at the provider and not yet to the row.                                         *)

\* An edit between its two writes.
HalfDone(e, id) == edits[e].step = "row" /\ edits[e].id = id

RowMirrors(id) ==
  /\ rows[id].deleted => issued[id].deleted
  /\ issued[id].deleted =>
       rows[id].deleted \/ \E e \in Edit : HalfDone(e, id) /\ edits[e].op = "delete"
  /\ ~crossed =>
       rows[id].uri = issued[id].uri
         \/ \E e \in Edit : HalfDone(e, id) /\ edits[e].op = "update"

EditsMirror ==
  /\ \A e \in Edit :
       edits[e].step = "row" =>
         /\ edits[e].op = "delete" => issued[edits[e].id].deleted
         /\ ~crossed /\ edits[e].op = "update" => issued[edits[e].id].uri = edits[e].uri
  /\ ~crossed =>
       \A e, other \in Edit :
         edits[e].step = "row" /\ edits[other].step = "row" /\ edits[e].id = edits[other].id
           => e = other

DifferByWorkUnderWay ==
  /\ \A id \in DOMAIN issued :
       id \in DOMAIN rows
         \/ (registrar.job # NoRegistration /\ registrar.step = "save" /\ registrar.id = id)
  /\ \A id \in DOMAIN rows : RowMirrors(id)
  /\ EditsMirror

MirrorInv == RegistrationInv /\ (NothingFailed => DifferByWorkUnderWay)

LEMMA MirrorInitInv == RegistrationInit => MirrorInv
<1> SUFFICES ASSUME RegistrationInit PROVE MirrorInv
  OBVIOUS
<1>1. RegistrationInv
  BY RegistrationInitInv
<1>2. DOMAIN issued = {} /\ DOMAIN rows = {} /\ \A e \in Edit : edits[e].step = "idle"
  BY DEF RegistrationInit
<1> QED
  BY <1>1, <1>2 DEF MirrorInv, DifferByWorkUnderWay, EditsMirror

\* Nothing is demanded once something failed.
LEMMA FailureExcuses ==
  ASSUME RegistrationInv, RegistrationInv', Error \/ RegistrationCrash
  PROVE  MirrorInv'
<1>1. ~NothingFailed'
  <2>1. CASE Error
    BY <2>1, ErrorCounted DEF NothingFailed
  <2>2. CASE RegistrationCrash
    BY <2>2, RegistrationBoundsAssumption
    DEF RegistrationCrash, NothingFailed, RegistrationInv, RegistrationTypeOK
  <2> QED
    BY <2>1, <2>2
<1> QED
  BY <1>1 DEF MirrorInv

\* Neither the lists nor the edits change, and the worker saves what it had to save.
LEMMA ListsStay ==
  ASSUME MirrorInv, RegistrationInv', UNCHANGED <<issued, rows, edits, crossed>>,
         NothingFailed' => NothingFailed,
         UNCHANGED registrar \/ registrar.job = NoRegistration \/ registrar.step # "save"
  PROVE  MirrorInv'
<1> SUFFICES ASSUME NothingFailed' PROVE DifferByWorkUnderWay'
  BY DEF MirrorInv
<1> QED
  BY DEF MirrorInv, DifferByWorkUnderWay, RowMirrors, EditsMirror, HalfDone

LEMMA QuietSteps ==
  ASSUME MirrorInv, RegistrationInv',
         \/ \E r \in Registration : TakeRegistration(r)
         \/ \E r \in Registration, job \in RegisterWebhookJob : RegisterWebhook(r, job)
         \/ RegistrationRefused \/ EnqueueSuccess
         \/ (\E id \in ExternalId : TakeNotification(id)) \/ Notify
         \/ RegistrationQueues \/ UNCHANGED registrationVars
  PROVE  MirrorInv'
<1>1. UNCHANGED <<issued, rows, edits, crossed, registrationErrors, registrationCrashes>>
  BY DEF TakeRegistration, RegisterWebhook, RegistrationRefused, EnqueueSuccess,
         TakeNotification, Notify, RegistrationQueues, registrationVars, faultVars
<1>2. UNCHANGED registrar \/ registrar.job = NoRegistration \/ registrar.step # "save"
  BY DEF TakeRegistration, RegisterWebhook, RegistrationRefused, EnqueueSuccess,
         TakeNotification, Notify, RegistrationQueues, registrationVars
<1>3. NothingFailed' => NothingFailed
  BY <1>1 DEF NothingFailed
<1> QED
  BY <1>1, <1>2, <1>3, ListsStay

LEMMA RegisterAtProviderMirror ==
  ASSUME MirrorInv, RegistrationInv', RegisterAtProvider
  PROVE  MirrorInv'
<1> DEFINE new == Len(issued) + 1
<1>1. /\ registrar.job # NoRegistration /\ registrar.step = "register"
      /\ issued' = Append(issued, [by |-> registrar.job,
                                   uri |-> regPayload[registrar.job].uri, deleted |-> FALSE])
      /\ registrar' = [registrar EXCEPT !.step = "save", !.id = new]
      /\ UNCHANGED <<rows, edits, crossed, registrationErrors, registrationCrashes>>
  BY DEF RegisterAtProvider, faultVars
<1>2. /\ DOMAIN issued' = DOMAIN issued \cup {new}
      /\ \A id \in DOMAIN issued : issued'[id] = issued[id]
  BY <1>1, IssueStep DEF MirrorInv
<1>3. registrar'.job = registrar.job /\ registrar'.step = "save" /\ registrar'.id = new
  BY <1>1 DEF MirrorInv, RegistrationInv, RegistrationTypeOK
<1> HIDE DEF new
<1>4. DOMAIN rows \subseteq DOMAIN issued
  BY DEF MirrorInv, RegistrationInv, RegistrationTypeOK
<1>5. \A e \in Edit : edits[e].step = "row" => edits[e].id \in DOMAIN rows
  BY DEF MirrorInv, RegistrationInv, EditsOfRows
<1> SUFFICES ASSUME NothingFailed' PROVE DifferByWorkUnderWay'
  BY DEF MirrorInv
<1>6. DifferByWorkUnderWay
  BY <1>1 DEF MirrorInv, NothingFailed
<1>7. \A id \in DOMAIN issued' :
        id \in DOMAIN rows'
          \/ (registrar'.job # NoRegistration /\ registrar'.step = "save"
                /\ registrar'.id = id)
  BY <1>1, <1>2, <1>3, <1>6 DEF DifferByWorkUnderWay
<1>8. ASSUME NEW id \in DOMAIN rows' PROVE RowMirrors(id)'
  <2>1. id \in DOMAIN rows /\ rows'[id] = rows[id] /\ issued'[id] = issued[id]
    BY <1>1, <1>2, <1>4
  <2>2. RowMirrors(id)
    BY <1>6, <2>1 DEF DifferByWorkUnderWay
  <2> QED
    BY <1>1, <2>1, <2>2 DEF RowMirrors, HalfDone
<1>9. \A e \in Edit : edits'[e].step = "row" => issued'[edits'[e].id] = issued[edits[e].id]
  BY <1>1, <1>2, <1>4, <1>5
<1>10. EditsMirror'
  BY <1>1, <1>6, <1>9 DEF DifferByWorkUnderWay, EditsMirror
<1> QED
  BY <1>7, <1>8, <1>10 DEF DifferByWorkUnderWay

LEMMA SaveWebhookMirror ==
  ASSUME MirrorInv, RegistrationInv', SaveWebhook
  PROVE  MirrorInv'
<1> DEFINE r == registrar.job
           new == registrar.id
<1>1. /\ new \in DOMAIN issued /\ new \notin DOMAIN rows
      /\ DOMAIN rows' = DOMAIN rows \cup {new}
      /\ \A id \in DOMAIN rows : rows'[id] = rows[id]
      /\ rows'[new] = [uri |-> regPayload[r].uri, deleted |-> FALSE,
                       callback |-> regPayload[r].callback]
  BY SavedRow DEF MirrorInv
<1>2. rows'[new].uri = regPayload[r].uri /\ rows'[new].deleted = FALSE
  BY <1>1
<1>3. UNCHANGED <<issued, edits, crossed, registrationErrors, registrationCrashes>>
  BY DEF SaveWebhook, faultVars
<1>4. issued[new].uri = regPayload[r].uri /\ issued[new].deleted = FALSE
  BY DEF SaveWebhook, MirrorInv, RegistrationInv, WorkersHold
<1> HIDE DEF r, new
<1> SUFFICES ASSUME NothingFailed' PROVE DifferByWorkUnderWay'
  BY DEF MirrorInv
<1>5. DifferByWorkUnderWay
  BY <1>3 DEF MirrorInv, NothingFailed
<1>6. \A id \in DOMAIN issued' : id \in DOMAIN rows'
  BY <1>1, <1>3, <1>5 DEF DifferByWorkUnderWay, new
<1>7. ASSUME NEW id \in DOMAIN rows' PROVE RowMirrors(id)'
  <2>1. CASE id = new
    BY <1>2, <1>3, <1>4, <2>1 DEF RowMirrors
  <2>2. CASE id # new
    BY <1>1, <1>3, <1>5, <2>2 DEF DifferByWorkUnderWay, RowMirrors, HalfDone
  <2> QED
    BY <2>1, <2>2
<1>8. EditsMirror'
  BY <1>3, <1>5 DEF DifferByWorkUnderWay, EditsMirror
<1> QED
  BY <1>6, <1>7, <1>8 DEF DifferByWorkUnderWay

LEMMA StartEditMirror ==
  ASSUME MirrorInv, RegistrationInv', NEW e \in Edit, NEW id \in ExternalId, StartEdit(e, id)
  PROVE  MirrorInv'
<1>1. /\ edits[e].step = "idle" /\ edits \in [Edit -> EditRequest]
      /\ edits' = [edits EXCEPT ![e].step = "provider", ![e].id = id]
      /\ UNCHANGED <<issued, rows, registrar, crossed, registrationErrors,
                     registrationCrashes>>
  BY DEF StartEdit, faultVars, MirrorInv, RegistrationInv, RegistrationTypeOK, EditRequest
<1>2. edits'[e].step = "provider" /\ \A k \in Edit \ {e} : edits'[k] = edits[k]
  BY <1>1 DEF EditRequest
<1>3. \A k \in Edit : edits'[k].step = "row" \/ edits[k].step = "row" =>
                        k # e /\ edits'[k] = edits[k]
  BY <1>1, <1>2
<1> SUFFICES ASSUME NothingFailed' PROVE DifferByWorkUnderWay'
  BY DEF MirrorInv
<1>4. DifferByWorkUnderWay
  BY <1>1 DEF MirrorInv, NothingFailed
<1>5. \A k \in Edit : \A other :
        HalfDone(k, other) => HalfDone(k, other)' /\ edits'[k] = edits[k]
  BY <1>3 DEF HalfDone
<1>6. \A other \in DOMAIN rows' : RowMirrors(other)'
  BY <1>1, <1>4, <1>5 DEF DifferByWorkUnderWay, RowMirrors
<1>7. EditsMirror'
  BY <1>1, <1>3, <1>4 DEF DifferByWorkUnderWay, EditsMirror
<1> QED
  BY <1>1, <1>4, <1>6, <1>7 DEF DifferByWorkUnderWay

LEMMA EditAtProviderMirror ==
  ASSUME MirrorInv, RegistrationInv', NEW e \in Edit, EditAtProvider(e)
  PROVE  MirrorInv'
<1> DEFINE id == edits[e].id
           alone == \A other \in Edit : ~HalfDone(other, id)
<1>1. /\ edits[e].step = "provider" /\ edits \in [Edit -> EditRequest]
      /\ issued \in Seq(Issue)
      /\ UNCHANGED <<rows, registrar, registrationErrors, registrationCrashes>>
      /\ id \in DOMAIN rows /\ id \in DOMAIN issued
  BY DEF EditAtProvider, faultVars, MirrorInv, RegistrationInv, RegistrationTypeOK,
         EditRequest, EditsOfRows, Issue
<1>2. issued[id] \in Issue /\ edits[e] \in EditRequest
  BY <1>1
<1>3. ~crossed' => ~crossed /\ alone
  BY DEF EditAtProvider, HalfDone
<1>4. /\ edits' = [edits EXCEPT ![e].step = IF ~issued[id].deleted THEN "row" ELSE "done"]
      /\ issued' = IF issued[id].deleted THEN issued
                   ELSE IF edits[e].op = "delete" THEN [issued EXCEPT ![id].deleted = TRUE]
                   ELSE [issued EXCEPT ![id].uri = edits[e].uri]
  BY DEF EditAtProvider
<1>5. \A k \in Edit \ {e} : edits'[k] = edits[k]
  BY <1>1, <1>4
<1>6. /\ edits'[e].id = id /\ edits'[e].op = edits[e].op /\ edits'[e].uri = edits[e].uri
      /\ edits'[e].step = IF ~issued[id].deleted THEN "row" ELSE "done"
  BY <1>1, <1>2, <1>4 DEF EditRequest
<1>7. /\ DOMAIN issued' = DOMAIN issued
      /\ \A other \in DOMAIN issued \ {id} : issued'[other] = issued[other]
  BY EditedIssue DEF MirrorInv
<1>8. /\ issued[id].deleted => issued'[id] = issued[id]
      /\ ~issued[id].deleted /\ edits[e].op = "delete" =>
           issued'[id].deleted /\ issued'[id].uri = issued[id].uri
      /\ ~issued[id].deleted /\ edits[e].op = "update" =>
           ~issued'[id].deleted /\ issued'[id].uri = edits[e].uri
  <2>1. CASE issued[id].deleted
    BY <1>4, <2>1
  <2>2. CASE ~issued[id].deleted /\ edits[e].op = "delete"
    <3>1. issued' = [issued EXCEPT ![id].deleted = TRUE]
      BY <1>4, <2>2
    <3> QED
      BY <1>1, <1>2, <2>2, <3>1 DEF Issue
  <2>3. CASE ~issued[id].deleted /\ edits[e].op = "update"
    <3>1. issued' = [issued EXCEPT ![id].uri = edits[e].uri]
      BY <1>4, <2>3
    <3> QED
      BY <1>1, <1>2, <2>3, <3>1 DEF Issue
  <2> QED
    BY <2>1, <2>2, <2>3
<1>9. edits[e].op \in {"update", "delete"}
  BY <1>2 DEF EditRequest
<1> SUFFICES ASSUME NothingFailed' PROVE DifferByWorkUnderWay'
  BY DEF MirrorInv
<1>10. DifferByWorkUnderWay
  BY <1>1 DEF MirrorInv, NothingFailed
<1> HIDE DEF id, alone
<1>11. \A k \in Edit \ {e} : \A other : HalfDone(k, other)' <=> HalfDone(k, other)
  BY <1>5 DEF HalfDone
<1>12. \A other : ~HalfDone(e, other)
  BY <1>1 DEF HalfDone
<1>13. \A other : other = id /\ ~issued[id].deleted => HalfDone(e, other)'
  BY <1>6 DEF HalfDone
<1>14. ASSUME NEW other \in DOMAIN rows' PROVE RowMirrors(other)'
  <2>1. RowMirrors(other)
    BY <1>1, <1>10, <1>14 DEF DifferByWorkUnderWay
  <2>2. \A k \in Edit : HalfDone(k, other) => HalfDone(k, other)' /\ edits'[k] = edits[k]
    BY <1>5, <1>11, <1>12
  <2>3. CASE other # id \/ issued[id].deleted
    <3>1. issued'[other] = issued[other]
      BY <1>1, <1>7, <1>8, <1>14, <2>3 DEF MirrorInv, RegistrationInv, RegistrationTypeOK
    <3> QED
      BY <1>1, <1>3, <2>1, <2>2, <3>1 DEF RowMirrors
  <2>4. CASE other = id /\ ~issued[id].deleted /\ edits[e].op = "delete"
    <3>1. ~crossed' => rows[id].uri = issued[id].uri
      BY <1>3, <2>1, <2>4 DEF RowMirrors, alone
    <3> QED
      BY <1>1, <1>6, <1>8, <1>13, <2>4, <3>1 DEF RowMirrors
  <2>5. CASE other = id /\ ~issued[id].deleted /\ edits[e].op = "update"
    BY <1>1, <1>6, <1>8, <1>13, <2>1, <2>5 DEF RowMirrors
  <2> QED
    BY <1>9, <2>3, <2>4, <2>5
<1>15. ASSUME NEW k \in Edit, edits'[k].step = "row"
       PROVE  /\ edits'[k].op = "delete" => issued'[edits'[k].id].deleted
              /\ ~crossed' /\ edits'[k].op = "update" =>
                   issued'[edits'[k].id].uri = edits'[k].uri
  <2>1. CASE k = e
    BY <1>6, <1>8, <1>15, <2>1
  <2>2. CASE k # e
    <3>1. edits'[k] = edits[k] /\ edits[k].step = "row"
      BY <1>5, <1>15, <2>2
    <3>2. /\ edits[k].op = "delete" => issued[edits[k].id].deleted
          /\ ~crossed /\ edits[k].op = "update" => issued[edits[k].id].uri = edits[k].uri
      BY <1>10, <3>1 DEF DifferByWorkUnderWay, EditsMirror
    <3>3. edits[k].id \in DOMAIN issued
      BY <3>1 DEF MirrorInv, RegistrationInv, RegistrationTypeOK, EditsOfRows
    <3>4. issued[edits[k].id].deleted => issued'[edits[k].id].deleted
      BY <1>7, <1>8, <3>3
    <3>5. ~crossed' => edits[k].id # id
      BY <1>3, <3>1 DEF alone, HalfDone
    <3> QED
      BY <1>3, <1>7, <3>1, <3>2, <3>3, <3>4, <3>5
  <2> QED
    BY <2>1, <2>2
<1>16. ASSUME ~crossed', NEW k \in Edit, NEW other \in Edit,
              edits'[k].step = "row", edits'[other].step = "row",
              edits'[k].id = edits'[other].id
       PROVE  k = other
  <2>1. CASE k # e /\ other # e
    <3>1. edits'[k] = edits[k] /\ edits'[other] = edits[other] /\ ~crossed
      BY <1>3, <1>5, <1>16, <2>1
    <3> QED
      BY <1>10, <1>16, <3>1 DEF DifferByWorkUnderWay, EditsMirror
  <2>2. CASE k = e /\ other # e
    <3>1. HalfDone(other, id)
      BY <1>5, <1>6, <1>16, <2>2 DEF HalfDone
    <3> QED
      BY <1>3, <1>16, <3>1 DEF alone
  <2>3. CASE k # e /\ other = e
    <3>1. HalfDone(k, id)
      BY <1>5, <1>6, <1>16, <2>3 DEF HalfDone
    <3> QED
      BY <1>3, <1>16, <3>1 DEF alone
  <2> QED
    BY <2>1, <2>2, <2>3
<1>17. \A other \in DOMAIN issued' :
        other \in DOMAIN rows'
          \/ (registrar'.job # NoRegistration /\ registrar'.step = "save"
                /\ registrar'.id = other)
  BY <1>1, <1>7, <1>10 DEF DifferByWorkUnderWay
<1>18. EditsMirror'
  BY <1>15, <1>16 DEF EditsMirror
<1> QED
  BY <1>14, <1>17, <1>18 DEF DifferByWorkUnderWay

LEMMA EditRowMirror ==
  ASSUME MirrorInv, RegistrationInv', NEW e \in Edit, EditRow(e)
  PROVE  MirrorInv'
<1> DEFINE id == edits[e].id
<1>1. /\ edits[e].step = "row" /\ edits \in [Edit -> EditRequest]
      /\ edits' = [edits EXCEPT ![e].step = "done"]
      /\ UNCHANGED <<issued, registrar, crossed, registrationErrors, registrationCrashes>>
  BY DEF EditRow, faultVars, MirrorInv, RegistrationInv, RegistrationTypeOK, EditRequest
<1>2. edits'[e].step = "done" /\ \A k \in Edit \ {e} : edits'[k] = edits[k]
  BY <1>1 DEF EditRequest
<1>3. /\ id \in DOMAIN rows /\ DOMAIN rows' = DOMAIN rows
      /\ \A other \in DOMAIN rows \ {id} : rows'[other] = rows[other]
      /\ rows'[id] = IF edits[e].op = "delete" THEN [rows[id] EXCEPT !.deleted = TRUE]
                     ELSE [rows[id] EXCEPT !.uri = edits[e].uri]
  BY EditedRow DEF MirrorInv
<1>4. rows[id] \in Webhook /\ edits[e].op \in {"update", "delete"}
  BY <1>1, <1>3 DEF MirrorInv, RegistrationInv, RegistrationTypeOK, EditRequest
<1>5. /\ edits[e].op = "delete" => rows'[id].deleted = TRUE /\ rows'[id].uri = rows[id].uri
      /\ edits[e].op = "update" =>
           rows'[id].deleted = rows[id].deleted /\ rows'[id].uri = edits[e].uri
  BY <1>3, <1>4 DEF Webhook
<1> SUFFICES ASSUME NothingFailed' PROVE DifferByWorkUnderWay'
  BY DEF MirrorInv
<1>6. DifferByWorkUnderWay
  BY <1>1 DEF MirrorInv, NothingFailed
<1>7. /\ edits[e].op = "delete" => issued[id].deleted
      /\ ~crossed /\ edits[e].op = "update" => issued[id].uri = edits[e].uri
      /\ ~crossed => \A k \in Edit : HalfDone(k, id) => k = e
  BY <1>1, <1>6 DEF DifferByWorkUnderWay, EditsMirror, HalfDone
<1> HIDE DEF id
<1>8. \A k \in Edit : \A other :
        k # e /\ HalfDone(k, other) => HalfDone(k, other)' /\ edits'[k] = edits[k]
  BY <1>2 DEF HalfDone
<1>9. \A other : HalfDone(e, other) => other = id
  BY DEF HalfDone, id
<1>10. ASSUME NEW other \in DOMAIN rows' PROVE RowMirrors(other)'
  <2>1. RowMirrors(other)
    BY <1>3, <1>6, <1>10 DEF DifferByWorkUnderWay
  <2>2. CASE other # id
    BY <1>1, <1>3, <1>8, <1>9, <2>1, <2>2 DEF RowMirrors
  <2>3. CASE other = id /\ edits[e].op = "delete"
    BY <1>1, <1>5, <1>7, <2>1, <2>3 DEF RowMirrors
  <2>4. CASE other = id /\ edits[e].op = "update"
    BY <1>1, <1>5, <1>7, <1>8, <2>1, <2>4 DEF RowMirrors
  <2> QED
    BY <1>4, <2>2, <2>3, <2>4
<1>11. \A k \in Edit : edits'[k].step = "row" => k # e /\ edits'[k] = edits[k]
  BY <1>2
<1>12. EditsMirror'
  BY <1>1, <1>6, <1>11 DEF DifferByWorkUnderWay, EditsMirror
<1> QED
  BY <1>1, <1>3, <1>6, <1>10, <1>12 DEF DifferByWorkUnderWay

LEMMA MirrorNextInv == MirrorInv /\ [RegistrationNext]_registrationVars => MirrorInv'
<1> SUFFICES ASSUME MirrorInv, [RegistrationNext]_registrationVars PROVE MirrorInv'
  OBVIOUS
<1>1. RegistrationInv /\ RegistrationInv'
  BY RegistrationNextInv DEF MirrorInv
<1>2. CASE \/ \E r \in Registration : TakeRegistration(r)
           \/ \E r \in Registration, job \in RegisterWebhookJob : RegisterWebhook(r, job)
           \/ RegistrationRefused \/ EnqueueSuccess
           \/ (\E id \in ExternalId : TakeNotification(id)) \/ Notify
           \/ RegistrationQueues \/ UNCHANGED registrationVars
  BY <1>1, <1>2, QuietSteps
<1>3. CASE RegisterAtProvider \/ SaveWebhook
  BY <1>1, <1>3, RegisterAtProviderMirror, SaveWebhookMirror
<1>4. CASE ErrorIsSwallowed \/ NotificationFails \/ RegistrationCrash
           \/ \E e \in Edit : EditFails(e)
  <2>1. Error \/ RegistrationCrash
    BY <1>4 DEF ErrorIsSwallowed, NotificationFails, EditFails
  <2> QED
    BY <1>1, <2>1, FailureExcuses
<1>5. CASE \/ \E e \in Edit : EditAtProvider(e)
           \/ \E e \in Edit : EditRow(e)
           \/ \E e \in Edit, id \in ExternalId : StartEdit(e, id)
  BY <1>1, <1>5, EditAtProviderMirror, EditRowMirror, StartEditMirror
<1> QED
  BY <1>2, <1>3, <1>4, <1>5, RegistrationSteps

\* One POST leaves one registration at the provider and one more for each worker that
\* died on it, whatever errors occurred; at rest, if nothing failed, the table lists
\* what the provider has, however DELETEs and PATCHes raced.
THEOREM TableMirrorsProvider == RegistrationSpec => []RowsMirrorProvider
<1>1. MirrorInv => RowsMirrorProvider
  <2> SUFFICES ASSUME MirrorInv PROVE RowsMirrorProvider
    OBVIOUS
  <2>1. \A r \in Registration :
          Cardinality({id \in DOMAIN issued : issued[id].by = r}) <= 1 + registrationCrashes
    BY DEF MirrorInv, RegistrationInv, RunsCounted, Counted, IssuedTo
  <2>2. ASSUME RegistrationAtRest, NothingFailed
        PROVE  /\ DOMAIN rows = DOMAIN issued
               /\ \A id \in DOMAIN rows :
                    /\ rows[id].deleted = issued[id].deleted
                    /\ ~crossed /\ ~rows[id].deleted => rows[id].uri = issued[id].uri
    <3>1. registrar.job = NoRegistration
      BY <2>2 DEF MirrorInv, RegistrationInv, RegistrationTypeOK, WorkersHold,
                  RegistrationAtRest
    <3>2. \A e \in Edit : \A id : ~HalfDone(e, id)
      BY <2>2 DEF RegistrationAtRest, HalfDone
    <3>3. DifferByWorkUnderWay /\ DOMAIN rows \subseteq DOMAIN issued
      BY <2>2 DEF MirrorInv, RegistrationInv, RegistrationTypeOK
    <3>4. DOMAIN rows = DOMAIN issued
      BY <3>1, <3>3 DEF DifferByWorkUnderWay
    <3>5. ASSUME NEW id \in DOMAIN rows
          PROVE  /\ rows[id].deleted = issued[id].deleted
                 /\ ~crossed => rows[id].uri = issued[id].uri
      <4>1. RowMirrors(id)
        BY <3>3 DEF DifferByWorkUnderWay
      <4>2. rows[id] \in Webhook /\ issued[id] \in Issue
        <5>1. issued \in Seq(Issue) /\ \A k \in DOMAIN rows : rows[k] \in Webhook
          BY DEF MirrorInv, RegistrationInv, RegistrationTypeOK, Issue
        <5> QED
          BY <3>4, <5>1
      <4>3. rows[id].deleted \in BOOLEAN /\ issued[id].deleted \in BOOLEAN
        BY <4>2 DEF Webhook, Issue
      <4> QED
        BY <3>2, <4>1, <4>3 DEF RowMirrors
    <3> QED
      BY <3>4, <3>5
  <2> QED
    BY <2>1, <2>2 DEF RowsMirrorProvider
<1> QED
  BY <1>1, MirrorInitInv, MirrorNextInv, PTL DEF RegistrationSpec

-----------------------------------------------------------------------------
(* The four components side by side: a step of one leaves the others alone. *)

\* The state of each component is well-formed, whatever its operations, its failures
\* and its restarts have left in it.
THEOREM IntegrationsTypesCorrect == MCSpec => []IntegrationsTypeOK
<1>1. MCInit => BoletoInit /\ SessionInit /\ RegistrationInit /\ LoginInit
  BY DEF MCInit
<1>2. [MCNext]_mcVars => /\ [BoletoNext]_boletoVars /\ [SessionNext]_sessionVars
                         /\ [RegistrationNext]_registrationVars /\ [LoginNext]_loginVars
  BY DEF MCNext, mcVars
<1>3. BoletoTypeOK /\ SessionTypeOK /\ RegistrationTypeOK /\ LoginTypeOK => IntegrationsTypeOK
  BY DEF IntegrationsTypeOK
<1> QED
  BY <1>1, <1>2, <1>3, BoletoTypeCorrect, SessionTypeCorrect, RegistrationTypesCorrect,
     LoginTypesCorrect, PTL
  DEF MCSpec, BoletoSpec, SessionSpec, RegistrationSpec, LoginSpec

\* All the safety the components' own theorems establish, of the system they are parts of.
IntegrationsInvariants ==
  /\ IntegrationsTypeOK
  /\ BoletoRowWasTrue
  /\ BoletoSettled
  /\ ExpiryOnlyOnOwnToken
  /\ RowsMirrorProvider
  /\ ClientsAreTold
  /\ PaymentsActForTheirClient
  /\ LoginFailsOnlyByOverlap

\* Every safety property the integrations run checks holds of the components side by
\* side, for every value of the constants, and the provider calls among their steps keep
\* their promise.
THEOREM IntegrationsCorrect == MCSpec => []IntegrationsInvariants /\ CallsKeepPromise
<1>1. MCInit => BoletoInit /\ SessionInit /\ RegistrationInit /\ LoginInit
  BY DEF MCInit
<1>2. [MCNext]_mcVars => /\ [BoletoNext]_boletoVars /\ [SessionNext]_sessionVars
                         /\ [RegistrationNext]_registrationVars /\ [LoginNext]_loginVars
  BY DEF MCNext, mcVars
<1>3. MCSpec => BoletoSpec /\ SessionSpec /\ RegistrationSpec /\ LoginSpec
  BY <1>1, <1>2, PTL DEF MCSpec, BoletoSpec, SessionSpec, RegistrationSpec, LoginSpec
<1>4. IntegrationsTypeOK /\ BoletoRowWasTrue /\ BoletoSettled /\ ExpiryOnlyOnOwnToken
        /\ RowsMirrorProvider /\ ClientsAreTold /\ PaymentsActForTheirClient
        /\ LoginFailsOnlyByOverlap => IntegrationsInvariants
  BY DEF IntegrationsInvariants
<1> QED
  BY <1>3, <1>4, IntegrationsTypesCorrect, RowsWereTrue, TransactionsTellTheEnd,
     RefusedOnOwnTokenOnly, TableMirrorsProvider, ToldOncePerWebhook, PaidFromOwnAccount,
     LoginsFailByOverlap, ImplementsProviderCall, PTL
=============================================================================
