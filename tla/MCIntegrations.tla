--------------------------- MODULE MCIntegrations ---------------------------
(***************************************************************************)
(* Instances for TLC of the components that act at the provider on the     *)
(* application's initiative: boletos, the shared back-office session, the  *)
(* registration of webhooks, and bank logins with the account payments are *)
(* made for.  They share no state, so each behaviour looks at one of them, *)
(* chosen at the start; the others stay in their initial state.            *)
(***************************************************************************)
EXTENDS BoletoLifecycle, ProviderSession, WebhookRegistration, BankLogin

VARIABLE scenario

Scenario == {"boleto", "session", "registration", "login"}

MCAccountLists == {<<>>, <<"x">>, <<"x", "y">>}

AnyEdit ==
  [step |-> "idle", op |-> "update", id |-> NoId, uri |-> CHOOSE u \in Uri : TRUE]
AnyClient == CHOOSE c \in Client : TRUE

MCInit ==
  /\ scenario \in Scenario
  /\ BoletoInit
  /\ SessionInit
  /\ RegistrationInit
  /\ scenario # "registration" => edits = [e \in Edit |-> AnyEdit]
  /\ LoginInit
  /\ scenario # "login" => bankLogins = [l \in Login |-> IdleLogin(AnyClient)]

MCNext ==
  \/ /\ scenario = "boleto"
     /\ BoletoNext
     /\ UNCHANGED <<scenario, sessionVars, registrationVars, loginVars>>
  \/ /\ scenario = "session"
     /\ SessionNext
     /\ UNCHANGED <<scenario, boletoVars, registrationVars, loginVars>>
  \/ /\ scenario = "registration"
     /\ RegistrationNext
     /\ UNCHANGED <<scenario, boletoVars, sessionVars, loginVars>>
  \/ /\ scenario = "login"
     /\ LoginNext
     /\ UNCHANGED <<scenario, boletoVars, sessionVars, registrationVars>>

mcVars == <<scenario, boletoVars, sessionVars, registrationVars, loginVars>>

MCSpec ==
  /\ MCInit
  /\ [][MCNext]_mcVars
  /\ BoletoFairness
  /\ SessionFairness
  /\ RegistrationFairness

\* The state of each component is well-formed, whatever its operations, its
\* failures and its restarts have left in it.
IntegrationsTypeOK == BoletoTypeOK /\ SessionTypeOK /\ RegistrationTypeOK /\ LoginTypeOK
=============================================================================
