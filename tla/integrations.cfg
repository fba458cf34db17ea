SPECIFICATION MCSpec
CONSTANTS
  BoletoReader = {"r1"}
  MaxBoletoFaults = 1
  Caller = {"a", "b"}
  MaxSessionFaults = 1
  Registration = {"w1"}
  Uri = {"u1", "u2"}
  Edit = {"e1", "e2"}
  MaxRegistrationErrors = 1
  MaxRegistrationCrashes = 1
  Client = {"A", "B"}
  BankAccount = {"x", "y"}
  Login = {"l1", "l2"}
  Payment = {"p1"}
  MaxLoginFaults = 1
  AccountLists <- MCAccountLists
INVARIANTS
  IntegrationsTypeOK
  BoletoRowWasTrue
  BoletoSettled
  ExpiryOnlyOnOwnToken
  RowsMirrorProvider
  ClientsAreTold
  PaymentsActForTheirClient
  LoginFailsOnlyByOverlap
PROPERTIES
  BoletoReadsCatchUp
  CallsKeepPromise
  EveryCallEnds
  RegistrationsEnd
CHECK_DEADLOCK FALSE
