SPECIFICATION MCSpec
CONSTANTS
  Permission = {"p", "q"}
  ScopeLists <- MCScopeLists
  TimeToLive = 2
  MaxChanges = 2
  MaxPermissionFaults = 1
  Request = {"q1"}
  MaxAuditErrors = 1
  MaxAuditCrashes = 1
  MaxTransactions = 3
  MaxPaymentVersions = 2
  StatusSeen = {"PENDING", "DONE"}
  Queries <- MCQueries
  MaxLimit = 2
  IpAddress = {"ip1"}
  AuditedUser = {"u1", "u2"}
  Action = {"a1"}
  CheckInterval = 2
  Window = 3
  UnauthorizedAccessThreshold = 2
  ActivityThreshold = 3
  TopLimit = 1
  MaxTime = 4
  MaxLogged = 3
  UserClient = {"A", "B"}
  Email = {"e"}
  Password = {"p", "q"}
  LoginAttempt = {"t1"}
  GuardedCall = {"g1"}
  MaxUsers = 2
  MaxUserFaults = 1
  PublicKey = {"k1", "k2"}
  KeyOwner <- MCKeyOwner
  Post = {"r1", "r2"}
  Posting <- MCPosting
  HttpRequest = {"h1", "h2"}
  ServiceMessage = {"m1"}
  MessageLevel <- MCMessageLevel
  StartUpLike = {"h2"}
  MaxLogFaults = 1
  PixKey = {"k1"}
  ContactKey = {"k1"}
  QrRequest = {"q1", "q2"}
  ConciliationId = {"a"}
  MaxQrFaults = 1
  LastDay = 4
  Today = 1
INVARIANTS
  PlatformTypeOK
  OutOfDateOnlyByOverlap
  OutOfDateForTwoLifetimes
  EntriesTellWhatHappened
  ListingsMissNothing
  BurstsAreReported
  DashboardAddsUp
  RemovedUsersStayOut
  ReceivedEventsAreHandled
  AnswersAreLoggedOnce
  EntriesReachTheCloud
  OneRowPerQrCode
  PaidQrCodesAreMarked
  IssuedBoletosCanBeSaved
CHECK_DEADLOCK FALSE
