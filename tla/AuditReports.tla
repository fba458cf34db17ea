---------------------------- MODULE AuditReports ----------------------------
(***************************************************************************)
(* What is read from the audit log: the ten-minute check for suspicious    *)
(* activity (audit-alert.service.ts over the counting queries of           *)
(* audit-log.repository.ts) and the dashboard's statistics.                *)
(*                                                                         *)
(* The check counts the entries of a sliding window, grouped by more than  *)
(* what it reports on, and adds the groups up.  A run of it that fails, or *)
(* whose instant passes while the process is down, is not made up for.     *)
(*                                                                         *)
(* Left out: the checks for failed logins, deletions and password changes, *)
(* because no operation is audited under those actions.  Hours, actions    *)
(* and entity types are counted alike, so actions stand for all three.     *)
(***************************************************************************)
EXTENDS Integers, Sequences, FiniteSets, FiniteSetsExt

CONSTANTS
  IpAddress, AuditedUser, Action,
  CheckInterval,         \* of the cron job, in units of time
  Window,                \* how far a check looks back
  UnauthorizedAccessThreshold, ActivityThreshold,
  TopLimit,              \* length of the dashboard's lists
  MaxTime, MaxLogged     \* bounds

ASSUME AuditTimesAssumption ==
  CheckInterval \in Nat \ {0} /\ Window \in Nat /\ Window >= CheckInterval
ASSUME ThresholdsAssumption ==
  UnauthorizedAccessThreshold \in Nat \ {0} /\ ActivityThreshold \in Nat \ {0}
ASSUME TopLimitAssumption == TopLimit \in Nat
ASSUME ReportBoundsAssumption == MaxTime \in Nat /\ MaxLogged \in Nat

VARIABLES
  trail,       \* the audit log, oldest first
  clock,
  nextCheck,   \* when the job runs next
  alerts,      \* whom it has warned about
  skipped      \* a run of it failed, or was missed

reportVars == <<trail, clock, nextCheck, alerts, skipped>>

Nobody == "nobody"
ASSUME NobodyAssumption == Nobody \notin AuditedUser

AuditLog ==
  [ipAddress : IpAddress, userId : AuditedUser \cup {Nobody}, action : Action,
   failed : BOOLEAN, denied : BOOLEAN, createdAt : 0 .. MaxTime]
Subject == [type : {"UNAUTHORIZED_ACCESS"}, by : {"ip"}, of : IpAddress]
             \cup [type : {"UNAUTHORIZED_ACCESS", "UNUSUAL_ACTIVITY"}, by : {"user"},
                   of : AuditedUser]

ReportTypeOK ==
  /\ trail \in Seq(AuditLog) /\ Len(trail) <= MaxLogged
  /\ clock \in 0 .. MaxTime
  /\ nextCheck \in 0 .. MaxTime + CheckInterval
  /\ alerts \in SUBSET Subject
  /\ skipped \in BOOLEAN

ReportInit ==
  /\ trail = <<>>
  /\ clock = 0
  /\ nextCheck = CheckInterval
  /\ alerts = {}
  /\ skipped = FALSE

-----------------------------------------------------------------------------
(* The counting queries: one row per group of entries. *)

Since(dateFrom) == {i \in DOMAIN trail : trail[i].createdAt >= dateFrom}

\* Grouped by address, user and message; only the messages that speak of an
\* access denied are kept.
Denials(logs) == {i \in logs : trail[i].failed /\ trail[i].denied}
CountUnauthorizedAccesses(dateFrom) ==
  LET denials == Denials(Since(dateFrom))
  IN  {[ipAddress |-> trail[i].ipAddress, userId |-> trail[i].userId,
        count |-> Cardinality({j \in denials : /\ trail[j].ipAddress = trail[i].ipAddress
                                               /\ trail[j].userId = trail[i].userId})] :
       i \in denials}

CountAllActivity(dateFrom) ==
  LET ofUsers == {i \in Since(dateFrom) : trail[i].userId # Nobody}
  IN  {[userId |-> trail[i].userId, action |-> trail[i].action,
        count |-> Cardinality({j \in ofUsers : /\ trail[j].userId = trail[i].userId
                                               /\ trail[j].action = trail[i].action})] :
       i \in ofUsers}

LargestGroup(groups) == Max({0} \cup {group.count : group \in groups})  \* variant: not summed
\* The sum of the groups' counts, as the number of pairs of a group and a number
\* up to its count.
TotalOf(groups) == Cardinality(UNION {{group} \X (1 .. group.count) : group \in groups})

DetectUnauthorizedAccess(now) ==
  LET groups == CountUnauthorizedAccesses(now - Window)
      Reaches(ofSubject) == TotalOf(ofSubject) >= UnauthorizedAccessThreshold
  IN  {[type |-> "UNAUTHORIZED_ACCESS", by |-> "ip", of |-> ip] :
         ip \in {a \in IpAddress : Reaches({g \in groups : g.ipAddress = a})}}
      \cup
      {[type |-> "UNAUTHORIZED_ACCESS", by |-> "user", of |-> user] :
         user \in {u \in AuditedUser : Reaches({g \in groups : g.userId = u})}}

DetectUnusualActivity(now) ==
  LET groups == CountAllActivity(now - Window)
  IN  {[type |-> "UNUSUAL_ACTIVITY", by |-> "user", of |-> user] :
         user \in {u \in AuditedUser :
                     TotalOf({g \in groups : g.userId = u}) >= ActivityThreshold}}

-----------------------------------------------------------------------------
LogOne ==
  /\ Len(trail) < MaxLogged
  /\ \E ip \in IpAddress, user \in AuditedUser \cup {Nobody}, action \in Action,
        failed, denied \in BOOLEAN :
       /\ denied => failed
       /\ trail' = Append(trail, [ipAddress |-> ip, userId |-> user, action |-> action,
                                  failed |-> failed, denied |-> denied,
                                  createdAt |-> clock])
  /\ UNCHANGED <<clock, nextCheck, alerts, skipped>>

CheckSuspiciousActivities ==
  /\ clock = nextCheck
  /\ nextCheck' = nextCheck + CheckInterval
  /\ alerts' = alerts \cup DetectUnauthorizedAccess(clock) \cup DetectUnusualActivity(clock)
  /\ UNCHANGED <<trail, clock, skipped>>

\* A query throws, or nobody is there to run the job.
CheckIsSkipped ==
  /\ clock = nextCheck
  /\ nextCheck' = nextCheck + CheckInterval
  /\ skipped' = TRUE
  /\ UNCHANGED <<trail, clock, alerts>>

TimePasses ==
  /\ clock < MaxTime
  /\ clock < nextCheck
  /\ clock' = clock + 1
  /\ UNCHANGED <<trail, nextCheck, alerts, skipped>>

ReportNext == LogOne \/ CheckSuspiciousActivities \/ CheckIsSkipped \/ TimePasses

ReportSpec == ReportInit /\ [][ReportNext]_reportVars

-----------------------------------------------------------------------------
(* The dashboard, from all entries of the period asked for. *)

Period(startDate, endDate) ==
  {i \in DOMAIN trail : startDate <= trail[i].createdAt /\ trail[i].createdAt <= endDate}

SuccessLogs(logs) == {i \in logs : ~trail[i].failed}
FailureLogs(logs) == {i \in logs : trail[i].failed}

GroupActionsByType(logs) ==
  [action \in {trail[i].action : i \in logs} |->
     Cardinality({i \in logs : trail[i].action = action})]

UserCounts(logs) ==
  {[userId |-> user, count |-> Cardinality({i \in logs : trail[i].userId = user})] :
     user \in {trail[i].userId : i \in logs} \ {Nobody}}

\* The sort leaves users of equal counts in an order of its own.
Sorted(counts) ==
  CHOOSE users \in [1 .. Cardinality(counts) -> counts] :
    /\ \A user \in counts : \E i \in DOMAIN users : users[i] = user
    /\ \A i, j \in DOMAIN users : i < j => users[i].count >= users[j].count
AnyOrder(counts) ==
  CHOOSE users \in [1 .. Cardinality(counts) -> counts] :
    \A user \in counts : \E i \in DOMAIN users : users[i] = user

TakeFirst(users) == SubSeq(users, 1, Min({TopLimit, Len(users)}))
TopWithoutSorting(logs) == TakeFirst(AnyOrder(UserCounts(logs)))  \* variant: in any order
GetTopUsers(logs) == TakeFirst(Sorted(UserCounts(logs)))

-----------------------------------------------------------------------------
(* Correctness. *)

\* Entries from one address or of one user, close enough together.
Burst(logs, of) ==
  {i \in logs : /\ trail[i].createdAt >= of
                /\ trail[i].createdAt <= of + Window - CheckInterval}

\* A burst that fits into the window less one interval is warned of, wherever it
\* falls between two runs of the check and over however many users, addresses,
\* messages and actions it is spread, unless a run was skipped.
BurstsAreReported ==
  ~skipped =>
    \A from \in 0 .. clock : from + Window < nextCheck =>
      LET denials == Denials(Burst(DOMAIN trail, from))
      IN  /\ \A ip \in IpAddress :
               Cardinality({i \in denials : trail[i].ipAddress = ip})
                 >= UnauthorizedAccessThreshold =>
                   [type |-> "UNAUTHORIZED_ACCESS", by |-> "ip", of |-> ip] \in alerts
          /\ \A user \in AuditedUser :
               /\ Cardinality({i \in denials : trail[i].userId = user})
                    >= UnauthorizedAccessThreshold =>
                      [type |-> "UNAUTHORIZED_ACCESS", by |-> "user", of |-> user] \in alerts
               /\ Cardinality({i \in Burst(DOMAIN trail, from) : trail[i].userId = user})
                    >= ActivityThreshold =>
                      [type |-> "UNUSUAL_ACTIVITY", by |-> "user", of |-> user] \in alerts

\* The dashboard's figures agree with each other: successes and failures, and the
\* counts by action, each add up to the total, and nobody who is not among the top
\* users did more than somebody who is.
DashboardAddsUp ==
  \A startDate \in 0 .. clock :
    LET logs == Period(startDate, clock)
        byType == GroupActionsByType(logs)
        types == {[action |-> action, count |-> byType[action]] : action \in DOMAIN byType}
        top == GetTopUsers(logs)
        listedUsers == {top[i].userId : i \in DOMAIN top}
    IN  /\ Cardinality(logs) = Cardinality(SuccessLogs(logs)) + Cardinality(FailureLogs(logs))
        /\ Cardinality(logs) = TotalOf(types)
        /\ \A i \in DOMAIN top : \A other \in UserCounts(logs) :
             other.userId \notin listedUsers => other.count <= top[i].count
        /\ Len(top) = Min({TopLimit, Cardinality(UserCounts(logs))})
=============================================================================
