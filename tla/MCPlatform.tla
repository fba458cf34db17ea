----------------------------- MODULE MCPlatform -----------------------------
(***************************************************************************)
(* Instances for TLC of the components around the payments: the client     *)
(* permissions and their cache, the audit trail and its reports, the       *)
(* transaction listing, the back-office users, the reception of webhooks,  *)
(* the application's log, PIX QR codes, and the dates of boletos.  They    *)
(* share no state, so each behaviour looks at one of them, chosen at the   *)
(* start; the others stay in one initial state.                            *)
(***************************************************************************)
EXTENDS ClientPermissions, AuditTrail, TransactionListing, AuditReports,
        BackofficeUsers, WebhookIntake, ApplicationLog, PixQrCodes, BoletoDates

VARIABLE scenario

Scenario == {"permissions", "audit", "listing", "reports", "users", "intake", "log",
             "qr", "dates"}

MCScopeLists == {{}, {"p", "q"}}

Query(limit, sortOrder, status, detailedStatus) ==
  [limit |-> limit, sortOrder |-> sortOrder, status |-> status,
   detailedStatus |-> detailedStatus]
\* By group of statuses, by one status, by none, and with groups that exclude
\* each other; the last limit is above the maximum.
MCQueries ==
  {Query(1, "DESC", "PROCESSING", NotAsked), Query(1, "ASC", NotAsked, "DONE"),
   Query(2, "DESC", NotAsked, NotAsked), Query(3, "DESC", NotAsked, NotAsked),
   Query(2, "DESC", "SUCCESS", "PENDING")}

MCKeyOwner == [k1 |-> "A", k2 |-> "B"]
NoticeOf(id, code, envelope) == [id |-> id, code |-> code, envelope |-> envelope]
MCPosting ==
  \* A batch of any event, one of its notices without a code.
  [r1 |-> {[publicKey |-> "k1", event |-> e,
            notices |-> <<NoticeOf("i1", "c1", "e1"), NoticeOf("i2", "", "e2")>>] :
             e \in WebhookEvent},
   \* A second request, by which its notice may come again, with the key of
   \* either client.
   r2 |-> {[publicKey |-> k, event |-> e, notices |-> <<NoticeOf(i, "c1", "e1")>>] :
             k \in PublicKey, i \in {"i1", "i2"},
             e \in {"TED_CASH_OUT_WAS_DONE", "TED_CASH_OUT_WAS_UNDONE",
                    "PIX_CASH_IN_WAS_CLEARED"}}]

MCMessageLevel == [m1 |-> "warn"]

\* The state of a component that is not looked at.
OneOf(S) == CHOOSE x \in S : TRUE
NoRequests == [r \in Request |-> [step |-> "arrives", by |-> "internal", bearer |-> TRUE,
                                  outcome |-> "none"]]
OneQuery == OneOf(Queries)
OneSetting == OneOf(Settings)
NothingAsked == [q \in QrRequest |-> [conciliationId |-> NoId, step |-> "no"]]
OneDraft == OneOf(CreateBoletoDto)

MCInit ==
  /\ scenario \in Scenario
  /\ PermissionInit
  /\ scenario # "permissions" => grants = {} /\ ~hasRole /\ roleGrants = {}
  /\ AuditInit
  /\ scenario # "audit" => requests = NoRequests
  /\ ListingInit
  /\ scenario # "listing" => query = OneQuery
  /\ ReportInit
  /\ UserInit
  /\ IntakeInit
  /\ ApplicationInit
  /\ scenario # "log" => settings = OneSetting
  /\ QrInit
  /\ scenario # "qr" => asked = NothingAsked
  /\ DatesInit
  /\ scenario # "dates" => draft = OneDraft

StillUnless(s, vars) == IF scenario = s THEN TRUE ELSE UNCHANGED vars

MCNext ==
  /\ UNCHANGED scenario
  /\ \/ scenario = "permissions" /\ PermissionNext
     \/ scenario = "audit" /\ AuditNext
     \/ scenario = "listing" /\ ListingNext
     \/ scenario = "reports" /\ ReportNext
     \/ scenario = "users" /\ UserNext
     \/ scenario = "intake" /\ IntakeNext
     \/ scenario = "log" /\ ApplicationNext
     \/ scenario = "qr" /\ QrNext
     \/ scenario = "dates" /\ DatesNext
  /\ StillUnless("permissions", permissionVars)
  /\ StillUnless("audit", auditVars)
  /\ StillUnless("listing", listingVars)
  /\ StillUnless("reports", reportVars)
  /\ StillUnless("users", userVars)
  /\ StillUnless("intake", intakeVars)
  /\ StillUnless("log", applicationVars)
  /\ StillUnless("qr", qrVars)
  /\ StillUnless("dates", draft)

mcVars == <<scenario, permissionVars, auditVars, listingVars, reportVars, userVars,
            intakeVars, applicationVars, qrVars, draft>>

MCSpec == MCInit /\ [][MCNext]_mcVars

\* The state of each component is well-formed, whatever its operations, its
\* failures and its restarts have left in it.
PlatformTypeOK ==
  /\ PermissionTypeOK
  /\ AuditTypeOK
  /\ ListingTypeOK
  /\ ReportTypeOK
  /\ UserTypeOK
  /\ IntakeTypeOK
  /\ ApplicationTypeOK
  /\ QrTypeOK
=============================================================================
