------------------------- MODULE TransactionListing -------------------------
(***************************************************************************)
(* A client goes through its transactions page by page                     *)
(* (transaction.service.ts findAll, common/base-query) while payments are  *)
(* made and change state.  Nothing ties one page to the next but the page  *)
(* number; the rows of a page, their count and the payments they belong to *)
(* are read by three queries, and anything happens between them.           *)
(*                                                                         *)
(* Pages are sorted by createdAt, either way round: rows created in the    *)
(* same instant come in an order of the database's own, a new one for each *)
(* query.  No transaction is ever deleted.                                 *)
(***************************************************************************)
EXTENDS WebhookStateMachine, Naturals, Sequences, FiniteSets

CONSTANTS
  MaxTransactions,     \* bounds the rows of the account
  MaxPaymentVersions,  \* bounds the changes of each payment
  StatusSeen,          \* the detailed statuses that transactions take here
  Queries,             \* the queries that are tried
  MaxLimit             \* MAX_LIMIT of executeQuery and of BaseQueryDto

TransactionSemanticStatus == {"PROCESSING", "SUCCESS", "FAILED", "REFUNDED"}
NotAsked == "not asked"

GetTransactionsQuery ==
  [limit : 1 .. MaxLimit + 1, sortOrder : {"ASC", "DESC"},
   status : TransactionSemanticStatus \cup {NotAsked},
   detailedStatus : StatusSeen \cup {NotAsked}]

ASSUME StatusSeenAssumption == StatusSeen \subseteq TransactionStatus
ASSUME ListingBoundsAssumption ==
  MaxTransactions \in Nat /\ MaxPaymentVersions \in Nat \ {0}
ASSUME MaxLimitAssumption == MaxLimit \in Nat \ {0}
ASSUME QueriesAssumption == Queries \subseteq GetTransactionsQuery

VARIABLES
  ledger,      \* the account's transactions, oldest first
  payments,    \* version of the payment row of each
  query,       \* the query parameters, the same for all pages
  page,        \* the page that is asked for
  listStep,
  pageRows,    \* the rows of the page, as they were read
  listed,      \* transactions the client has been shown, with what it saw
  matching,    \* those that have matched from the first page on
  someLeft     \* a transaction stopped matching meanwhile

ledgerVars == <<ledger, payments>>
listVars == <<query, page, listStep, pageRows, listed>>
listingVars == <<ledgerVars, listVars, matching, someLeft>>

Transaction ==
  [createdAt : 1 .. MaxTransactions, status : StatusSeen, version : 1 .. MaxPaymentVersions]
Summary ==
  [id : 1 .. MaxTransactions, status : TransactionSemanticStatus,
   version : 1 .. MaxPaymentVersions, details : 1 .. MaxPaymentVersions]

ListingTypeOK ==
  /\ ledger \in Seq(Transaction) /\ Len(ledger) <= MaxTransactions
  /\ payments \in [DOMAIN ledger -> 1 .. MaxPaymentVersions]
  /\ query \in Queries
  /\ page \in 1 .. MaxTransactions + 1
  /\ listStep \in {"asked", "rows read", "counted", "over", "refused"}
  /\ pageRows \in Seq([id : DOMAIN ledger, row : Transaction])
  /\ listed \in SUBSET Summary
  /\ matching \in SUBSET DOMAIN ledger
  /\ someLeft \in BOOLEAN

-----------------------------------------------------------------------------
(* Status filters: two switches that have to be each other's inverse. *)

GetSemanticStatus(status) ==
  CASE status \in {"CREATED", "PENDING", "IN_PROCESS", "REFUND_PENDING"} -> "PROCESSING"
    [] status = "DONE" -> "SUCCESS"
    [] status \in {"UNDONE", "CANCELED", "FAILED", "REPROVED"} -> "FAILED"
    [] status = "REFUNDED" -> "REFUNDED"

GetDetailedStatuses(semanticStatus) ==
  CASE semanticStatus = "PROCESSING" -> {"CREATED", "PENDING", "IN_PROCESS", "REFUND_PENDING"}
    [] semanticStatus = "SUCCESS" -> {"DONE"}
    [] semanticStatus = "FAILED" -> {"UNDONE", "CANCELED", "FAILED", "REPROVED"}
    [] semanticStatus = "REFUNDED" -> {"REFUNDED"}

\* The filters are joined by AND, contradictory ones included.
BuildFilters(row) ==
  /\ query.detailedStatus # NotAsked => row.status = query.detailedStatus
  /\ query.status # NotAsked => row.status \in GetDetailedStatuses(query.status)

Matches(rows) == {id \in DOMAIN rows : BuildFilters(rows[id])}

ListingInit ==
  /\ ledger = <<>>
  /\ payments = <<>>
  /\ query \in Queries
  /\ page = 1
  /\ listStep = "asked"
  /\ pageRows = <<>>
  /\ listed = {}
  /\ matching = {}
  /\ someLeft = FALSE

-----------------------------------------------------------------------------
(* Payments. *)

\* What the listing has to show by now, before and after a change of the ledger.
Started == page > 1 \/ listStep # "asked"
Follow(rows) ==
  IF Started
  THEN /\ matching' = matching \cap Matches(rows)
       /\ someLeft' = (someLeft \/ Matches(ledger) \ Matches(rows) # {})
  ELSE /\ matching' = Matches(rows)
       /\ UNCHANGED someLeft

NewestInstant == IF ledger = <<>> THEN 1 ELSE ledger[Len(ledger)].createdAt

\* createFromWebhook: the payment's row was saved before.
CreateFromWebhook ==
  /\ Len(ledger) < MaxTransactions
  /\ \E status \in StatusSeen, createdAt \in {NewestInstant, Len(ledger) + 1} :
       ledger' = Append(ledger, [createdAt |-> createdAt, status |-> status, version |-> 1])
  /\ payments' = Append(payments, 1)
  /\ Follow(ledger')
  /\ UNCHANGED listVars

SavePayment(id) ==
  /\ payments[id] < MaxPaymentVersions
  /\ payments' = [payments EXCEPT ![id] = @ + 1]
  /\ UNCHANGED <<ledger, listVars, matching, someLeft>>

\* updateStatus, updateFromWebhook: after the payment's row.
UpdateStatus(id) ==
  /\ ledger[id].version < payments[id]
  /\ \E status \in StatusSeen :
       ledger' = [ledger EXCEPT ![id] =
         [createdAt |-> @.createdAt, status |-> status, version |-> payments[id]]]
  /\ Follow(ledger')
  /\ UNCHANGED <<payments, listVars>>

-----------------------------------------------------------------------------
(* One page. *)

\* The validation pipe refuses a limit above the maximum.
RefuseQuery ==
  /\ listStep = "asked"
  /\ query.limit > MaxLimit
  /\ listStep' = "refused"
  /\ UNCHANGED <<ledgerVars, query, page, pageRows, listed, matching, someLeft>>

\* The rows that match, in an order the database may sort them in.
SortedRows ==
  {rows \in [1 .. Cardinality(Matches(ledger)) -> Matches(ledger)] :
     \A i, j \in DOMAIN rows :
       i < j => /\ rows[i] # rows[j]
                /\ IF query.sortOrder = "ASC"
                   THEN ledger[rows[i]].createdAt <= ledger[rows[j]].createdAt
                   ELSE ledger[rows[i]].createdAt >= ledger[rows[j]].createdAt}

Skip == (page - 1) * query.limit
Lower(a, b) == IF a < b THEN a ELSE b

ExecuteQuery ==
  /\ listStep = "asked"
  /\ query.limit <= MaxLimit
  /\ \E rows \in SortedRows :
       LET ids == SubSeq(rows, Skip + 1, Lower(Skip + query.limit, Len(rows)))
       IN  pageRows' = [i \in DOMAIN ids |-> [id |-> ids[i], row |-> ledger[ids[i]]]]
  /\ listStep' = "rows read"
  /\ UNCHANGED <<ledgerVars, query, page, listed, matching, someLeft>>

FullPages == Cardinality(Matches(ledger)) \div query.limit  \* variant: rounded down
TotalPages == (Cardinality(Matches(ledger)) + query.limit - 1) \div query.limit

\* meta.hasNextPage, of a count made after the rows were read; it decides whether
\* the client asks for another page.
CountRows ==
  /\ listStep = "rows read"
  /\ listStep' = IF page < TotalPages THEN "counted" ELSE "over"
  /\ UNCHANGED <<ledgerVars, query, page, pageRows, listed, matching, someLeft>>

HydrateTransactionRelations ==
  /\ pageRows # <<>>
  /\ listStep \in {"counted", "over"}
  /\ listed' = listed \cup
       {[id |-> pageRows[i].id, status |-> GetSemanticStatus(pageRows[i].row.status),
         version |-> pageRows[i].row.version, details |-> payments[pageRows[i].id]] :
        i \in DOMAIN pageRows}
  /\ pageRows' = <<>>
  /\ UNCHANGED <<ledgerVars, query, page, listStep, matching, someLeft>>

NextPage ==
  /\ listStep = "counted"
  /\ pageRows = <<>>
  /\ page <= MaxTransactions
  /\ page' = page + 1
  /\ listStep' = "asked"
  /\ UNCHANGED <<ledgerVars, query, pageRows, listed, matching, someLeft>>

ListingNext ==
  \/ CreateFromWebhook
  \/ \E id \in DOMAIN ledger : SavePayment(id) \/ UpdateStatus(id)
  \/ RefuseQuery \/ ExecuteQuery \/ CountRows \/ HydrateTransactionRelations \/ NextPage

ListingSpec == ListingInit /\ [][ListingNext]_listingVars

-----------------------------------------------------------------------------
(* Correctness. *)

Ties == \E i, j \in DOMAIN ledger : i # j /\ ledger[i].createdAt = ledger[j].createdAt

\* Whatever is inserted between the pages, in front of them or behind, a client
\* that goes on while there is a next page is shown every transaction that has
\* matched all the time: only transactions that stop matching, or share their
\* instant with others, make it miss one.  What it is shown under a status has
\* that status, with details that are no older.
ListingsMissNothing ==
  /\ listStep = "over" /\ pageRows = <<>> /\ ~someLeft /\ ~Ties =>
       \A id \in matching : \E seen \in listed : seen.id = id
  /\ \A seen \in listed :
       /\ query.status # NotAsked => seen.status = query.status
       /\ seen.version <= seen.details
=============================================================================
