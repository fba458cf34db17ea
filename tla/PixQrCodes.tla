----------------------------- MODULE PixQrCodes -----------------------------
(***************************************************************************)
(* PIX keys and QR codes (pix.service.ts, pix-webhook.service.ts): keys    *)
(* are kept by the provider alone; a QR code is issued by the provider,    *)
(* saved by the request that asked for it, and found again by conciliation *)
(* id when its PIX_QRCODE_WAS_CREATED arrives, which inserts the row that  *)
(* it misses, or when a payment of it does, which marks the row PAID.      *)
(*                                                                         *)
(* The request saves the conciliation id its caller chose, if any; the one *)
(* the provider gives a code that was asked for without is not kept.       *)
(* Nothing makes conciliation ids unique: requests of one client or of     *)
(* several may choose the same, and rows are looked up by id alone.        *)
(* Queries of keys and codes change nothing and are left out, and so are   *)
(* webhooks that are delivered twice (WebhookProcessor has them).          *)
(***************************************************************************)
EXTENDS Naturals, Sequences, FiniteSets

CONSTANTS
  PixKey,         \* keys a client wants
  ContactKey,     \* those that are an EMAIL or a PHONE
  QrRequest,      \* requests for a QR code
  ConciliationId, \* conciliation ids the callers choose from
  MaxQrFaults     \* bounds lost answers, failed writes and crashes

NoId == ""

\* The ids the provider makes up are no other code's.
ASSUME QrAssumption ==
  /\ ContactKey \subseteq PixKey
  /\ IsFiniteSet(QrRequest)
  /\ QrRequest \cap ConciliationId = {}
  /\ NoId \notin QrRequest \cup ConciliationId
  /\ MaxQrFaults \in Nat

VARIABLES
  pixKeys,    \* the keys registered at the provider
  totps,      \* contact keys the provider has sent a code for
  asked,      \* each request for a QR code: the id it comes with, its progress
  codes,      \* the QR codes of the provider: not issued, issued, paid
  qrRows,     \* the pix_qr_codes table, in order of insertion
  notices,    \* webhook jobs in the queue
  qrWorker,   \* the worker of the queue
  overtaken,  \* codes whose notice was looked up before the request saved its row
  early,      \* codes whose payment's notice was looked up before the creation's was handled
  qrFaults

keyVars == <<pixKeys, totps>>
qrVars == <<keyVars, asked, codes, qrRows, notices, qrWorker, overtaken, early, qrFaults>>

PixQrCodeStatus == {"CREATED", "PAID"}  \* EXPIRED is never given
\* code: the request whose code the row's encodedValue is.
QrRow == [conciliationId : QrRequest \cup ConciliationId \cup {NoId}, code : QrRequest,
          status : PixQrCodeStatus]
QrNotice == [of : QrRequest, event : {"created", "received"}]
NoRow == 0
Idle == [step |-> "idle"]

QrAsked == [conciliationId : ConciliationId \cup {NoId},
            step : {"no", "issuing", "saving", "saved", "failed"}]

\* The id of a code at the provider; without one asked for, an id of its own.
IdOf(q) == IF asked[q].conciliationId = NoId THEN q ELSE asked[q].conciliationId

QrTypeOK ==
  /\ pixKeys \subseteq PixKey
  /\ totps \subseteq ContactKey
  /\ asked \in [QrRequest -> QrAsked]
  /\ codes \in [QrRequest -> {"none", "issued", "paid"}]
  /\ qrRows \in Seq(QrRow)
  /\ notices \subseteq QrNotice
  /\ qrWorker # Idle => /\ qrWorker.step \in {"find", "save"}
                        /\ qrWorker.notice \in QrNotice
                        /\ qrWorker.row \in {NoRow} \cup DOMAIN qrRows
  /\ overtaken \subseteq QrRequest
  /\ early \subseteq QrRequest
  /\ qrFaults \in 0 .. MaxQrFaults

QrInit ==
  /\ pixKeys = {}
  /\ totps = {}
  /\ asked \in [QrRequest -> [conciliationId : ConciliationId \cup {NoId}, step : {"no"}]]
  /\ codes = [q \in QrRequest |-> "none"]
  /\ qrRows = <<>>
  /\ notices = {}
  /\ qrWorker = Idle
  /\ overtaken = {}
  /\ early = {}
  /\ qrFaults = 0

QrFault ==
  /\ qrFaults < MaxQrFaults
  /\ qrFaults' = qrFaults + 1

-----------------------------------------------------------------------------
(* Keys. *)

GenerateTotpCode(k) ==
  /\ k \in ContactKey
  /\ totps' = totps \cup {k}
  /\ UNCHANGED <<pixKeys, asked, codes, qrRows, notices, qrWorker, overtaken, early, qrFaults>>

\* The provider takes a contact key only with the code it sent.
RegisterPixKey(k) ==
  /\ k \notin pixKeys
  /\ k \in ContactKey => k \in totps
  /\ pixKeys' = pixKeys \cup {k}
  /\ totps' = totps \ {k}
  /\ UNCHANGED <<asked, codes, qrRows, notices, qrWorker, overtaken, early, qrFaults>>

DeletePixKey(k) ==
  /\ k \in pixKeys
  /\ pixKeys' = pixKeys \ {k}
  /\ UNCHANGED <<totps, asked, codes, qrRows, notices, qrWorker, overtaken, early, qrFaults>>

-----------------------------------------------------------------------------
(* generateStaticQrCode, generateDynamicQrCode, and the provider. *)

GenerateQrCode(q) ==
  /\ asked[q].step = "no"
  /\ asked' = [asked EXCEPT ![q].step = "issuing"]
  /\ UNCHANGED <<keyVars, codes, qrRows, notices, qrWorker, overtaken, early, qrFaults>>

\* A code is issued for a registered key; its notice is on its way before the
\* answer is, which may be lost.
IssueQrCode(q) ==
  /\ asked[q].step = "issuing"
  /\ pixKeys # {}
  /\ codes' = [codes EXCEPT ![q] = "issued"]
  /\ notices' = notices \cup {[of |-> q, event |-> "created"]}
  /\ \/ asked' = [asked EXCEPT ![q].step = "saving"] /\ UNCHANGED qrFaults
     \/ asked' = [asked EXCEPT ![q].step = "failed"] /\ QrFault
  /\ UNCHANGED <<keyVars, qrRows, qrWorker, overtaken, early>>

RefuseQrCode(q) ==
  /\ asked[q].step = "issuing"
  /\ asked' = [asked EXCEPT ![q].step = "failed"]
  /\ UNCHANGED <<keyVars, codes, qrRows, notices, qrWorker, overtaken, early, qrFaults>>

SaveQrCode(q) ==
  /\ asked[q].step = "saving"
  /\ \/ /\ asked' = [asked EXCEPT ![q].step = "saved"]
        /\ qrRows' = Append(qrRows, [conciliationId |-> asked[q].conciliationId, code |-> q,
                                     status |-> "CREATED"])
        /\ UNCHANGED qrFaults
     \/ /\ asked' = [asked EXCEPT ![q].step = "failed"]
        /\ QrFault
        /\ UNCHANGED qrRows
  /\ UNCHANGED <<keyVars, codes, notices, qrWorker, overtaken, early>>

\* The first payment of a code; a later one of a static code finds the row as it is left.
PayQrCode(q) ==
  /\ codes[q] = "issued"
  /\ codes' = [codes EXCEPT ![q] = "paid"]
  /\ notices' = notices \cup {[of |-> q, event |-> "received"]}
  /\ UNCHANGED <<keyVars, asked, qrRows, qrWorker, overtaken, early, qrFaults>>

-----------------------------------------------------------------------------
(* handleQrCodeCreated, and the part of handleCashInReceived that is about  *)
(* QR codes.  The account of a code is known: it asked for it.              *)

TakeQrNotice(notice) ==
  /\ qrWorker = Idle
  /\ notice \in notices
  /\ qrWorker' = [step |-> "find", notice |-> notice, row |-> NoRow]
  /\ UNCHANGED <<keyVars, asked, codes, qrRows, notices, overtaken, early, qrFaults>>

FindsNoRow(id) == {}  \* variant: the row is not looked for
RowsOf(id) == {i \in DOMAIN qrRows : qrRows[i].conciliationId = id}

\* findOne by conciliation id alone: any of the rows that have it, whoever's they are.
FindQrRow ==
  /\ qrWorker # Idle
  /\ qrWorker.step = "find"
  /\ LET q == qrWorker.notice.of
     IN  /\ \/ \E i \in RowsOf(IdOf(q)) :
                 qrWorker' = [qrWorker EXCEPT !.step = "save", !.row = i]
            \/ /\ RowsOf(IdOf(q)) = {}
               /\ qrWorker' = [qrWorker EXCEPT !.step = "save"]
         /\ overtaken' = IF qrWorker.notice.event = "created" /\ asked[q].step = "saving"
                         THEN overtaken \cup {q} ELSE overtaken
         /\ early' = IF /\ qrWorker.notice.event = "received"
                        /\ [of |-> q, event |-> "created"] \in notices
                     THEN early \cup {q} ELSE early
  /\ UNCHANGED <<keyVars, asked, codes, qrRows, notices, qrFaults>>

DoneWith(notice) ==
  /\ notices' = notices \ {notice}
  /\ qrWorker' = Idle

\* A row that is found gets the code of the notice, whichever it had.
SaveCreated(q) ==
  IF qrWorker.row # NoRow
    THEN [qrRows EXCEPT ![qrWorker.row].code = q, ![qrWorker.row].status = "CREATED"]
    ELSE Append(qrRows, [conciliationId |-> IdOf(q), code |-> q, status |-> "CREATED"])

LinkOnly(row) == qrRows  \* variant: the code is linked, not marked
MarkPaid(row) == IF row # NoRow THEN [qrRows EXCEPT ![row].status = "PAID"] ELSE qrRows

RowsSaved == IF qrWorker.notice.event = "created" THEN SaveCreated(qrWorker.notice.of)
             ELSE MarkPaid(qrWorker.row)

SaveQrRow ==
  /\ qrWorker # Idle
  /\ qrWorker.step = "save"
  /\ qrRows' = RowsSaved
  /\ DoneWith(qrWorker.notice)
  /\ UNCHANGED <<keyVars, asked, codes, overtaken, early, qrFaults>>

\* A write fails or the process dies, before or after the row is saved: the job is
\* taken again until its attempts are used up.  An existing cash-in is then skipped
\* before the code is looked for.
QrNoticeFails ==
  /\ qrWorker # Idle
  /\ QrFault
  /\ qrWorker' = Idle
  /\ \/ UNCHANGED qrRows
     \/ qrWorker.step = "save" /\ qrRows' = RowsSaved
  /\ \/ notices' = notices \ {qrWorker.notice}
     \/ qrWorker.notice.event = "created" /\ UNCHANGED notices
  /\ UNCHANGED <<keyVars, asked, codes, overtaken, early>>

QrNext ==
  \/ \E k \in PixKey : GenerateTotpCode(k) \/ RegisterPixKey(k) \/ DeletePixKey(k)
  \/ \E q \in QrRequest :
       GenerateQrCode(q) \/ IssueQrCode(q) \/ RefuseQrCode(q) \/ SaveQrCode(q) \/ PayQrCode(q)
  \/ \E notice \in notices : TakeQrNotice(notice)
  \/ FindQrRow \/ SaveQrRow \/ QrNoticeFails

QrSpec == QrInit /\ [][QrNext]_qrVars

-----------------------------------------------------------------------------
(* Correctness. *)

\* Another code has the same conciliation id.
Shared(q) == \E p \in QrRequest \ {q} : IdOf(p) = IdOf(q) /\ codes[p] # "none"
IssuedWith(id) == {q \in QrRequest : asked[q].conciliationId = id /\ codes[q] # "none"}

\* QR codes of a conciliation id have no more rows than they are, but for one that a notice
\* inserted before the request it overtook: one row for a code whose id no other has.
\* A code that was asked for without an id may have two, the request's and the notice's.
OneRowPerQrCode ==
  /\ \A id \in ConciliationId :
       Cardinality({i \in DOMAIN qrRows : qrRows[i].conciliationId = id}) <=
         Cardinality(IssuedWith(id)) + IF IssuedWith(id) \cap overtaken = {} THEN 0 ELSE 1
  /\ \A q \in QrRequest :
       asked[q].conciliationId = NoId =>
         Cardinality({i \in DOMAIN qrRows : qrRows[i].code = q}) <= 2

\* When nothing failed and all notices are handled, a paid code has a row that is
\* PAID, unless the notices of its creation and its payment were handled in the
\* wrong order (then the payment found no row to mark, or the creation took PAID back)
\* or another code has its conciliation id (then the row marked may be the other's, and
\* the other's creation may take PAID back).  A row is PAID only if a code with its
\* conciliation id was paid.
PaidQrCodesAreMarked ==
  /\ qrFaults = 0 /\ notices = {} =>
       \A q \in QrRequest :
         codes[q] = "paid" /\ q \notin early /\ ~Shared(q) =>
           \E i \in DOMAIN qrRows : qrRows[i].code = q /\ qrRows[i].status = "PAID"
  /\ \A i \in DOMAIN qrRows :
       qrRows[i].status = "PAID" =>
         \E q \in QrRequest : codes[q] = "paid" /\ IdOf(q) = qrRows[i].conciliationId
=============================================================================
