--------------------------- MODULE Platform_proofs ---------------------------
(***************************************************************************)
(* Proofs about the components around the payments, each for any values of *)
(* its constants.  Section by section:                                     *)
(*                                                                         *)
(*   dates      a boleto that passes the checks can be saved               *)
(*   users      a user whose removal has been answered stays out           *)
(*   QR codes   as many rows as codes, and paid codes are marked           *)
(*   reception  a received event reaches the handler of its kind           *)
(*   log        an answer leaves one entry, which is put once              *)
(*   audit      an entry tells what happened                               *)
(*   listing    paging misses nothing that matches all the time            *)
(*   reports    bursts are warned of, and the dashboard adds up            *)
(*   types      the state of every component is well-formed                *)
(*   together   all of this of the components side by side                 *)
(*                                                                         *)
(* The components share no state, so a section has an inductive invariant  *)
(* of its own, and the last ones take them together under MCSpec.          *)
(***************************************************************************)
EXTENDS MCPlatform, ClientPermissions_proofs, SequenceTheorems, FiniteSetTheorems,
        FunctionTheorems, TLAPS

-----------------------------------------------------------------------------
(* The dates of a boleto: what each check of boleto-validation.helper.ts lets  *)
(* through, in days.                                                           *)

LEMMA DaysOfDates ==
  ASSUME NEW date \in DateText
  PROVE  date.day \in Nat /\ date # NoDate
BY BoletoDatesAssumption DEF DateText, NoDate

\* Midnights and noons compare as their days do.
LEMMA HalfDays ==
  ASSUME NEW a \in Nat, NEW b \in Nat
  PROVE  /\ IsSameDay(2 * a, 2 * b) <=> a = b
         /\ IsSameDay(2 * a, 2 * b + 1) <=> a = b
         /\ DifferenceInDays(2 * a, 2 * b) >= 1 <=> b < a
<1>1. (2 * a) \div 2 = a /\ (2 * b) \div 2 = b /\ (2 * b + 1) \div 2 = b
  OBVIOUS
<1>2. a >= b => (2 * a - 2 * b) \div 2 = a - b
  OBVIOUS
<1>3. a < b => (2 * b - 2 * a) \div 2 = b - a
  OBVIOUS
<1> QED
  BY <1>1, <1>2, <1>3 DEF IsSameDay, DifferenceInDays

LEMMA DueDateChecked ==
  ASSUME NEW due \in DateText
  PROVE  ValidateDueDate(due) <=> CanParse(due) /\ Today < due.day
<1>1. due.day \in Nat /\ Today \in Nat
  BY DaysOfDates, BoletoDatesAssumption
<1>2. IsSameDay(2 * due.day, 2 * Today + 1) <=> due.day = Today
  BY <1>1, HalfDays
<1> QED
  BY <1>1, <1>2 DEF ValidateDueDate, ParseDateOnly, GetCurrentDate

LEMMA ClosePaymentChecked ==
  ASSUME NEW due \in DateText, NEW close \in DateText
  PROVE  ValidateClosePayment(due, close) <=> CanParse(close) /\ due.day < close.day
BY DaysOfDates, HalfDays DEF ValidateClosePayment, ParseDateOnly

LEMMA StartChecked ==
  ASSUME NEW due \in DateText, NEW begin \in DateText, NEW close \in DateText
  PROVE  ValidateInterestFineDates(due, begin, close) <=>
           CanParse(begin) /\ due.day < begin.day /\ begin.day < close.day
<1>1. due.day \in Nat /\ begin.day \in Nat /\ close.day \in Nat
  BY DaysOfDates
<1>2. /\ IsSameDay(2 * begin.day, 2 * due.day) <=> begin.day = due.day
      /\ IsSameDay(2 * begin.day, 2 * close.day) <=> begin.day = close.day
      /\ DifferenceInDays(2 * close.day, 2 * begin.day) >= 1 <=> begin.day < close.day
  BY <1>1, HalfDays
<1> QED
  BY <1>1, <1>2 DEF ValidateInterestFineDates, ParseDateOnly

\* That a discount ends before the boleto closes follows from the other checks.
LEMMA DiscountChecked ==
  ASSUME NEW due \in DateText, NEW limit \in DateText, NEW close \in DateText \cup {NoDate},
         Given(close) => due.day < close.day
  PROVE  ValidateDiscountDate(due, limit, close) <=> CanParse(limit) /\ limit.day < due.day
<1>1. due.day \in Nat /\ limit.day \in Nat
  BY DaysOfDates
<1>2. /\ IsSameDay(2 * limit.day, 2 * due.day) <=> limit.day = due.day
      /\ DifferenceInDays(2 * due.day, 2 * limit.day) >= 1 <=> limit.day < due.day
  BY <1>1, HalfDays
<1>3. Given(close) => close.day \in Nat
  BY DaysOfDates DEF Given
<1>4. limit.day < due.day => (Given(close) => 2 * limit.day <= 2 * close.day)
  BY <1>1, <1>3
<1> QED
  BY <1>1, <1>2, <1>4 DEF ValidateDiscountDate, ParseDateOnly

Drafted == draft \in CreateBoletoDto

LEMMA DraftsPass == Drafted => IssuedBoletosCanBeSaved
<1> SUFFICES ASSUME Drafted PROVE IssuedBoletosCanBeSaved
  OBVIOUS
<1> DEFINE checked == IF ~Given(draft.closePayment)
                      THEN [draft EXCEPT !.interest = NoDate, !.fine = NoDate] ELSE draft
           starts == {draft.interest, draft.fine} \ {NoDate}
<1>1. /\ draft.dueDate \in DateText
      /\ draft.closePayment \in DateText \cup {NoDate}
      /\ draft.interest \in DateText \cup {NoDate} /\ draft.fine \in DateText \cup {NoDate}
      /\ draft.discount \in DateText \cup {NoDate}
  BY DEF Drafted, CreateBoletoDto
<1>2. /\ checked.dueDate = draft.dueDate /\ checked.closePayment = draft.closePayment
      /\ checked.discount = draft.discount
      /\ {checked.interest, checked.fine} \ {NoDate} =
           IF Given(draft.closePayment) THEN starts ELSE {}
  BY DEF Drafted, CreateBoletoDto
<1> HIDE DEF checked, starts
<1>3. starts \subseteq DateText
  BY <1>1 DEF starts
<1>4. Given(draft.closePayment) => draft.closePayment \in DateText
  BY <1>1 DEF Given
<1>5. Given(draft.discount) => draft.discount \in DateText
  BY <1>1 DEF Given
<1>6. draft.dueDate # NoDate
  BY <1>1, DaysOfDates
<1>7. InOrder(checked) <=>
        /\ Today < draft.dueDate.day
        /\ Given(draft.discount) => draft.discount.day < draft.dueDate.day
        /\ Given(draft.closePayment) =>
             /\ draft.dueDate.day < draft.closePayment.day
             /\ \A begin \in starts :
                  draft.dueDate.day < begin.day /\ begin.day < draft.closePayment.day
  BY <1>2 DEF InOrder
<1>8. CanSaveEmitted(checked) <=>
        /\ CanParse(draft.dueDate)
        /\ Given(draft.discount) => CanParse(draft.discount)
        /\ Given(draft.closePayment) =>
             CanParse(draft.closePayment) /\ \A begin \in starts : CanParse(begin)
  <2>1. {checked.dueDate, checked.closePayment, checked.interest, checked.fine,
         checked.discount} \ {NoDate} =
          {draft.dueDate} \cup (IF Given(draft.discount) THEN {draft.discount} ELSE {})
            \cup (IF Given(draft.closePayment) THEN {draft.closePayment} \cup starts ELSE {})
    BY <1>2, <1>6 DEF Given
  <2> QED
    BY <2>1 DEF CanSaveEmitted
<1>9. ValidateBoletoDates(draft) <=>
        /\ CanParse(draft.dueDate) /\ Today < draft.dueDate.day
        /\ Given(draft.closePayment) =>
             /\ CanParse(draft.closePayment)
             /\ draft.dueDate.day < draft.closePayment.day
             /\ \A begin \in starts :
                  /\ CanParse(begin)
                  /\ draft.dueDate.day < begin.day /\ begin.day < draft.closePayment.day
        /\ Given(draft.discount) =>
             CanParse(draft.discount) /\ draft.discount.day < draft.dueDate.day
  <2>1. ValidateDueDate(draft.dueDate) <=> CanParse(draft.dueDate) /\ Today < draft.dueDate.day
    BY <1>1, DueDateChecked
  <2>2. Given(draft.closePayment) =>
          (ValidateClosePayment(draft.dueDate, draft.closePayment) <=>
             CanParse(draft.closePayment) /\ draft.dueDate.day < draft.closePayment.day)
    BY <1>1, <1>4, ClosePaymentChecked
  <2>3. Given(draft.closePayment) =>
          \A begin \in starts :
            ValidateInterestFineDates(draft.dueDate, begin, draft.closePayment) <=>
              /\ CanParse(begin)
              /\ draft.dueDate.day < begin.day /\ begin.day < draft.closePayment.day
    BY <1>1, <1>3, <1>4, StartChecked
  <2>4. Given(draft.discount) /\
        (Given(draft.closePayment) => draft.dueDate.day < draft.closePayment.day) =>
          (ValidateDiscountDate(draft.dueDate, draft.discount, draft.closePayment) <=>
             CanParse(draft.discount) /\ draft.discount.day < draft.dueDate.day)
    BY <1>1, <1>5, DiscountChecked
  <2> QED
    BY <2>1, <2>2, <2>3, <2>4 DEF ValidateBoletoDates, starts
<1> QED
  BY <1>7, <1>8, <1>9 DEF IssuedBoletosCanBeSaved, checked

\* Whatever dates a client asks for: the checks let a request through to the provider
\* exactly if its days are in order and createBoleto can save what the provider
\* issues, but for interest and fine without a closePayment, which nobody looks at.
THEOREM IssuedCanBeSaved == DatesSpec => []IssuedBoletosCanBeSaved
<1>1. DatesInit => Drafted
  BY DEF DatesInit, Drafted
<1>2. Drafted /\ [DatesNext]_draft => Drafted'
  BY DEF Drafted, DatesNext, CreateBoletoDto, DateText
<1> QED
  BY <1>1, <1>2, DraftsPass, PTL DEF DatesSpec

-----------------------------------------------------------------------------
(* The back-office users.  The invariant ties the three records of a removal        *)
(* together: whoever is gone has a row that is marked, the mark is never taken      *)
(* back, and what an attempt or a request remembers of the time it arrived is a     *)
(* part of what is gone now.  A login needs no more than the row it found; a        *)
(* request is refused because the mark is still there when it is checked.           *)

UserRowsOK == users \in Seq(User)

AttemptRecord == [step : {"idle", "compare", "granted", "refused"}, user : Nat,
                  valid : BOOLEAN, after : SUBSET Nat]
GuardedRecord == [step : {"idle", "guard", "accepted", "refused"}, user : Nat,
                  after : SUBSET Nat]
RecordsOK ==
  /\ attempts \in [LoginAttempt -> AttemptRecord]
  /\ guarded \in [GuardedCall -> GuardedRecord]

\* The operations under way name rows that exist, and values of the right kind.
UnderWayOK ==
  /\ creating.step = "hash" =>
       /\ creating.email \in Email
       /\ creating.clientId \in UserClient
       /\ creating.password \in Password
  /\ removing.step = "inactive" => removing.user \in Ids
  /\ resetting.step = "hash" => resetting.user \in Ids /\ resetting.password \in Password

Marked == {id \in Ids : users[id].deleted}
GoneAreMarked == gone \subseteq Marked
AttemptsOK ==
  \A a \in LoginAttempt :
    attempts[a].step \in {"compare", "granted"} => attempts[a].user \notin attempts[a].after
RequestsOK ==
  \A g \in GuardedCall :
    /\ guarded[g].after \subseteq gone
    /\ guarded[g].step = "accepted" => guarded[g].user \notin guarded[g].after

TokensOK == tokens \subseteq Nat

UserInv ==
  /\ UserRowsOK
  /\ RecordsOK
  /\ UnderWayOK
  /\ GoneAreMarked
  /\ AttemptsOK
  /\ RequestsOK

LEMMA UserInitInv == UserInit => UserInv
<1> SUFFICES ASSUME UserInit PROVE UserInv
  OBVIOUS
<1>1. UserRowsOK
  BY DEF UserInit, UserRowsOK
<1>2. IdleAttempt \in AttemptRecord /\ IdleGuarded \in GuardedRecord
  BY DEF IdleAttempt, AttemptRecord, IdleGuarded, GuardedRecord, NoUser
<1>3. RecordsOK
  BY <1>2 DEF UserInit, RecordsOK
<1>4. UnderWayOK
  BY DEF UserInit, UnderWayOK, NoCreation, NoRemoval, NoReset
<1>5. GoneAreMarked /\ AttemptsOK /\ RequestsOK
  BY DEF UserInit, GoneAreMarked, AttemptsOK, RequestsOK, IdleAttempt, IdleGuarded
<1> QED
  BY <1>1, <1>3, <1>4, <1>5 DEF UserInv

\* What a write to the rows must keep: their form, and the marks.
RowsKept ==
  /\ users' \in Seq(User)
  /\ Ids \subseteq Ids'
  /\ \A id \in Ids : users[id].deleted => users'[id].deleted

LEMMA MarksStay == ASSUME UserInv, RowsKept PROVE Marked \subseteq Marked'
BY DEF RowsKept, Marked, Ids

\* The rows of the table are users.
LEMMA RowsAreUsers == ASSUME UserInv, NEW id \in Ids PROVE users[id] \in User
BY DEF UserInv, UserRowsOK, Ids

\* One field of one row is changed, by an operation that takes no mark back.
LEMMA OneRowKept ==
  ASSUME UserInv, NEW id \in Ids, NEW row \in User, users' = [users EXCEPT ![id] = row],
         users[id].deleted => row.deleted
  PROVE  RowsKept
<1>1. users \in Seq(User)
  BY DEF UserInv, UserRowsOK
<1>2. id \in 1 .. Len(users) /\ Ids = 1 .. Len(users)
  BY <1>1 DEF Ids
<1>3. users' \in Seq(User) /\ DOMAIN users' = DOMAIN users
  BY <1>1, <1>2
<1>4. \A other \in Ids : users'[other] = IF other = id THEN row ELSE users[other]
  BY <1>1, <1>2
<1> QED
  BY <1>3, <1>4 DEF RowsKept, Ids

\* A step that touches only the rows and the operations under way.
LEMMA WriteKeepsUserInv ==
  ASSUME UserInv, RowsKept, UNCHANGED <<attempts, guarded>>, UnderWayOK',
         gone \subseteq gone', gone' \subseteq Marked'
  PROVE  UserInv'
<1>1. UserRowsOK' /\ RecordsOK'
  BY DEF RowsKept, UserRowsOK, RecordsOK, UserInv
<1>2. GoneAreMarked'
  BY DEF GoneAreMarked
<1>3. AttemptsOK'
  BY DEF UserInv, AttemptsOK
<1>4. RequestsOK'
  BY DEF UserInv, RequestsOK
<1> QED
  BY <1>1, <1>2, <1>3, <1>4 DEF UserInv

LEMMA GoneStayMarked ==
  ASSUME UserInv, RowsKept, gone' = gone
  PROVE  gone \subseteq gone' /\ gone' \subseteq Marked'
BY MarksStay DEF UserInv, GoneAreMarked

LEMMA CreationKeepsUserInv == ASSUME UserInv, CheckNewUser \/ InsertUser PROVE UserInv'
<1>1. CASE CheckNewUser
  <2>1. UNCHANGED <<users, attempts, guarded, removing, resetting, gone>>
    BY <1>1 DEF CheckNewUser
  <2>2. RowsKept
    BY <2>1 DEF RowsKept, UserInv, UserRowsOK, Ids
  <2>3. UnderWayOK'
    <3>1. /\ creating'.email \in Email
          /\ creating'.clientId \in UserClient
          /\ creating'.password \in Password
      BY <1>1 DEF CheckNewUser
    <3> QED
      BY <2>1, <3>1 DEF UserInv, UnderWayOK, Ids
  <2> QED
    BY <2>1, <2>2, <2>3, GoneStayMarked, WriteKeepsUserInv
<1>2. CASE InsertUser
  <2>1. UNCHANGED <<attempts, guarded, removing, resetting, gone>>
        /\ creating' = NoCreation /\ creating.step = "hash"
    BY <1>2 DEF InsertUser
  <2> DEFINE row == [email |-> creating.email, clientId |-> creating.clientId,
                     password |-> creating.password, status |-> "ACTIVE",
                     deleted |-> FALSE]
  <2>2. row \in User
    BY <2>1 DEF UserInv, UnderWayOK, User, StatusEnum
  <2>3. users' = users \/ users' = Append(users, row)
    BY <1>2 DEF InsertUser
  <2>4. users \in Seq(User)
    BY DEF UserInv, UserRowsOK
  <2> HIDE DEF row
  <2>5. RowsKept
    BY <2>2, <2>3, <2>4 DEF RowsKept, Ids
  <2>6. UnderWayOK'
    BY <2>1, <2>5 DEF UserInv, UnderWayOK, NoCreation, RowsKept
  <2> QED
    BY <2>1, <2>5, <2>6, GoneStayMarked, WriteKeepsUserInv
<1> QED
  BY <1>1, <1>2

LEMMA RemovalKeepsUserInv ==
  ASSUME UserInv,
         \/ \E id \in Ids : \E actor \in Ids \cup {InternalUser} : Deactivate(actor, id)
         \/ SoftDelete
         \/ RemovalFails
  PROVE  UserInv'
<1>1. ASSUME NEW id \in Ids, NEW actor, Deactivate(actor, id) PROVE UserInv'
  <2> DEFINE row == [users[id] EXCEPT !.status = "INACTIVE"]
  <2>1. /\ UNCHANGED <<attempts, guarded, creating, resetting, gone>>
        /\ users' = [users EXCEPT ![id] = row]
        /\ removing'.user = id
    BY <1>1 DEF Deactivate
  <2>2. row \in User /\ row.deleted = users[id].deleted
    BY RowsAreUsers DEF User, StatusEnum
  <2> HIDE DEF row
  <2>3. RowsKept
    BY <2>1, <2>2, OneRowKept
  <2>4. UnderWayOK'
    BY <2>1, <2>3 DEF UserInv, UnderWayOK, RowsKept
  <2> QED
    BY <2>1, <2>3, <2>4, GoneStayMarked, WriteKeepsUserInv
<1>2. CASE SoftDelete
  <2> DEFINE row == [users[removing.user] EXCEPT !.deleted = TRUE]
  <2>1. /\ UNCHANGED <<attempts, guarded, creating, resetting>>
        /\ users' = [users EXCEPT ![removing.user] = row]
        /\ gone' = gone \cup {removing.user}
        /\ removing' = NoRemoval
        /\ removing.user \in Ids
    BY <1>2 DEF SoftDelete, UserInv, UnderWayOK
  <2>2. row \in User /\ row.deleted = TRUE
    BY <2>1, RowsAreUsers DEF User
  <2> HIDE DEF row
  <2>3. RowsKept
    BY <2>1, <2>2, OneRowKept
  <2>4. UnderWayOK'
    BY <2>1, <2>3 DEF UserInv, UnderWayOK, RowsKept, NoRemoval
  <2>5. removing.user \in Marked'
    <3>1. users'[removing.user] = row
      BY <2>1 DEF UserInv, UserRowsOK, Ids
    <3> QED
      BY <2>1, <2>2, <2>3, <3>1 DEF Marked, RowsKept
  <2>6. gone \subseteq gone' /\ gone' \subseteq Marked'
    BY <2>1, <2>3, <2>5, MarksStay DEF UserInv, GoneAreMarked
  <2> QED
    BY <2>1, <2>3, <2>4, <2>6, WriteKeepsUserInv
<1>3. CASE RemovalFails
  <2>1. UNCHANGED <<users, attempts, guarded, creating, resetting, gone>>
        /\ removing' = NoRemoval
    BY <1>3 DEF RemovalFails
  <2>2. RowsKept
    BY <2>1 DEF RowsKept, UserInv, UserRowsOK, Ids
  <2>3. UnderWayOK'
    BY <2>1 DEF UserInv, UnderWayOK, NoRemoval, Ids
  <2> QED
    BY <2>1, <2>2, <2>3, GoneStayMarked, WriteKeepsUserInv
<1> QED
  BY <1>1, <1>2, <1>3

LEMMA ResetKeepsUserInv ==
  ASSUME UserInv, CheckSecretAnswer \/ UpdatePassword
  PROVE  UserInv'
<1>1. CASE CheckSecretAnswer
  <2>1. /\ UNCHANGED <<users, attempts, guarded, creating, removing, gone>>
        /\ resetting'.user \in Ids /\ resetting'.password \in Password
    BY <1>1 DEF CheckSecretAnswer
  <2>2. RowsKept
    BY <2>1 DEF RowsKept, UserInv, UserRowsOK, Ids
  <2>3. UnderWayOK'
    BY <2>1 DEF UserInv, UnderWayOK, Ids
  <2> QED
    BY <2>1, <2>2, <2>3, GoneStayMarked, WriteKeepsUserInv
<1>2. CASE UpdatePassword
  <2> DEFINE row == [users[resetting.user] EXCEPT !.password = resetting.password]
  <2>1. /\ UNCHANGED <<attempts, guarded, creating, removing, gone>>
        /\ users' = [users EXCEPT ![resetting.user] = row]
        /\ resetting' = NoReset
        /\ resetting.user \in Ids /\ resetting.password \in Password
    BY <1>2 DEF UpdatePassword, UserInv, UnderWayOK
  <2>2. row \in User /\ row.deleted = users[resetting.user].deleted
    BY <2>1, RowsAreUsers DEF User
  <2> HIDE DEF row
  <2>3. RowsKept
    BY <2>1, <2>2, OneRowKept
  <2>4. UnderWayOK'
    BY <2>1, <2>3 DEF UserInv, UnderWayOK, RowsKept, NoReset
  <2> QED
    BY <2>1, <2>3, <2>4, GoneStayMarked, WriteKeepsUserInv
<1> QED
  BY <1>1, <1>2

\* A login that changes its own record, the rows and the removals being as they were.
LEMMA AttemptKeepsUserInv ==
  ASSUME UserInv, NEW a \in LoginAttempt, NEW record \in AttemptRecord,
         attempts' = [attempts EXCEPT ![a] = record],
         record.step \in {"compare", "granted"} => record.user \notin record.after,
         UNCHANGED <<users, guarded, creating, removing, resetting, gone>>
  PROVE  UserInv'
<1>1. RecordsOK'
  BY DEF UserInv, RecordsOK
<1>2. UserRowsOK' /\ UnderWayOK' /\ GoneAreMarked' /\ RequestsOK'
  BY DEF UserInv, UserRowsOK, UnderWayOK, GoneAreMarked, Marked, RequestsOK, Ids
<1>3. \A b \in LoginAttempt : attempts'[b] = IF b = a THEN record ELSE attempts[b]
  BY DEF UserInv, RecordsOK
<1>4. AttemptsOK'
  BY <1>3 DEF UserInv, AttemptsOK
<1> QED
  BY <1>1, <1>2, <1>4 DEF UserInv

LEMMA GoneAreIds == UserInv => gone \subseteq Nat /\ Ids \subseteq Nat
BY DEF UserInv, GoneAreMarked, Marked, Ids, UserRowsOK

LEMMA LoginKeepsUserInv ==
  ASSUME UserInv, NEW a \in LoginAttempt, StartAttempt(a) \/ CompareAndSign(a)
  PROVE  UserInv'
<1>1. attempts[a] \in AttemptRecord
  BY DEF UserInv, RecordsOK
<1>2. CASE StartAttempt(a)
  <2>1. UNCHANGED <<users, guarded, creating, removing, resetting, gone>>
    BY <1>2 DEF StartAttempt
  <2>2. CASE attempts' = [attempts EXCEPT ![a].step = "refused"]
    <3> DEFINE record == [attempts[a] EXCEPT !.step = "refused"]
    <3>1. record \in AttemptRecord /\ record.step = "refused"
      BY <1>1 DEF AttemptRecord
    <3>2. attempts' = [attempts EXCEPT ![a] = record]
      BY <2>2
    <3> HIDE DEF record
    <3> QED
      BY <2>1, <3>1, <3>2, AttemptKeepsUserInv
  <2>3. ASSUME NEW email \in Email, NEW clientId \in UserClient, NEW password \in Password,
               NEW id \in FindByEmailAndClientId(email, clientId),
               attempts' = [attempts EXCEPT
                 ![a] = [step |-> "compare", user |-> id, after |-> gone,
                         valid |-> users[id].password = password]]
        PROVE  UserInv'
    <3> DEFINE record == [step |-> "compare", user |-> id, after |-> gone,
                          valid |-> users[id].password = password]
    <3>1. id \in Ids /\ ~users[id].deleted
      BY DEF FindByEmailAndClientId
    <3>2. id \notin gone
      BY <3>1 DEF UserInv, GoneAreMarked, Marked
    <3>3. record \in AttemptRecord /\ record.user \notin record.after
      BY <3>1, <3>2, GoneAreIds DEF AttemptRecord
    <3>4. attempts' = [attempts EXCEPT ![a] = record]
      BY <2>3
    <3> HIDE DEF record
    <3> QED
      BY <2>1, <3>3, <3>4, AttemptKeepsUserInv
  <2> QED
    BY <1>2, <2>2, <2>3 DEF StartAttempt
<1>3. CASE CompareAndSign(a)
  <2> DEFINE verdict == IF attempts[a].valid THEN "granted" ELSE "refused"
             record == [attempts[a] EXCEPT !.step = verdict]
  <2>1. UNCHANGED <<users, guarded, creating, removing, resetting, gone>>
        /\ attempts' = [attempts EXCEPT ![a] = record] /\ attempts[a].step = "compare"
    BY <1>3 DEF CompareAndSign
  <2>2. record \in AttemptRecord
    BY <1>1 DEF AttemptRecord
  <2>3. record.user = attempts[a].user /\ record.after = attempts[a].after
    BY <1>1 DEF AttemptRecord
  <2>4. record.user \notin record.after
    BY <2>1, <2>3 DEF UserInv, AttemptsOK
  <2> HIDE DEF record
  <2> QED
    BY <2>1, <2>2, <2>4, AttemptKeepsUserInv
<1> QED
  BY <1>2, <1>3

\* The same of a request.
LEMMA GuardedKeepsUserInv ==
  ASSUME UserInv, NEW g \in GuardedCall, NEW record \in GuardedRecord,
         guarded' = [guarded EXCEPT ![g] = record],
         record.after \subseteq gone,
         record.step = "accepted" => record.user \notin record.after,
         UNCHANGED <<users, attempts, creating, removing, resetting, gone>>
  PROVE  UserInv'
<1>1. RecordsOK'
  BY DEF UserInv, RecordsOK
<1>2. UserRowsOK' /\ UnderWayOK' /\ GoneAreMarked' /\ AttemptsOK'
  BY DEF UserInv, UserRowsOK, UnderWayOK, GoneAreMarked, Marked, AttemptsOK, Ids
<1>3. \A h \in GuardedCall : guarded'[h] = IF h = g THEN record ELSE guarded[h]
  BY DEF UserInv, RecordsOK
<1>4. RequestsOK'
  BY <1>3 DEF UserInv, RequestsOK
<1> QED
  BY <1>1, <1>2, <1>4 DEF UserInv

LEMMA RequestKeepsUserInv ==
  ASSUME UserInv, NEW g \in GuardedCall, RequestArrives(g) \/ ValidateToken(g),
         TokensOK
  PROVE  UserInv'
<1>1. guarded[g] \in GuardedRecord
  BY DEF UserInv, RecordsOK
<1>2. CASE RequestArrives(g)
  <2>1. UNCHANGED <<users, attempts, creating, removing, resetting, gone>>
    BY <1>2 DEF RequestArrives
  <2>2. PICK user \in tokens : guarded' = [guarded EXCEPT
                 ![g] = [step |-> "guard", user |-> user, after |-> gone]]
    BY <1>2 DEF RequestArrives
  <2> DEFINE record == [step |-> "guard", user |-> user, after |-> gone]
  <2>3. record \in GuardedRecord /\ record.after \subseteq gone /\ record.step = "guard"
    BY GoneAreIds DEF GuardedRecord, TokensOK
  <2>4. guarded' = [guarded EXCEPT ![g] = record]
    BY <2>2
  <2> HIDE DEF record
  <2> QED
    BY <2>1, <2>3, <2>4, GuardedKeepsUserInv
<1>3. CASE ValidateToken(g)
  <2> DEFINE verdict == IF users[guarded[g].user].deleted THEN "refused" ELSE "accepted"
             record == [guarded[g] EXCEPT !.step = verdict]
  <2>1. UNCHANGED <<users, attempts, creating, removing, resetting, gone>>
        /\ guarded' = [guarded EXCEPT ![g] = record]
    BY <1>3 DEF ValidateToken
  <2>2. record \in GuardedRecord
    BY <1>1 DEF GuardedRecord
  <2>3. /\ record.user = guarded[g].user
        /\ record.after = guarded[g].after
        /\ record.step = verdict
    BY <1>1 DEF GuardedRecord
  <2>4. record.after \subseteq gone
    BY <2>3 DEF UserInv, RequestsOK
  <2>5. record.step = "accepted" => record.user \notin record.after
    BY <2>3, <2>4 DEF UserInv, GoneAreMarked, Marked
  <2> HIDE DEF record
  <2> QED
    BY <2>1, <2>2, <2>4, <2>5, GuardedKeepsUserInv
<1> QED
  BY <1>2, <1>3

\* Only a login signs a token, for the user it found.
LEMMA TokensKept ==
  ASSUME UserInv, TokensOK, [UserNext]_userVars
  PROVE  TokensOK'
<1>1. CASE tokens' = tokens
  BY <1>1 DEF TokensOK
<1>2. ASSUME NEW a \in LoginAttempt, CompareAndSign(a) PROVE TokensOK'
  <2>1. attempts[a].user \in Nat
    BY DEF UserInv, RecordsOK, AttemptRecord
  <2> QED
    BY <1>2, <2>1 DEF CompareAndSign, TokensOK
<1> QED
  BY <1>1, <1>2 DEF UserNext, userVars, CheckNewUser, InsertUser, Deactivate, SoftDelete,
     RemovalFails, CheckSecretAnswer, UpdatePassword, StartAttempt, RequestArrives,
     ValidateToken

LEMMA UserNextInv == UserInv /\ TokensOK /\ [UserNext]_userVars => UserInv'
<1> SUFFICES ASSUME UserInv, TokensOK, [UserNext]_userVars PROVE UserInv'
  OBVIOUS
<1>1. CASE CheckNewUser \/ InsertUser
  BY <1>1, CreationKeepsUserInv
<1>2. CASE \/ \E id \in Ids : \E actor \in Ids \cup {InternalUser} : Deactivate(actor, id)
           \/ SoftDelete
           \/ RemovalFails
  BY <1>2, RemovalKeepsUserInv
<1>3. CASE CheckSecretAnswer \/ UpdatePassword
  BY <1>3, ResetKeepsUserInv
<1>4. CASE \E a \in LoginAttempt : StartAttempt(a) \/ CompareAndSign(a)
  BY <1>4, LoginKeepsUserInv
<1>5. CASE \E g \in GuardedCall : RequestArrives(g) \/ ValidateToken(g)
  BY <1>5, RequestKeepsUserInv
<1>6. CASE UNCHANGED userVars
  BY <1>6 DEF userVars, UserInv, UserRowsOK, RecordsOK, UnderWayOK, GoneAreMarked, Marked,
     AttemptsOK, RequestsOK, Ids
<1> QED
  BY <1>1, <1>2, <1>3, <1>4, <1>5, <1>6 DEF UserNext

\* In every state of every behaviour of UserSpec the marks, the removals answered
\* and what logins and requests remember of them agree.
THEOREM UserInvariance == UserSpec => [](UserInv /\ TokensOK)
<1>1. UserInit => TokensOK
  BY DEF UserInit, TokensOK
<1> QED
  BY <1>1, UserInitInv, UserNextInv, TokensKept, PTL DEF UserSpec

\* Once a removal has been answered, no login of that user that starts later is
\* granted and no request that arrives later is accepted (backoffice-user.service.ts,
\* backoffice-jwt.strategy.ts).
THEOREM RemovalsLast == UserSpec => []RemovedUsersStayOut
<1>1. UserInv => RemovedUsersStayOut
  BY DEF UserInv, AttemptsOK, RequestsOK, RemovedUsersStayOut
<1> QED
  BY <1>1, UserInvariance, PTL

-----------------------------------------------------------------------------
(* QR codes: the rows of each conciliation id, and the two notices of each code.  A  *)
(* request inserts one row; a notice inserts one only if it found none with its id,  *)
(* which needs a request that has the id to be still about to save (overtaken) or    *)
(* never to save, and no other to have saved.  A payment finds the row that the      *)
(* creation found or made, if that was handled first (else early), and no other code *)
(* takes that row over if none has its id.                                           *)

QrWorkerRecord == [step : {"find", "save"}, notice : QrNotice, row : Nat]
CreatedOf(q) == [of |-> q, event |-> "created"]
ReceivedOf(q) == [of |-> q, event |-> "received"]

QrRowsWith(q) == {i \in DOMAIN qrRows : qrRows[i].code = q}
HasPaidRow(q) == \E i \in QrRowsWith(q) : qrRows[i].status = "PAID"
SavedWith(id) == {q \in QrRequest : asked[q].conciliationId = id /\ asked[q].step = "saved"}

\* What the worker is about to write.
Inserting(id) ==
  /\ qrWorker # Idle
  /\ qrWorker.step = "save" /\ qrWorker.notice.event = "created" /\ qrWorker.row = NoRow
  /\ IdOf(qrWorker.notice.of) = id
Marking(q) ==
  /\ qrWorker # Idle
  /\ qrWorker.step = "save" /\ qrWorker.notice = ReceivedOf(q)

\* Notices are about codes that were issued, and paid.
NoticesFollow(q) ==
  /\ asked[q].step \in {"no", "issuing"} => codes[q] = "none"
  /\ asked[q].step \in {"saving", "saved"} => codes[q] # "none"
  /\ CreatedOf(q) \in notices => codes[q] # "none"
  /\ ReceivedOf(q) \in notices => codes[q] = "paid"

\* Whose row it is.
RowBelongs(row) ==
  /\ codes[row.code] # "none"
  /\ \/ row.conciliationId = IdOf(row.code)
     \/ row.conciliationId = NoId /\ asked[row.code].conciliationId = NoId
  /\ row.status = "PAID" =>
       \E q \in QrRequest : codes[q] = "paid" /\ IdOf(q) = row.conciliationId

\* A notice of a code with this id may have found no row although its request had not failed
\* to have it issued.
Overtook(id) ==
  \E q \in QrRequest : /\ asked[q].conciliationId = id /\ codes[q] # "none"
                       /\ q \in overtaken \/ asked[q].step = "failed"

\* The rows that requests and notices have inserted with an id that callers chose.
InsertedWith(id) ==
  /\ SavedWith(id) # {} => RowsOf(id) # {}
  /\ Cardinality(RowsOf(id)) <= Cardinality(SavedWith(id)) + IF Overtook(id) THEN 1 ELSE 0
  /\ Inserting(id) => Overtook(id) /\ Cardinality(RowsOf(id)) <= Cardinality(SavedWith(id))

\* Those of a code that was asked for without one.
ByRequest(q) == IF asked[q].step = "saved" THEN 1 ELSE 0
InsertedForOne(q) ==
  asked[q].conciliationId = NoId =>
    /\ Cardinality(QrRowsWith(q)) <= ByRequest(q) + IF RowsOf(q) = {} THEN 0 ELSE 1
    /\ Inserting(q) => RowsOf(q) = {}

\* Once its creation was handled, a code has a row that its payment will find.
CreationLeavesRow(q) ==
  qrFaults = 0 /\ codes[q] # "none" /\ CreatedOf(q) \notin notices => RowsOf(IdOf(q)) # {}

\* Unless they come early, payments are handled after the creation, and nothing takes
\* PAID back.
PaymentMarks(q) ==
  qrFaults = 0 /\ q \notin early /\ ~Shared(q) =>
    /\ Marking(q) => CreatedOf(q) \notin notices /\ qrWorker.row # NoRow
    /\ HasPaidRow(q) => CreatedOf(q) \notin notices
    /\ codes[q] = "paid" => ReceivedOf(q) \in notices \/ HasPaidRow(q)

QrOf(q) ==
  /\ NoticesFollow(q)
  /\ InsertedForOne(q)
  /\ CreationLeavesRow(q)
  /\ PaymentMarks(q)

QrRowsOK ==
  /\ \A i \in DOMAIN qrRows : RowBelongs(qrRows[i])
  /\ \A id \in ConciliationId : InsertedWith(id)

WorkerHasNotice ==
  /\ qrWorker \in {Idle} \cup QrWorkerRecord
  /\ qrWorker # Idle =>
       /\ qrWorker.notice \in notices
       /\ qrWorker.step = "find" => qrWorker.row = NoRow
       /\ qrWorker.row # NoRow =>
            qrRows[qrWorker.row].conciliationId = IdOf(qrWorker.notice.of)

QrInv == QrTypeOK /\ WorkerHasNotice /\ QrRowsOK /\ \A q \in QrRequest : QrOf(q)

-----------------------------------------------------------------------------
LEMMA WorkersAreRecords ==
  ASSUME WorkerHasNotice, qrWorker # Idle
  PROVE  qrWorker \in QrWorkerRecord
BY DEF WorkerHasNotice

LEMMA RecordsWork == \A w \in QrWorkerRecord : w # Idle
BY DEF QrWorkerRecord, Idle

LEMMA NoticesOfOne ==
  ASSUME NEW notice \in QrNotice
  PROVE  /\ notice.event = "created" => notice = CreatedOf(notice.of)
         /\ notice.event = "received" => notice = ReceivedOf(notice.of)
         /\ notice.of \in QrRequest /\ notice.event \in {"created", "received"}
         /\ \A q : notice = CreatedOf(q) => notice.of = q /\ notice.event = "created"
         /\ \A q : notice = ReceivedOf(q) => notice.of = q /\ notice.event = "received"
BY DEF QrNotice, CreatedOf, ReceivedOf

LEMMA NoticesDiffer ==
  ASSUME NEW q, NEW other
  PROVE  /\ CreatedOf(q) # ReceivedOf(other)
         /\ CreatedOf(q) = CreatedOf(other) => q = other
         /\ ReceivedOf(q) = ReceivedOf(other) => q = other
<1>1. /\ CreatedOf(q).event = "created" /\ ReceivedOf(other).event = "received"
      /\ CreatedOf(q).of = q /\ CreatedOf(other).of = other
      /\ ReceivedOf(q).of = q /\ ReceivedOf(other).of = other
  BY DEF CreatedOf, ReceivedOf
<1> QED
  BY <1>1

LEMMA QrRowsAreRows ==
  ASSUME QrTypeOK, NEW i \in DOMAIN qrRows
  PROVE  qrRows[i] \in QrRow /\ qrRows[i].code \in QrRequest
<1>1. qrRows[i] \in QrRow
  BY DEF QrTypeOK
<1> QED
  BY <1>1 DEF QrRow

\* The ids of codes.
LEMMA QrIds ==
  ASSUME QrTypeOK
  PROVE  /\ \A q \in QrRequest : /\ asked[q] \in QrAsked /\ IdOf(q) # NoId
                                  /\ IdOf(q) \in QrRequest \cup ConciliationId
                                  /\ asked[q].conciliationId = NoId <=> IdOf(q) = q
                                  /\ asked[q].conciliationId # NoId =>
                                       /\ IdOf(q) = asked[q].conciliationId
                                       /\ IdOf(q) \in ConciliationId
         /\ \A q, other \in QrRequest : IdOf(q) = other => q = other
         /\ \A id \in ConciliationId, q \in QrRequest :
              id # NoId /\ (IdOf(q) = id <=> asked[q].conciliationId = id)
<1>1. \A q \in QrRequest : asked[q] \in QrAsked
  BY DEF QrTypeOK
<1>2. \A q \in QrRequest : asked[q].conciliationId \in ConciliationId \cup {NoId}
  BY <1>1 DEF QrAsked
<1> QED
  BY <1>1, <1>2, QrAssumption DEF IdOf

LEMMA CodesHaveIds == \A q \in QrRequest : IdOf(q) # NoId
BY QrAssumption DEF IdOf

LEMMA QrFinite ==
  ASSUME QrTypeOK, NEW id
  PROVE  /\ IsFiniteSet(RowsOf(id)) /\ Cardinality(RowsOf(id)) \in Nat
         /\ IsFiniteSet(QrRowsWith(id)) /\ Cardinality(QrRowsWith(id)) \in Nat
         /\ IsFiniteSet(SavedWith(id)) /\ Cardinality(SavedWith(id)) \in Nat
         /\ NoRow \notin DOMAIN qrRows
<1>1. DOMAIN qrRows = 1 .. Len(qrRows) /\ Len(qrRows) \in Nat
  BY DEF QrTypeOK
<1>2. IsFiniteSet(1 .. Len(qrRows))
  BY <1>1, FS_Interval
<1>3. RowsOf(id) \subseteq 1 .. Len(qrRows) /\ QrRowsWith(id) \subseteq 1 .. Len(qrRows)
  BY <1>1 DEF RowsOf, QrRowsWith
<1>4. SavedWith(id) \subseteq QrRequest
  BY DEF SavedWith
<1>5. IsFiniteSet(RowsOf(id)) /\ IsFiniteSet(QrRowsWith(id))
  BY <1>2, <1>3, FS_Subset
<1>6. IsFiniteSet(SavedWith(id))
  BY <1>4, QrAssumption, FS_Subset
<1> QED
  BY <1>1, <1>5, <1>6, FS_CardinalityType DEF NoRow

\* What no step takes back.
QrAges ==
  /\ \A q \in QrRequest :
       /\ asked'[q].conciliationId = asked[q].conciliationId
       /\ asked[q].step \in {"saved", "failed"} => asked'[q].step = asked[q].step
       /\ codes[q] # "none" => codes'[q] # "none"
       /\ codes[q] = "paid" => codes'[q] = "paid"
  /\ overtaken \subseteq overtaken' /\ early \subseteq early'
  /\ qrFaults' = 0 => qrFaults = 0

LEMMA QrGrowsOld ==
  ASSUME QrTypeOK, QrAges
  PROVE  /\ \A q \in QrRequest : IdOf(q)' = IdOf(q) /\ (Shared(q) => Shared(q)')
         /\ \A id : Overtook(id) => Overtook(id)'
<1>1. \A q \in QrRequest : IdOf(q)' = IdOf(q)
  BY DEF QrAges, IdOf
<1>2. \A q \in QrRequest : Shared(q) => Shared(q)'
  BY <1>1 DEF QrAges, Shared
<1>3. \A id : Overtook(id) => Overtook(id)'
  BY DEF QrAges, Overtook
<1> QED
  BY <1>1, <1>2, <1>3

\* A step that writes no row, and has the worker about to write nothing new.
LEMMA QrRowsStay ==
  ASSUME QrInv, QrAges, UNCHANGED qrRows,
         \A q \in QrRequest : asked'[q].step = "saved" <=> asked[q].step = "saved",
         \A id : Inserting(id)' => Inserting(id)
  PROVE  QrRowsOK' /\ \A q \in QrRequest : InsertedForOne(q)'
<1>1. /\ \A q \in QrRequest : IdOf(q)' = IdOf(q)
      /\ \A id : Overtook(id) => Overtook(id)'
  BY QrGrowsOld DEF QrInv
<1>2. \A id : /\ RowsOf(id)' = RowsOf(id) /\ SavedWith(id)' = SavedWith(id)
             /\ QrRowsWith(id)' = QrRowsWith(id)
  BY DEF RowsOf, SavedWith, QrRowsWith, QrAges
<1>3. ASSUME NEW i \in DOMAIN qrRows PROVE RowBelongs(qrRows[i])'
  <2>1. RowBelongs(qrRows[i]) /\ qrRows[i].code \in QrRequest
    BY QrRowsAreRows DEF QrInv, QrRowsOK
  <2> QED
    BY <2>1 DEF RowBelongs, QrAges, IdOf
<1>4. \A id \in ConciliationId : InsertedWith(id)'
  <2> SUFFICES ASSUME NEW id \in ConciliationId PROVE InsertedWith(id)'
    OBVIOUS
  <2>1. InsertedWith(id) /\ Cardinality(SavedWith(id)) \in Nat /\ Cardinality(RowsOf(id)) \in Nat
    BY QrFinite DEF QrInv, QrRowsOK
  <2> QED
    BY <1>1, <1>2, <2>1 DEF InsertedWith
<1>5. \A q \in QrRequest : InsertedForOne(q)'
  <2> SUFFICES ASSUME NEW q \in QrRequest PROVE InsertedForOne(q)'
    OBVIOUS
  <2>1. InsertedForOne(q) /\ ByRequest(q)' = ByRequest(q)
    BY DEF QrInv, QrOf, ByRequest
  <2> QED
    BY <1>2, <2>1 DEF InsertedForOne, QrAges
<1> QED
  BY <1>3, <1>4, <1>5 DEF QrRowsOK

LEMMA QrInitInv == QrInit => QrInv
<1> SUFFICES ASSUME QrInit PROVE QrInv
  OBVIOUS
<1>1. /\ asked \in [QrRequest -> [conciliationId : ConciliationId \cup {NoId}, step : {"no"}]]
      /\ codes = [q \in QrRequest |-> "none"] /\ notices = {} /\ qrWorker = Idle
      /\ qrRows = << >> /\ pixKeys = {} /\ totps = {} /\ overtaken = {} /\ early = {}
      /\ qrFaults = 0
  BY DEF QrInit
<1>2. /\ asked \in [QrRequest -> QrAsked]
      /\ \A q \in QrRequest : asked[q].step = "no"
  BY <1>1 DEF QrAsked
<1>3. QrTypeOK
  BY <1>1, <1>2, QrAssumption DEF QrTypeOK
<1>4. WorkerHasNotice
  BY <1>1 DEF WorkerHasNotice
<1>5. \A id : Cardinality(RowsOf(id)) = 0 /\ Cardinality(QrRowsWith(id)) = 0 /\ RowsOf(id) = {}
  <2>1. \A id : RowsOf(id) = {} /\ QrRowsWith(id) = {}
    BY <1>1 DEF RowsOf, QrRowsWith
  <2> QED
    BY <2>1, FS_EmptySet
<1>6. \A id : SavedWith(id) = {} /\ Cardinality(SavedWith(id)) = 0
  <2>1. \A id : SavedWith(id) = {}
    BY <1>2 DEF SavedWith
  <2> QED
    BY <2>1, FS_EmptySet
<1>7. QrRowsOK
  BY <1>1, <1>5, <1>6 DEF QrRowsOK, InsertedWith, Inserting
<1>8. ASSUME NEW q \in QrRequest PROVE QrOf(q)
  <2>1. asked[q].step = "no" /\ codes[q] = "none"
    BY <1>1, <1>2
  <2>2. InsertedForOne(q)
    BY <1>1, <1>5, <2>1 DEF InsertedForOne, ByRequest, Inserting
  <2> QED
    BY <1>1, <2>1, <2>2
    DEF QrOf, NoticesFollow, CreationLeavesRow, PaymentMarks, Marking, HasPaidRow, QrRowsWith
<1> QED
  BY <1>3, <1>4, <1>7, <1>8 DEF QrInv

\* Keys say nothing about codes.
LEMMA KeysKeepQr ==
  ASSUME QrInv,
         \/ \E k \in PixKey : GenerateTotpCode(k) \/ RegisterPixKey(k) \/ DeletePixKey(k)
         \/ UNCHANGED qrVars
  PROVE  QrInv'
<1>1. UNCHANGED <<asked, codes, qrRows, notices, qrWorker, overtaken, early, qrFaults>>
  BY DEF GenerateTotpCode, RegisterPixKey, DeletePixKey, qrVars
<1>2. pixKeys' \subseteq PixKey /\ totps' \subseteq ContactKey
  BY DEF GenerateTotpCode, RegisterPixKey, DeletePixKey, qrVars, keyVars, QrInv, QrTypeOK
<1>3. QrAges
  BY <1>1 DEF QrAges
<1>4. \A q \in QrRequest : IdOf(q)' = IdOf(q)
  BY <1>3, QrGrowsOld DEF QrInv
<1>5. QrTypeOK'
  BY <1>1, <1>2 DEF QrInv, QrTypeOK
<1>6. WorkerHasNotice'
  BY <1>1 DEF QrInv, WorkerHasNotice, IdOf
<1>7. QrRowsOK' /\ \A q \in QrRequest : InsertedForOne(q)'
  <2>1. \A id : Inserting(id)' => Inserting(id)
    BY <1>1 DEF Inserting, IdOf
  <2> QED
    BY <1>1, <1>3, <2>1, QrRowsStay
<1>8. \A q \in QrRequest : NoticesFollow(q)' /\ CreationLeavesRow(q)' /\ PaymentMarks(q)'
  BY <1>1, <1>4
  DEF QrInv, QrOf, NoticesFollow, CreationLeavesRow, PaymentMarks, Marking, HasPaidRow,
      QrRowsWith, RowsOf, Shared
<1> QED
  BY <1>5, <1>6, <1>7, <1>8 DEF QrInv, QrOf

LEMMA TakeQrNoticeKeepsQr ==
  ASSUME QrInv, NEW notice \in notices, TakeQrNotice(notice)
  PROVE  QrInv'
<1>1. /\ qrWorker = Idle /\ qrWorker' = [step |-> "find", notice |-> notice, row |-> NoRow]
      /\ UNCHANGED <<keyVars, asked, codes, qrRows, notices, overtaken, early, qrFaults>>
  BY DEF TakeQrNotice
<1>2. notice \in QrNotice
  BY DEF QrInv, QrTypeOK
<1>3. qrWorker' \in QrWorkerRecord
  BY <1>1, <1>2 DEF QrWorkerRecord, NoRow
<1>4. qrWorker'.step = "find" /\ qrWorker'.notice = notice /\ qrWorker'.row = NoRow
  BY <1>1
<1>5. QrTypeOK'
  BY <1>1, <1>2, <1>4 DEF QrInv, QrTypeOK, keyVars
<1>6. WorkerHasNotice'
  BY <1>1, <1>3, <1>4 DEF WorkerHasNotice
<1>7. QrAges
  BY <1>1 DEF QrAges
<1>8. (\A id : ~Inserting(id)') /\ \A q : ~Marking(q)'
  BY <1>4 DEF Inserting, Marking
<1>9. QrRowsOK' /\ \A q \in QrRequest : InsertedForOne(q)'
  BY <1>1, <1>7, <1>8, QrRowsStay
<1>10. \A q \in QrRequest : IdOf(q)' = IdOf(q)
  BY <1>7, QrGrowsOld DEF QrInv
<1>11. \A q \in QrRequest : NoticesFollow(q)' /\ CreationLeavesRow(q)' /\ PaymentMarks(q)'
  BY <1>1, <1>8, <1>10
  DEF QrInv, QrOf, NoticesFollow, CreationLeavesRow, PaymentMarks, HasPaidRow, QrRowsWith,
      RowsOf, Shared
<1> QED
  BY <1>5, <1>6, <1>9, <1>11 DEF QrInv, QrOf


LEMMA FindQrRowKeepsQr == ASSUME QrInv, FindQrRow PROVE QrInv'
<1> DEFINE it == qrWorker.notice
           q0 == qrWorker.notice.of
<1>1. /\ qrWorker # Idle /\ qrWorker.step = "find"
      /\ UNCHANGED <<keyVars, asked, codes, qrRows, notices, qrFaults>>
      /\ overtaken' = IF it.event = "created" /\ asked[q0].step = "saving"
                      THEN overtaken \cup {q0} ELSE overtaken
      /\ early' = IF it.event = "received" /\ CreatedOf(q0) \in notices
                  THEN early \cup {q0} ELSE early
  BY DEF FindQrRow, CreatedOf
<1>2. \/ \E i \in RowsOf(IdOf(q0)) : qrWorker' = [qrWorker EXCEPT !.step = "save", !.row = i]
      \/ RowsOf(IdOf(q0)) = {} /\ qrWorker' = [qrWorker EXCEPT !.step = "save"]
  BY DEF FindQrRow
<1>3. qrWorker \in QrWorkerRecord /\ it \in QrNotice /\ it \in notices /\ q0 \in QrRequest
  BY <1>1, WorkersAreRecords, NoticesOfOne DEF QrInv, QrTypeOK, WorkerHasNotice
<1>4. qrWorker.row = NoRow
  BY <1>1 DEF QrInv, WorkerHasNotice
<1>5. /\ qrWorker' \in QrWorkerRecord
      /\ qrWorker'.step = "save" /\ qrWorker'.notice = it
      /\ \/ qrWorker'.row = NoRow /\ RowsOf(IdOf(q0)) = {}
         \/ qrWorker'.row \in RowsOf(IdOf(q0))
  <2>1. CASE RowsOf(IdOf(q0)) = {} /\ qrWorker' = [qrWorker EXCEPT !.step = "save"]
    BY <1>3, <1>4, <2>1 DEF QrWorkerRecord
  <2>2. ASSUME NEW i \in RowsOf(IdOf(q0)),
               qrWorker' = [qrWorker EXCEPT !.step = "save", !.row = i]
        PROVE  /\ qrWorker' \in QrWorkerRecord
               /\ qrWorker'.step = "save" /\ qrWorker'.notice = it
               /\ qrWorker'.row \in RowsOf(IdOf(q0))
    <3>1. i \in Nat
      BY DEF RowsOf, QrInv, QrTypeOK
    <3> QED
      BY <1>3, <2>2, <3>1 DEF QrWorkerRecord
  <2> QED
    BY <1>2, <2>1, <2>2
<1> HIDE DEF it, q0
<1>6. QrAges
  BY <1>1 DEF QrAges
<1>7. /\ \A q \in QrRequest : IdOf(q)' = IdOf(q) /\ (Shared(q) => Shared(q)')
      /\ \A id : Overtook(id) => Overtook(id)'
  BY <1>6, QrGrowsOld DEF QrInv
<1>8. \A id : /\ RowsOf(id)' = RowsOf(id) /\ SavedWith(id)' = SavedWith(id)
             /\ QrRowsWith(id)' = QrRowsWith(id)
  BY <1>1 DEF RowsOf, SavedWith, QrRowsWith
<1>9. QrTypeOK'
  <2>1. overtaken' \subseteq QrRequest /\ early' \subseteq QrRequest
    BY <1>1, <1>3 DEF QrInv, QrTypeOK
  <2>2. qrWorker'.row \in {NoRow} \cup DOMAIN qrRows
    BY <1>5 DEF RowsOf
  <2> QED
    BY <1>1, <1>3, <1>5, <2>1, <2>2 DEF QrInv, QrTypeOK, keyVars
<1>10. WorkerHasNotice'
  <2>1. qrWorker'.row # NoRow => qrRows[qrWorker'.row].conciliationId = IdOf(q0)
    BY <1>5 DEF RowsOf
  <2>2. IdOf(qrWorker.notice.of)' = IdOf(q0)
    BY <1>1, <1>5 DEF IdOf, q0, it
  <2> QED
    BY <1>1, <1>3, <1>5, <2>1, <2>2 DEF WorkerHasNotice
<1>11. NoRow \notin RowsOf(IdOf(q0))
  BY QrFinite DEF QrInv, RowsOf
<1>12. \A id : Inserting(id)' => it.event = "created" /\ id = IdOf(q0) /\ RowsOf(id) = {}
  <2>1. IdOf(qrWorker.notice.of)' = IdOf(q0)
    BY <1>1, <1>5 DEF IdOf, q0, it
  <2> QED
    BY <1>5, <1>11, <2>1 DEF Inserting
<1>13. NoticesFollow(q0) /\ it \in {CreatedOf(q0), ReceivedOf(q0)}
  BY <1>3, NoticesOfOne DEF QrInv, QrOf, q0, it
<1>14. QrRowsOK'
  <2>1. ASSUME NEW i \in DOMAIN qrRows PROVE RowBelongs(qrRows[i])'
    <3>1. RowBelongs(qrRows[i])
      BY DEF QrInv, QrRowsOK
    <3> QED
      BY <1>1, <3>1 DEF RowBelongs, IdOf
  <2>2. ASSUME NEW id \in ConciliationId PROVE InsertedWith(id)'
    <3>1. InsertedWith(id) /\ Cardinality(SavedWith(id)) \in Nat
      BY QrFinite DEF QrInv, QrRowsOK
    <3>2. Inserting(id)' => Overtook(id)' /\ Cardinality(RowsOf(id)) <= Cardinality(SavedWith(id))
      <4> SUFFICES ASSUME Inserting(id)' PROVE
                     Overtook(id)' /\ Cardinality(RowsOf(id)) <= Cardinality(SavedWith(id))
        OBVIOUS
      <4>1. it.event = "created" /\ id = IdOf(q0) /\ RowsOf(id) = {}
        BY <1>12
      <4>2. asked[q0].conciliationId = id /\ asked[q0] \in QrAsked
        <5>1. \A q \in QrRequest : IdOf(q) = id <=> asked[q].conciliationId = id
          BY QrIds DEF QrInv
        <5> QED
          BY <1>3, <4>1, <5>1 DEF QrInv, QrTypeOK
      <4>3. asked[q0].step # "saved"
        BY <1>3, <3>1, <4>1, <4>2 DEF InsertedWith, SavedWith
      <4>4. codes[q0] # "none" /\ asked[q0].step \notin {"no", "issuing"}
        BY <1>3, <1>13, <4>1, NoticesOfOne DEF NoticesFollow
      <4>5. asked[q0].step = "saving" => q0 \in overtaken'
        BY <1>1, <4>1
      <4>6. asked[q0].step \in {"saving", "failed"}
        BY <4>2, <4>3, <4>4 DEF QrAsked
      <4>7. Overtook(id)'
        BY <1>1, <1>3, <4>2, <4>4, <4>5, <4>6 DEF Overtook
      <4>8. Cardinality(RowsOf(id)) = 0
        BY <4>1, FS_EmptySet
      <4> QED
        BY <3>1, <4>7, <4>8
    <3>3. Cardinality(RowsOf(id)) \in Nat
      BY QrFinite DEF QrInv
    <3> QED
      BY <1>7, <1>8, <3>1, <3>2, <3>3 DEF InsertedWith
  <2> QED
    BY <1>1, <2>1, <2>2 DEF QrRowsOK
<1>15. ASSUME NEW q \in QrRequest PROVE QrOf(q)'
  <2>1. QrOf(q)
    BY DEF QrInv
  <2>2. NoticesFollow(q)' /\ CreationLeavesRow(q)'
    BY <1>1, <1>7, <1>8, <2>1 DEF QrOf, NoticesFollow, CreationLeavesRow, RowsOf, IdOf
  <2>3. InsertedForOne(q)'
    BY <1>1, <1>8, <1>12, <2>1 DEF QrOf, InsertedForOne, ByRequest
  <2>4. PaymentMarks(q)'
    <3> SUFFICES ASSUME qrFaults = 0, q \notin early', ~Shared(q)' PROVE PaymentMarks(q)'
      BY <1>1 DEF PaymentMarks
    <3>1. /\ HasPaidRow(q) => CreatedOf(q) \notin notices
          /\ codes[q] = "paid" => ReceivedOf(q) \in notices \/ HasPaidRow(q)
      BY <1>6, <1>7, <2>1 DEF QrOf, PaymentMarks, QrAges
    <3>2. HasPaidRow(q)' <=> HasPaidRow(q)
      BY <1>1 DEF HasPaidRow, QrRowsWith
    <3>3. ASSUME Marking(q)' PROVE CreatedOf(q) \notin notices /\ qrWorker'.row # NoRow
      <4>1. q = q0 /\ it.event = "received"
        BY <1>3, <1>5, <3>3, NoticesOfOne DEF Marking, q0, it
      <4>2. CreatedOf(q) \notin notices
        BY <1>1, <4>1
      <4>3. codes[q] # "none"
        BY <1>3, <1>13, <4>1, NoticesOfOne DEF NoticesFollow
      <4>4. RowsOf(IdOf(q0)) # {}
        BY <2>1, <4>1, <4>2, <4>3 DEF QrOf, CreationLeavesRow
      <4> QED
        BY <1>5, <1>11, <4>2, <4>4
    <3> QED
      BY <1>1, <3>1, <3>2, <3>3 DEF PaymentMarks
  <2> QED
    BY <2>2, <2>3, <2>4 DEF QrOf
<1> QED
  BY <1>9, <1>10, <1>14, <1>15 DEF QrInv

LEMMA RequestsKeepQr ==
  ASSUME QrInv, NEW q \in QrRequest,
         GenerateQrCode(q) \/ RefuseQrCode(q) \/ IssueQrCode(q) \/ PayQrCode(q)
  PROVE  QrInv'
<1>1. /\ UNCHANGED <<keyVars, qrRows, qrWorker, overtaken, early>>
      /\ \A other \in QrRequest \ {q} : asked'[other] = asked[other] /\ codes'[other] = codes[other]
      /\ notices \subseteq notices'
      /\ \A n \in notices' \ notices : n \in {CreatedOf(q), ReceivedOf(q)}
      /\ qrFaults' \in 0 .. MaxQrFaults /\ (qrFaults' = 0 => qrFaults = 0)
  BY QrAssumption
  DEF GenerateQrCode, RefuseQrCode, IssueQrCode, PayQrCode, QrFault, CreatedOf, ReceivedOf,
      QrInv, QrTypeOK
<1>2. asked \in [QrRequest -> QrAsked] /\ codes \in [QrRequest -> {"none", "issued", "paid"}]
  BY DEF QrInv, QrTypeOK
<1>3. CreatedOf(q) \in QrNotice /\ ReceivedOf(q) \in QrNotice
  BY DEF CreatedOf, ReceivedOf, QrNotice
<1>4. asked[q] \in QrAsked /\ codes[q] \in {"none", "issued", "paid"}
  BY <1>2
<1>5. /\ asked' \in [QrRequest -> QrAsked]
      /\ codes' \in [QrRequest -> {"none", "issued", "paid"}]
      /\ asked'[q].conciliationId = asked[q].conciliationId
  <2>1. \A step \in {"issuing", "saving", "failed"} :
          /\ [asked[q] EXCEPT !.step = step] \in QrAsked
          /\ [asked[q] EXCEPT !.step = step].conciliationId = asked[q].conciliationId
    BY <1>4 DEF QrAsked
  <2> QED
    BY <1>2, <2>1 DEF GenerateQrCode, RefuseQrCode, IssueQrCode, PayQrCode
<1>6. \/ /\ asked[q].step = "no" /\ asked'[q].step = "issuing" /\ UNCHANGED <<codes, notices>>
      \/ /\ asked[q].step = "issuing" /\ asked'[q].step = "failed" /\ UNCHANGED <<codes, notices>>
      \/ /\ asked[q].step = "issuing" /\ asked'[q].step \in {"saving", "failed"}
         /\ codes'[q] = "issued" /\ notices' = notices \cup {CreatedOf(q)}
      \/ /\ codes[q] = "issued" /\ UNCHANGED asked
         /\ codes'[q] = "paid" /\ notices' = notices \cup {ReceivedOf(q)}
  <2>1. \A step \in {"issuing", "saving", "failed"} : [asked[q] EXCEPT !.step = step].step = step
    BY <1>4 DEF QrAsked
  <2> QED
    BY <1>2, <2>1
    DEF GenerateQrCode, RefuseQrCode, IssueQrCode, PayQrCode, CreatedOf, ReceivedOf
<1>7. NoticesFollow(q) /\ QrOf(q)
  BY DEF QrInv, QrOf
<1>8. QrAges
  BY <1>1, <1>5, <1>6, <1>7 DEF QrAges, NoticesFollow
<1>9. /\ \A other \in QrRequest : IdOf(other)' = IdOf(other) /\ (Shared(other) => Shared(other)')
      /\ IdOf(q)' = IdOf(q)
  BY <1>8, QrGrowsOld DEF QrInv
<1>10. QrTypeOK'
  <2>1. notices' \subseteq QrNotice
    BY <1>1, <1>3 DEF QrInv, QrTypeOK
  <2> QED
    BY <1>1, <1>5, <2>1 DEF QrInv, QrTypeOK, keyVars
<1>11. qrWorker # Idle => qrWorker.notice.of \in QrRequest
  BY NoticesOfOne DEF QrInv, QrTypeOK
<1>12. WorkerHasNotice'
  <2>1. qrWorker # Idle => IdOf(qrWorker.notice.of)' = IdOf(qrWorker.notice.of)
    BY <1>1, <1>8, <1>11 DEF IdOf, QrAges
  <2> QED
    BY <1>1, <2>1 DEF QrInv, WorkerHasNotice
<1>13. QrRowsOK' /\ \A other \in QrRequest : InsertedForOne(other)'
  <2>1. \A id : Inserting(id)' => Inserting(id)
    BY <1>1, <1>8, <1>11 DEF Inserting, IdOf, QrAges
  <2>2. \A other \in QrRequest : asked'[other].step = "saved" <=> asked[other].step = "saved"
    BY <1>1, <1>6
  <2> QED
    BY <1>1, <1>8, <2>1, <2>2, QrRowsStay
<1>14. \A other \in QrRequest : /\ HasPaidRow(other)' = HasPaidRow(other)
                                /\ Marking(other)' = Marking(other)
                                /\ RowsOf(IdOf(other))' = RowsOf(IdOf(other))
  BY <1>1, <1>9 DEF HasPaidRow, QrRowsWith, Marking, RowsOf
<1>15. ASSUME NEW other \in QrRequest \ {q}
       PROVE  NoticesFollow(other)' /\ CreationLeavesRow(other)' /\ PaymentMarks(other)'
  <2>1. /\ CreatedOf(other) \in notices' <=> CreatedOf(other) \in notices
        /\ ReceivedOf(other) \in notices' <=> ReceivedOf(other) \in notices
    BY <1>1, NoticesDiffer
  <2>2. QrOf(other)
    BY DEF QrInv
  <2> QED
    BY <1>1, <1>9, <1>14, <2>1, <2>2
    DEF QrOf, NoticesFollow, CreationLeavesRow, PaymentMarks
<1>16. /\ CreatedOf(q) \in notices' => CreatedOf(q) \in notices \/ codes'[q] = "issued"
       /\ ReceivedOf(q) \in notices' => ReceivedOf(q) \in notices \/ codes'[q] = "paid"
       /\ CreatedOf(q) \notin notices' => CreatedOf(q) \notin notices
       /\ CreatedOf(q) \in notices' /\ CreatedOf(q) \notin notices => asked[q].step = "issuing"
       /\ codes'[q] # "none" /\ codes[q] = "none" => CreatedOf(q) \in notices'
       /\ codes'[q] = "paid" /\ codes[q] # "paid" => ReceivedOf(q) \in notices'
  BY <1>4, <1>6, <1>7, NoticesDiffer DEF NoticesFollow
<1>17. NoticesFollow(q)'
  BY <1>6, <1>7, <1>8, <1>16, NoticesDiffer DEF NoticesFollow, QrAges
<1>18. CreationLeavesRow(q)'
  BY <1>1, <1>7, <1>14, <1>16 DEF QrOf, CreationLeavesRow
<1>19. asked[q].step = "issuing" => ~HasPaidRow(q) /\ ~Marking(q)
  <2> SUFFICES ASSUME asked[q].step = "issuing" PROVE ~HasPaidRow(q) /\ ~Marking(q)
    OBVIOUS
  <2>1. codes[q] = "none" /\ ReceivedOf(q) \notin notices
    BY <1>7 DEF NoticesFollow
  <2>2. ~Marking(q)
    BY <2>1 DEF QrInv, WorkerHasNotice, Marking
  <2>3. \A i \in DOMAIN qrRows : qrRows[i].code # q
    BY <2>1 DEF QrInv, QrRowsOK, RowBelongs
  <2> QED
    BY <2>2, <2>3 DEF HasPaidRow, QrRowsWith
<1>20. PaymentMarks(q)'
  BY <1>1, <1>7, <1>9, <1>14, <1>16, <1>19 DEF QrOf, PaymentMarks
<1> QED
  BY <1>7, <1>10, <1>12, <1>13, <1>15, <1>17, <1>18, <1>20 DEF QrInv, QrOf


\* An insert.
LEMMA QrRowInserted ==
  ASSUME QrTypeOK, NEW row \in QrRow, qrRows' = Append(qrRows, row)
  PROVE  /\ qrRows' \in Seq(QrRow)
         /\ DOMAIN qrRows' = DOMAIN qrRows \cup {Len(qrRows) + 1}
         /\ Len(qrRows) + 1 \notin DOMAIN qrRows
         /\ \A i \in DOMAIN qrRows : qrRows'[i] = qrRows[i]
         /\ qrRows'[Len(qrRows) + 1] = row
<1>0. qrRows \in Seq(QrRow)
  BY DEF QrTypeOK
<1>1. /\ qrRows' \in Seq(QrRow) /\ Len(qrRows') = Len(qrRows) + 1
      /\ \A i \in 1 .. Len(qrRows) : qrRows'[i] = qrRows[i]
      /\ qrRows'[Len(qrRows) + 1] = row
  BY <1>0
<1>2. /\ DOMAIN qrRows = 1 .. Len(qrRows) /\ Len(qrRows) \in Nat
      /\ DOMAIN qrRows' = 1 .. Len(qrRows')
  BY <1>0, <1>1
<1> QED
  BY <1>1, <1>2

\* What it does to the rows of an id, and of a code.
LEMMA QrInsertCounts ==
  ASSUME QrTypeOK, NEW row \in QrRow, qrRows' = Append(qrRows, row)
  PROVE  /\ qrRows' \in Seq(QrRow) /\ DOMAIN qrRows \subseteq DOMAIN qrRows'
         /\ \A i \in DOMAIN qrRows : qrRows'[i] = qrRows[i]
         /\ \A i \in DOMAIN qrRows' \ DOMAIN qrRows : qrRows'[i] = row
         /\ \A id : id # row.conciliationId => RowsOf(id)' = RowsOf(id)
         /\ RowsOf(row.conciliationId)' # {}
         /\ Cardinality(RowsOf(row.conciliationId)') = Cardinality(RowsOf(row.conciliationId)) + 1
         /\ \A id : RowsOf(id) \subseteq RowsOf(id)'
         /\ \A q : q # row.code => QrRowsWith(q)' = QrRowsWith(q)
         /\ Cardinality(QrRowsWith(row.code)') = Cardinality(QrRowsWith(row.code)) + 1
         /\ \A q : row.status # "PAID" => HasPaidRow(q)' = HasPaidRow(q)
<1> DEFINE new == Len(qrRows) + 1
           id0 == row.conciliationId
           q0 == row.code
<1>1. /\ qrRows' \in Seq(QrRow) /\ DOMAIN qrRows' = DOMAIN qrRows \cup {new}
      /\ new \notin DOMAIN qrRows
      /\ \A i \in DOMAIN qrRows : qrRows'[i] = qrRows[i]
      /\ qrRows'[new] = row
  BY QrRowInserted
<1> HIDE DEF new
<1>2. /\ RowsOf(id0)' = RowsOf(id0) \cup {new} /\ new \notin RowsOf(id0)
      /\ \A id : id # id0 => RowsOf(id)' = RowsOf(id)
  <2>1. id0' = id0
    OBVIOUS
  <2> QED
    BY <1>1, <2>1 DEF RowsOf
<1>3. /\ QrRowsWith(q0)' = QrRowsWith(q0) \cup {new} /\ new \notin QrRowsWith(q0)
      /\ \A q : q # q0 => QrRowsWith(q)' = QrRowsWith(q)
  <2>1. q0' = q0
    OBVIOUS
  <2> QED
    BY <1>1, <2>1 DEF QrRowsWith
<1> HIDE DEF id0, q0
<1>4. Cardinality(RowsOf(id0)') = Cardinality(RowsOf(id0)) + 1
  <2>1. IsFiniteSet(RowsOf(id0))
    BY QrFinite
  <2> QED
    BY <1>2, <2>1, FS_AddElement
<1>5. Cardinality(QrRowsWith(q0)') = Cardinality(QrRowsWith(q0)) + 1
  <2>1. IsFiniteSet(QrRowsWith(q0))
    BY QrFinite
  <2> QED
    BY <1>3, <2>1, FS_AddElement
<1>6. ASSUME NEW q, row.status # "PAID" PROVE HasPaidRow(q)' = HasPaidRow(q)
  BY <1>1, <1>6 DEF HasPaidRow, QrRowsWith
<1>7. \A id : RowsOf(id) \subseteq RowsOf(id)'
  BY <1>2
<1> QED
  BY <1>1, <1>2, <1>3, <1>4, <1>5, <1>6, <1>7 DEF id0, q0

LEMMA SaveQrCodeKeepsQr ==
  ASSUME QrInv, NEW q \in QrRequest, SaveQrCode(q)
  PROVE  QrInv'
<1>0. PICK id0 : id0 = asked[q].conciliationId
  OBVIOUS
<1> DEFINE row == [conciliationId |-> id0, code |-> q, status |-> "CREATED"]
<1>1. /\ asked[q].step = "saving"
      /\ UNCHANGED <<keyVars, codes, notices, qrWorker, overtaken, early>>
      /\ qrFaults' \in 0 .. MaxQrFaults /\ (qrFaults' = 0 => qrFaults = 0)
      /\ \/ /\ asked' = [asked EXCEPT ![q].step = "saved"]
            /\ qrRows' = Append(qrRows, row) /\ UNCHANGED qrFaults
         \/ asked' = [asked EXCEPT ![q].step = "failed"] /\ UNCHANGED qrRows
  BY <1>0, QrAssumption DEF SaveQrCode, QrFault, QrInv, QrTypeOK
<1>2. asked \in [QrRequest -> QrAsked] /\ asked[q] \in QrAsked
  BY DEF QrInv, QrTypeOK
<1>3. id0 \in ConciliationId \cup {NoId}
  BY <1>0, <1>2 DEF QrAsked
<1>4. /\ row \in QrRow /\ row.conciliationId = id0 /\ row.code = q /\ row.status = "CREATED"
  BY <1>3 DEF QrRow, PixQrCodeStatus
<1>5. /\ asked' \in [QrRequest -> QrAsked]
      /\ \A other \in QrRequest \ {q} : asked'[other] = asked[other]
      /\ asked'[q].conciliationId = id0
      /\ \/ /\ asked'[q].step = "saved" /\ qrRows' = Append(qrRows, row)
         \/ asked'[q].step = "failed" /\ UNCHANGED qrRows
  <2>1. \A step \in {"saved", "failed"} :
          /\ [asked[q] EXCEPT !.step = step] \in QrAsked
          /\ [asked[q] EXCEPT !.step = step].conciliationId = asked[q].conciliationId
          /\ [asked[q] EXCEPT !.step = step].step = step
    BY <1>2 DEF QrAsked
  <2> QED
    BY <1>0, <1>1, <1>2, <2>1
<1> HIDE DEF row
<1>6. QrAges
  BY <1>0, <1>1, <1>5 DEF QrAges
<1>7. /\ \A other \in QrRequest : IdOf(other)' = IdOf(other) /\ (Shared(other) => Shared(other)')
      /\ \A id : Overtook(id) => Overtook(id)'
  BY <1>6, QrGrowsOld DEF QrInv
<1>8. /\ qrRows' \in Seq(QrRow) /\ DOMAIN qrRows \subseteq DOMAIN qrRows'
      /\ \A i \in DOMAIN qrRows : qrRows'[i] = qrRows[i]
      /\ \A i \in DOMAIN qrRows' \ DOMAIN qrRows : qrRows'[i] = row
      /\ \A id : RowsOf(id) \subseteq RowsOf(id)'
      /\ \A other : HasPaidRow(other)' = HasPaidRow(other)
  <2>1. CASE UNCHANGED qrRows
    BY <2>1 DEF QrInv, QrTypeOK, RowsOf, HasPaidRow, QrRowsWith
  <2>2. CASE qrRows' = Append(qrRows, row)
    BY <1>4, <2>2, QrInsertCounts DEF QrInv
  <2> QED
    BY <1>5, <2>1, <2>2
<1>9. QrTypeOK'
  <2>1. qrWorker # Idle => qrWorker.row \in {NoRow} \cup DOMAIN qrRows'
    BY <1>8 DEF QrInv, QrTypeOK
  <2> QED
    BY <1>1, <1>5, <1>8, <2>1 DEF QrInv, QrTypeOK, keyVars
<1>10. qrWorker # Idle => qrWorker.notice.of \in QrRequest
  BY NoticesOfOne DEF QrInv, QrTypeOK
<1>11. qrWorker # Idle => IdOf(qrWorker.notice.of)' = IdOf(qrWorker.notice.of)
  BY <1>1, <1>6, <1>10 DEF IdOf, QrAges
<1>12. WorkerHasNotice'
  <2>1. qrWorker # Idle /\ qrWorker.row # NoRow => qrRows'[qrWorker.row] = qrRows[qrWorker.row]
    BY <1>8 DEF QrInv, QrTypeOK
  <2> QED
    BY <1>1, <1>11, <2>1 DEF QrInv, WorkerHasNotice
<1>13. \A id : Inserting(id)' <=> Inserting(id)
  BY <1>1, <1>11 DEF Inserting
<1>14. NoticesFollow(q) /\ codes[q] # "none"
  BY <1>1 DEF QrInv, QrOf, NoticesFollow
<1>15. ASSUME NEW i \in DOMAIN qrRows' PROVE RowBelongs(qrRows[i])'
  <2>1. CASE i \in DOMAIN qrRows
    <3>1. RowBelongs(qrRows[i]) /\ qrRows[i] \in QrRow /\ qrRows'[i] = qrRows[i]
      BY <1>8, <2>1, QrRowsAreRows DEF QrInv, QrRowsOK
    <3>2. qrRows[i].code \in QrRequest
      BY <3>1 DEF QrRow
    <3> QED
      BY <1>6, <3>1, <3>2 DEF RowBelongs, QrAges, IdOf
  <2>2. CASE i \notin DOMAIN qrRows
    <3>1. qrRows'[i] = row
      BY <1>8, <2>2
    <3> QED
      BY <1>0, <1>1, <1>4, <1>5, <1>14, <3>1 DEF RowBelongs, IdOf
  <2> QED
    BY <2>1, <2>2
<1>16. /\ \A id : id # id0 => SavedWith(id)' = SavedWith(id)
       /\ asked'[q].step = "failed" => SavedWith(id0)' = SavedWith(id0)
       /\ asked'[q].step = "saved" =>
            Cardinality(SavedWith(id0)') = Cardinality(SavedWith(id0)) + 1
  <2>1. ASSUME NEW id, id # id0 PROVE SavedWith(id)' = SavedWith(id)
    BY <1>0, <1>5, <2>1 DEF SavedWith
  <2>2. asked'[q].step = "failed" => SavedWith(id0)' = SavedWith(id0)
    BY <1>0, <1>1, <1>5, <1>6 DEF SavedWith, QrAges
  <2>3. asked'[q].step = "saved" => SavedWith(id0)' = SavedWith(id0) \cup {q}
    BY <1>0, <1>1, <1>5, <1>6 DEF SavedWith, QrAges
  <2>4. q \notin SavedWith(id0)
    BY <1>1 DEF SavedWith
  <2> QED
    BY <2>1, <2>2, <2>3, <2>4, QrFinite, FS_AddElement DEF QrInv
<1>17. ASSUME NEW id \in ConciliationId PROVE InsertedWith(id)'
  <2>1. /\ InsertedWith(id) /\ Cardinality(SavedWith(id)) \in Nat
        /\ Cardinality(RowsOf(id)) \in Nat
    BY QrFinite DEF QrInv, QrRowsOK
  <2>2. CASE id # id0 \/ asked'[q].step = "failed"
    <3>1. SavedWith(id)' = SavedWith(id)
      BY <1>16, <2>2
    <3>2. RowsOf(id)' = RowsOf(id)
      <4>1. CASE UNCHANGED qrRows
        BY <4>1 DEF RowsOf
      <4>2. CASE id # id0 /\ qrRows' = Append(qrRows, row)
        BY <1>4, <4>2, QrInsertCounts DEF QrInv
      <4> QED
        BY <1>5, <2>2, <4>1, <4>2
    <3> QED
      BY <1>7, <1>13, <2>1, <3>1, <3>2 DEF InsertedWith
  <2>3. CASE id = id0 /\ asked'[q].step = "saved"
    <3>1. /\ Cardinality(RowsOf(id)') = Cardinality(RowsOf(id)) + 1 /\ RowsOf(id)' # {}
          /\ Cardinality(SavedWith(id)') = Cardinality(SavedWith(id)) + 1
      BY <1>4, <1>5, <1>16, <2>3, QrInsertCounts DEF QrInv
    <3> QED
      BY <1>7, <1>13, <2>1, <3>1 DEF InsertedWith
  <2> QED
    BY <1>5, <2>2, <2>3
<1>18. ASSUME NEW other \in QrRequest PROVE InsertedForOne(other)'
  <2> SUFFICES ASSUME asked'[other].conciliationId = NoId PROVE InsertedForOne(other)'
    BY DEF InsertedForOne
  <2>1. /\ Cardinality(QrRowsWith(other)) <=
              ByRequest(other) + (IF RowsOf(other) = {} THEN 0 ELSE 1)
        /\ Inserting(other) => RowsOf(other) = {}
        /\ Cardinality(QrRowsWith(other)) \in Nat
    BY <1>6, QrFinite DEF QrInv, QrOf, InsertedForOne, QrAges
  <2>2. RowsOf(other)' = RowsOf(other)
    <3>1. CASE UNCHANGED qrRows
      BY <3>1 DEF RowsOf
    <3>2. CASE qrRows' = Append(qrRows, row)
      <4>1. other # id0
        BY <1>3, QrAssumption
      <4> QED
        BY <1>4, <3>2, <4>1, QrInsertCounts DEF QrInv
    <3> QED
      BY <1>5, <3>1, <3>2
  <2>3. CASE other # q \/ UNCHANGED qrRows
    <3>1. QrRowsWith(other)' = QrRowsWith(other)
      <4>1. CASE UNCHANGED qrRows
        BY <4>1 DEF QrRowsWith
      <4>2. CASE other # q /\ qrRows' = Append(qrRows, row)
        BY <1>4, <4>2, QrInsertCounts DEF QrInv
      <4> QED
        BY <1>5, <2>3, <4>1, <4>2
    <3>2. ByRequest(other)' >= ByRequest(other) /\ ByRequest(other) \in Nat /\ ByRequest(other)' \in Nat
      BY <1>1, <1>5 DEF ByRequest
    <3> QED
      BY <1>13, <2>1, <2>2, <3>1, <3>2 DEF InsertedForOne
  <2>4. CASE other = q /\ asked'[q].step = "saved" /\ qrRows' = Append(qrRows, row)
    <3>1. Cardinality(QrRowsWith(other)') = Cardinality(QrRowsWith(other)) + 1
      BY <1>4, <2>4, QrInsertCounts DEF QrInv
    <3>2. ByRequest(other)' = 1 /\ ByRequest(other) = 0
      BY <1>1, <2>4 DEF ByRequest
    <3> QED
      BY <1>13, <2>1, <2>2, <3>1, <3>2 DEF InsertedForOne
  <2> QED
    BY <1>5, <2>3, <2>4
<1>19. ASSUME NEW other \in QrRequest
       PROVE  NoticesFollow(other)' /\ CreationLeavesRow(other)' /\ PaymentMarks(other)'
  <2>1. QrOf(other) /\ Marking(other)' = Marking(other)
    BY <1>1 DEF QrInv, Marking
  <2>2. NoticesFollow(other)'
    BY <1>1, <1>5, <1>14, <2>1 DEF QrOf, NoticesFollow
  <2>3. RowsOf(IdOf(other))  # {} => RowsOf(IdOf(other))' # {}
    BY <1>7, <1>8 DEF RowsOf
  <2>4. CreationLeavesRow(other)'
    BY <1>1, <2>1, <2>3 DEF QrOf, CreationLeavesRow
  <2>5. PaymentMarks(other)'
    BY <1>1, <1>7, <1>8, <2>1 DEF QrOf, PaymentMarks
  <2> QED
    BY <2>2, <2>4, <2>5
<1> QED
  BY <1>9, <1>12, <1>15, <1>17, <1>18, <1>19 DEF QrInv, QrRowsOK, QrOf


\* The worker's write: it inserts a row, or changes the one it has found.
WorkerWrites ==
  /\ qrWorker # Idle /\ qrWorker.step = "save"
  /\ qrRows' = RowsSaved
  /\ qrWorker' = Idle
  /\ UNCHANGED <<asked, codes, overtaken, early>>
  /\ qrFaults' = 0 => qrFaults = 0

LEMMA WritesFromNotice ==
  ASSUME QrInv, WorkerWrites
  PROVE  /\ qrWorker.notice \in notices /\ qrWorker.notice \in QrNotice
         /\ qrWorker.notice.of \in QrRequest /\ codes[qrWorker.notice.of] # "none"
         /\ qrWorker.notice.event \in {"created", "received"}
         /\ qrWorker.notice.event = "received" => codes[qrWorker.notice.of] = "paid"
         /\ qrWorker.row # NoRow =>
              /\ qrWorker.row \in DOMAIN qrRows /\ qrRows[qrWorker.row] \in QrRow
              /\ qrRows[qrWorker.row].conciliationId = IdOf(qrWorker.notice.of)
         /\ QrAges /\ (\A id : ~Inserting(id)') /\ \A q : ~Marking(q)'
<1>1. qrWorker.notice \in notices /\ qrWorker.notice \in QrNotice
  BY DEF QrInv, QrTypeOK, WorkerHasNotice, WorkerWrites
<1>2. /\ qrWorker.notice.of \in QrRequest /\ qrWorker.notice.event \in {"created", "received"}
      /\ qrWorker.notice \in {CreatedOf(qrWorker.notice.of), ReceivedOf(qrWorker.notice.of)}
      /\ qrWorker.notice.event = "received" => qrWorker.notice = ReceivedOf(qrWorker.notice.of)
  BY <1>1, NoticesOfOne
<1>3. NoticesFollow(qrWorker.notice.of)
  BY <1>2 DEF QrInv, QrOf
<1>4. codes[qrWorker.notice.of] # "none"
  BY <1>1, <1>2, <1>3 DEF NoticesFollow
<1>5. qrWorker.notice.event = "received" => codes[qrWorker.notice.of] = "paid"
  BY <1>1, <1>2, <1>3 DEF NoticesFollow
<1>6. qrWorker.row # NoRow =>
        /\ qrWorker.row \in DOMAIN qrRows
        /\ qrRows[qrWorker.row].conciliationId = IdOf(qrWorker.notice.of)
  BY DEF QrInv, QrTypeOK, WorkerHasNotice, WorkerWrites
<1>7. QrAges /\ (\A id : ~Inserting(id)') /\ \A q : ~Marking(q)'
  BY DEF WorkerWrites, QrAges, Inserting, Marking
<1> QED
  BY <1>1, <1>2, <1>4, <1>5, <1>6, <1>7, QrRowsAreRows DEF QrInv

LEMMA WriteInserts ==
  ASSUME QrInv, WorkerWrites, qrWorker.notice.event = "created", qrWorker.row = NoRow
  PROVE  \E row \in QrRow : /\ row.conciliationId = IdOf(qrWorker.notice.of)
                            /\ row.code = qrWorker.notice.of /\ row.status = "CREATED"
                            /\ qrRows' = Append(qrRows, row)
<1> DEFINE q == qrWorker.notice.of
           row == [conciliationId |-> IdOf(q), code |-> q, status |-> "CREATED"]
<1>1. q \in QrRequest
  BY WritesFromNotice
<1>2. IdOf(q) \in QrRequest \cup ConciliationId
  BY <1>1, QrIds DEF QrInv
<1>3. row \in QrRow
  BY <1>1, <1>2 DEF QrRow, PixQrCodeStatus
<1>4. qrRows' = Append(qrRows, row)
  BY DEF WorkerWrites, RowsSaved, SaveCreated
<1> QED
  BY <1>3, <1>4

LEMMA WriteChanges ==
  ASSUME QrInv, WorkerWrites, ~(qrWorker.notice.event = "created" /\ qrWorker.row = NoRow)
  PROVE  /\ qrRows' \in Seq(QrRow) /\ DOMAIN qrRows' = DOMAIN qrRows
         /\ \A i \in DOMAIN qrRows : qrRows'[i].conciliationId = qrRows[i].conciliationId
         /\ \A i \in DOMAIN qrRows \ {qrWorker.row} : qrRows'[i] = qrRows[i]
         /\ qrWorker.row # NoRow /\ qrWorker.notice.event = "created" =>
              /\ qrRows'[qrWorker.row].code = qrWorker.notice.of
              /\ qrRows'[qrWorker.row].status = "CREATED"
         /\ qrWorker.row # NoRow /\ qrWorker.notice.event = "received" =>
              /\ qrRows'[qrWorker.row].code = qrRows[qrWorker.row].code
              /\ qrRows'[qrWorker.row].status = "PAID"
<1> DEFINE k == qrWorker.row
           q == qrWorker.notice.of
<1>1. /\ q \in QrRequest /\ qrWorker.notice.event \in {"created", "received"}
      /\ k # NoRow => k \in DOMAIN qrRows /\ qrRows[k] \in QrRow
      /\ qrRows \in Seq(QrRow)
  BY WritesFromNotice DEF QrInv, QrTypeOK
<1>2. qrRows' = RowsSaved
  BY DEF WorkerWrites
<1>3. CASE k = NoRow
  <2>1. UNCHANGED qrRows
    BY <1>1, <1>2, <1>3 DEF RowsSaved, MarkPaid
  <2> QED
    BY <1>1, <1>3, <2>1
<1>4. CASE k # NoRow
  <2>1. PICK new \in QrRow :
          /\ qrRows' = [qrRows EXCEPT ![k] = new]
          /\ new.conciliationId = qrRows[k].conciliationId
          /\ qrWorker.notice.event = "created" => new.code = q /\ new.status = "CREATED"
          /\ qrWorker.notice.event = "received" => new.code = qrRows[k].code /\ new.status = "PAID"
    <3>1. CASE qrWorker.notice.event = "created"
      <4> DEFINE new == [qrRows[k] EXCEPT !.code = q, !.status = "CREATED"]
      <4>1. /\ new \in QrRow /\ new.conciliationId = qrRows[k].conciliationId
            /\ new.code = q /\ new.status = "CREATED"
        BY <1>1, <1>4 DEF QrRow, PixQrCodeStatus
      <4>2. qrRows' = [qrRows EXCEPT ![k] = new]
        BY <1>1, <1>2, <1>4, <3>1 DEF RowsSaved, SaveCreated
      <4> QED
        BY <3>1, <4>1, <4>2
    <3>2. CASE qrWorker.notice.event = "received"
      <4> DEFINE new == [qrRows[k] EXCEPT !.status = "PAID"]
      <4>1. /\ new \in QrRow /\ new.conciliationId = qrRows[k].conciliationId
            /\ new.code = qrRows[k].code /\ new.status = "PAID"
        BY <1>1, <1>4 DEF QrRow, PixQrCodeStatus
      <4>2. qrRows' = [qrRows EXCEPT ![k] = new]
        BY <1>1, <1>2, <1>4, <3>2 DEF RowsSaved, MarkPaid
      <4> QED
        BY <3>2, <4>1, <4>2
    <3> QED
      BY <1>1, <3>1, <3>2
  <2>2. /\ qrRows' \in Seq(QrRow) /\ DOMAIN qrRows' = DOMAIN qrRows
        /\ \A i \in DOMAIN qrRows \ {k} : qrRows'[i] = qrRows[i]
        /\ qrRows'[k] = new
    BY <1>1, <1>4, <2>1
  <2> QED
    BY <1>1, <1>4, <2>1, <2>2
<1> QED
  BY <1>3, <1>4

\* Either way every row is some code's, and rows of an id are no more than they may be.
LEMMA InsertKeepsRows ==
  ASSUME QrInv, WorkerWrites, qrWorker.notice.event = "created", qrWorker.row = NoRow,
         NEW q0, q0 = qrWorker.notice.of
  PROVE  /\ qrRows' \in Seq(QrRow) /\ DOMAIN qrRows \subseteq DOMAIN qrRows'
         /\ QrRowsOK'
         /\ \A q \in QrRequest : InsertedForOne(q)'
         /\ \A id : RowsOf(id) # {} => RowsOf(id)' # {}
         /\ qrWorker.notice.event = "created" => RowsOf(IdOf(q0))' # {}
<1>0. PICK id0 : id0 = IdOf(q0)
  OBVIOUS
<1>1. /\ q0 \in QrRequest /\ codes[q0] # "none" /\ QrAges
      /\ qrWorker.notice.event = "received" => codes[q0] = "paid"
      /\ \A id : ~Inserting(id)'
      /\ UNCHANGED <<asked, codes, overtaken>>
  BY WritesFromNotice DEF WorkerWrites
<1>2. /\ \A q \in QrRequest : IdOf(q)' = IdOf(q)
      /\ \A id : (Overtook(id)' <=> Overtook(id)) /\ SavedWith(id)' = SavedWith(id)
      /\ \A q : ByRequest(q)' = ByRequest(q)
  BY <1>1 DEF IdOf, Overtook, SavedWith, ByRequest
<1>3. PICK row \in QrRow : /\ row.conciliationId = id0 /\ row.code = q0
                           /\ row.status = "CREATED" /\ qrRows' = Append(qrRows, row)
  BY <1>0, WriteInserts
<1>4. /\ qrRows' \in Seq(QrRow) /\ DOMAIN qrRows \subseteq DOMAIN qrRows'
      /\ \A i \in DOMAIN qrRows : qrRows'[i] = qrRows[i]
      /\ \A i \in DOMAIN qrRows' \ DOMAIN qrRows : qrRows'[i] = row
      /\ \A id : id # id0 => RowsOf(id)' = RowsOf(id)
      /\ RowsOf(id0)' # {}
      /\ Cardinality(RowsOf(id0)') = Cardinality(RowsOf(id0)) + 1
      /\ \A id : RowsOf(id) \subseteq RowsOf(id)'
      /\ \A q : q # q0 => QrRowsWith(q)' = QrRowsWith(q)
      /\ Cardinality(QrRowsWith(q0)') = Cardinality(QrRowsWith(q0)) + 1
  BY <1>3, QrInsertCounts DEF QrInv
<1>5. Inserting(id0)
  BY <1>0 DEF Inserting, WorkerWrites
<1>6. ASSUME NEW i \in DOMAIN qrRows' PROVE RowBelongs(qrRows[i])'
  <2>1. CASE i \in DOMAIN qrRows
    <3>1. RowBelongs(qrRows[i]) /\ qrRows'[i] = qrRows[i]
      BY <1>4, <2>1 DEF QrInv, QrRowsOK
    <3> QED
      BY <1>1, <3>1 DEF RowBelongs, IdOf
  <2>2. CASE i \notin DOMAIN qrRows
    <3>1. qrRows'[i] = row
      BY <1>4, <2>2
    <3> QED
      BY <1>0, <1>1, <1>3, <3>1 DEF RowBelongs, IdOf
  <2> QED
    BY <2>1, <2>2
<1>7. ASSUME NEW id \in ConciliationId PROVE InsertedWith(id)'
  <2>1. /\ InsertedWith(id) /\ Cardinality(SavedWith(id)) \in Nat
        /\ Cardinality(RowsOf(id)) \in Nat
    BY QrFinite DEF QrInv, QrRowsOK
  <2>2. CASE id # id0
    BY <1>1, <1>2, <1>4, <2>1, <2>2 DEF InsertedWith
  <2>3. CASE id = id0
    <3>1. Overtook(id) /\ Cardinality(RowsOf(id)) <= Cardinality(SavedWith(id))
      BY <1>5, <2>1, <2>3 DEF InsertedWith
    <3> QED
      BY <1>1, <1>2, <1>4, <2>1, <2>3, <3>1 DEF InsertedWith
  <2> QED
    BY <2>2, <2>3
<1>8. ASSUME NEW q \in QrRequest PROVE InsertedForOne(q)'
  <2> SUFFICES ASSUME asked[q].conciliationId = NoId PROVE InsertedForOne(q)'
    BY <1>1 DEF InsertedForOne
  <2>1. /\ Cardinality(QrRowsWith(q)) <= ByRequest(q) + (IF RowsOf(q) = {} THEN 0 ELSE 1)
        /\ Inserting(q) => RowsOf(q) = {}
        /\ Cardinality(QrRowsWith(q)) \in Nat /\ ByRequest(q) \in Nat
    BY QrFinite DEF QrInv, QrOf, InsertedForOne, ByRequest
  <2>2. id0 = q <=> q = q0
    BY <1>0, <1>1, QrIds DEF QrInv
  <2>3. CASE q # q0
    BY <1>1, <1>2, <1>4, <2>1, <2>2, <2>3 DEF InsertedForOne
  <2>4. CASE q = q0
    <3>1. RowsOf(q) = {} /\ RowsOf(q)' # {}
      BY <1>4, <1>5, <2>1, <2>2, <2>4
    <3>2. Cardinality(QrRowsWith(q)') <= ByRequest(q) + 1
      BY <1>4, <2>1, <2>4, <3>1
    <3> QED
      BY <1>1, <1>2, <3>1, <3>2 DEF InsertedForOne
  <2> QED
    BY <2>3, <2>4
<1> QED
  BY <1>0, <1>1, <1>2, <1>4, <1>6, <1>7, <1>8 DEF QrRowsOK

LEMMA ChangeKeepsRows ==
  ASSUME QrInv, WorkerWrites, ~(qrWorker.notice.event = "created" /\ qrWorker.row = NoRow),
         NEW q0, q0 = qrWorker.notice.of
  PROVE  /\ qrRows' \in Seq(QrRow) /\ DOMAIN qrRows \subseteq DOMAIN qrRows'
         /\ QrRowsOK'
         /\ \A q \in QrRequest : InsertedForOne(q)'
         /\ \A id : RowsOf(id) # {} => RowsOf(id)' # {}
         /\ qrWorker.notice.event = "created" => RowsOf(IdOf(q0))' # {}
<1>0. PICK id0 : id0 = IdOf(q0)
  OBVIOUS
<1>1. /\ q0 \in QrRequest /\ codes[q0] # "none" /\ QrAges
      /\ qrWorker.notice.event = "received" => codes[q0] = "paid"
      /\ \A id : ~Inserting(id)'
      /\ UNCHANGED <<asked, codes, overtaken>>
  BY WritesFromNotice DEF WorkerWrites
<1>2. /\ \A q \in QrRequest : IdOf(q)' = IdOf(q)
      /\ \A id : (Overtook(id)' <=> Overtook(id)) /\ SavedWith(id)' = SavedWith(id)
      /\ \A q : ByRequest(q)' = ByRequest(q)
  BY <1>1 DEF IdOf, Overtook, SavedWith, ByRequest
<1> DEFINE k == qrWorker.row
<1>3. /\ qrRows' \in Seq(QrRow) /\ DOMAIN qrRows' = DOMAIN qrRows
      /\ \A i \in DOMAIN qrRows : qrRows'[i].conciliationId = qrRows[i].conciliationId
      /\ \A i \in DOMAIN qrRows \ {k} : qrRows'[i] = qrRows[i]
      /\ k # NoRow =>
           /\ k \in DOMAIN qrRows /\ qrRows[k].conciliationId = id0 /\ qrRows[k] \in QrRow
           /\ qrRows'[k].conciliationId = id0
           /\ \/ qrWorker.notice.event = "created"
                /\ qrRows'[k].code = q0 /\ qrRows'[k].status = "CREATED"
              \/ qrWorker.notice.event = "received"
                /\ qrRows'[k].code = qrRows[k].code /\ qrRows'[k].status = "PAID"
  BY <1>0, WriteChanges, WritesFromNotice
<1> HIDE DEF k
<1>4. \A id : RowsOf(id)' = RowsOf(id)
  BY <1>3 DEF RowsOf
<1>5. k # NoRow => RowBelongs(qrRows[k]) /\ qrRows[k].code \in QrRequest /\ id0 # NoId
  <2>1. id0 # NoId
    BY <1>0, <1>1, CodesHaveIds DEF QrInv
  <2>2. k # NoRow => qrRows[k].code \in QrRequest
    BY <1>3 DEF QrRow
  <2> QED
    BY <1>3, <2>1, <2>2 DEF QrInv, QrRowsOK
<1>6. ASSUME NEW i \in DOMAIN qrRows PROVE RowBelongs(qrRows[i])'
  <2>1. RowBelongs(qrRows[i])
    BY DEF QrInv, QrRowsOK
  <2>2. CASE i # k
    <3>1. qrRows'[i] = qrRows[i]
      BY <1>3, <2>2
    <3> QED
      BY <1>1, <2>1, <3>1 DEF RowBelongs, IdOf
  <2>3. CASE i = k
    <3>1. k # NoRow
      BY <2>3, QrFinite DEF QrInv
    <3>2. /\ codes[q0] # "none" /\ codes[qrRows[k].code] # "none"
          /\ id0 = IdOf(qrRows[k].code)
      BY <1>1, <1>3, <1>5, <3>1 DEF RowBelongs
    <3>3. qrRows'[k].status = "PAID" => codes[q0] = "paid"
      BY <1>1, <1>3, <3>1
    <3> QED
      BY <1>0, <1>1, <1>3, <2>3, <3>1, <3>2, <3>3 DEF RowBelongs, IdOf
  <2> QED
    BY <2>2, <2>3
<1>7. ASSUME NEW id \in ConciliationId PROVE InsertedWith(id)'
  <2>1. InsertedWith(id) /\ Cardinality(SavedWith(id)) \in Nat
    BY QrFinite DEF QrInv, QrRowsOK
  <2> QED
    BY <1>1, <1>2, <1>4, <2>1 DEF InsertedWith
<1>8. ASSUME NEW q \in QrRequest PROVE InsertedForOne(q)'
  <2> SUFFICES ASSUME asked[q].conciliationId = NoId PROVE InsertedForOne(q)'
    BY <1>1 DEF InsertedForOne
  <2>1. IdOf(q) = q /\ \A p \in QrRequest : IdOf(p) = q => p = q
    BY QrIds DEF QrInv
  <2>2. k # NoRow => (qrRows'[k].code = q <=> qrRows[k].code = q)
    <3> SUFFICES ASSUME k # NoRow PROVE qrRows'[k].code = q <=> qrRows[k].code = q
      OBVIOUS
    <3>1. IdOf(q0) = id0 /\ IdOf(qrRows[k].code) = id0
      BY <1>0, <1>3, <1>5 DEF RowBelongs
    <3>2. (q0 = q <=> id0 = q) /\ (qrRows[k].code = q <=> id0 = q)
      BY <1>1, <1>5, <2>1, <3>1
    <3> QED
      BY <1>3, <3>2
  <2>3. QrRowsWith(q)' = QrRowsWith(q)
    BY <1>3, <2>2, QrFinite DEF QrRowsWith, QrInv
  <2> QED
    BY <1>1, <1>2, <1>4, <2>3 DEF QrInv, QrOf, InsertedForOne
<1>9. qrWorker.notice.event = "created" => RowsOf(IdOf(q0))' # {}
  <2> SUFFICES ASSUME qrWorker.notice.event = "created" PROVE RowsOf(IdOf(q0))' # {}
    OBVIOUS
  <2>1. k # NoRow
    BY DEF k
  <2>2. k \in RowsOf(id0)
    BY <1>3, <2>1 DEF RowsOf
  <2>3. IdOf(q0)' = id0
    BY <1>0, <1>1, <1>2
  <2> QED
    BY <1>4, <2>2, <2>3
<1> QED
  BY <1>3, <1>4, <1>6, <1>7, <1>8, <1>9 DEF QrRowsOK

LEMMA QrNoticeFailsKeepsQr == ASSUME QrInv, QrNoticeFails PROVE QrInv'
<1>1. /\ qrWorker # Idle /\ qrWorker' = Idle /\ notices' \subseteq notices
      /\ UNCHANGED <<keyVars, asked, codes, overtaken, early>>
      /\ UNCHANGED qrRows \/ (qrWorker.step = "save" /\ qrRows' = RowsSaved)
  BY DEF QrNoticeFails
<1>2. qrFaults' # 0 /\ qrFaults' \in 0 .. MaxQrFaults
  BY QrAssumption DEF QrNoticeFails, QrFault, QrInv, QrTypeOK
<1>3. /\ qrRows' \in Seq(QrRow) /\ QrRowsOK' /\ \A q \in QrRequest : InsertedForOne(q)'
  <2>1. CASE UNCHANGED qrRows
    <3>1. QrAges /\ \A id : ~Inserting(id)'
      BY <1>1, <1>2 DEF QrAges, Inserting
    <3> QED
      BY <1>1, <2>1, <3>1, QrRowsStay DEF QrInv, QrTypeOK
  <2>2. CASE qrWorker.step = "save" /\ qrRows' = RowsSaved
    <3>1. WorkerWrites
      BY <1>1, <1>2, <2>2 DEF WorkerWrites
    <3>2. PICK q0 : q0 = qrWorker.notice.of
      OBVIOUS
    <3> QED
      BY <3>1, <3>2, InsertKeepsRows, ChangeKeepsRows
  <2> QED
    BY <1>1, <2>1, <2>2
<1>4. QrTypeOK' /\ WorkerHasNotice'
  BY <1>1, <1>2, <1>3 DEF QrInv, QrTypeOK, WorkerHasNotice, keyVars
<1>5. \A q \in QrRequest : NoticesFollow(q)' /\ CreationLeavesRow(q)' /\ PaymentMarks(q)'
  BY <1>1, <1>2 DEF QrInv, QrOf, NoticesFollow, CreationLeavesRow, PaymentMarks
<1> QED
  BY <1>3, <1>4, <1>5 DEF QrInv, QrOf

\* The rows of a code whose id no other has are its own.
LEMMA RowsOfOneAreIts ==
  ASSUME QrInv, NEW q \in QrRequest, ~Shared(q), NEW i \in DOMAIN qrRows,
         qrRows[i].conciliationId = IdOf(q)
  PROVE  qrRows[i].code = q
<1>1. RowBelongs(qrRows[i]) /\ qrRows[i].code \in QrRequest /\ IdOf(q) # NoId
  BY QrRowsAreRows, CodesHaveIds DEF QrInv, QrRowsOK
<1> QED
  BY <1>1 DEF RowBelongs, Shared

\* What the worker's write does to such a code's rows.
LEMMA WriteOfOne ==
  ASSUME QrInv, WorkerWrites, NEW q \in QrRequest, ~Shared(q)
  PROVE  /\ HasPaidRow(q)' => HasPaidRow(q) \/ qrWorker.notice = ReceivedOf(q)
         /\ HasPaidRow(q) => HasPaidRow(q)' \/ qrWorker.notice = CreatedOf(q)
         /\ qrWorker.notice = ReceivedOf(q) /\ qrWorker.row # NoRow => HasPaidRow(q)'
<1> DEFINE k == qrWorker.row
<1>1. PICK q0 \in QrRequest :
        /\ q0 = qrWorker.notice.of /\ codes[q0] # "none"
        /\ qrWorker.notice.event = "created" => qrWorker.notice = CreatedOf(q0)
        /\ qrWorker.notice.event = "received" => qrWorker.notice = ReceivedOf(q0)
        /\ qrWorker.notice.event \in {"created", "received"}
        /\ qrWorker.notice = ReceivedOf(q) => q0 = q /\ qrWorker.notice.event = "received"
        /\ k # NoRow => k \in DOMAIN qrRows /\ qrRows[k].conciliationId = IdOf(q0)
  BY WritesFromNotice, NoticesOfOne
<1>2. CASE qrWorker.notice.event = "created" /\ k = NoRow
  <2>1. HasPaidRow(q)' = HasPaidRow(q)
    BY <1>2, WriteInserts, QrInsertCounts DEF QrInv
  <2> QED
    BY <1>1, <1>2, <2>1
<1>3. CASE ~(qrWorker.notice.event = "created" /\ k = NoRow)
  <2>1. /\ DOMAIN qrRows' = DOMAIN qrRows
        /\ \A i \in DOMAIN qrRows \ {k} : qrRows'[i] = qrRows[i]
        /\ k # NoRow /\ qrWorker.notice.event = "created" =>
             qrRows'[k].code = q0 /\ qrRows'[k].status = "CREATED"
        /\ k # NoRow /\ qrWorker.notice.event = "received" =>
             qrRows'[k].code = qrRows[k].code /\ qrRows'[k].status = "PAID"
    BY <1>1, <1>3, WriteChanges
  <2>2. k # NoRow /\ (qrRows[k].code = q \/ q0 = q) => q0 = q /\ qrRows[k].code = q
    <3>1. ASSUME k # NoRow, qrRows[k].code = q PROVE q0 = q
      <4>1. RowBelongs(qrRows[k]) /\ IdOf(q0) # NoId
        BY <1>1, <3>1, CodesHaveIds DEF QrInv, QrRowsOK
      <4>2. IdOf(q0) = IdOf(q)
        BY <1>1, <3>1, <4>1 DEF RowBelongs
      <4> QED
        BY <1>1, <4>2 DEF Shared
    <3>2. ASSUME k # NoRow, q0 = q PROVE qrRows[k].code = q
      BY <1>1, <3>2, RowsOfOneAreIts
    <3> QED
      BY <3>1, <3>2
  <2>3. NoRow \notin DOMAIN qrRows
    BY QrFinite DEF QrInv
  <2>4. ASSUME HasPaidRow(q)', ~HasPaidRow(q) PROVE qrWorker.notice = ReceivedOf(q)
    <3>1. PICK i \in DOMAIN qrRows : qrRows'[i].code = q /\ qrRows'[i].status = "PAID"
      BY <2>1, <2>4 DEF HasPaidRow, QrRowsWith
    <3>2. i = k /\ k # NoRow
      BY <2>1, <2>3, <2>4, <3>1 DEF HasPaidRow, QrRowsWith
    <3>3. qrWorker.notice.event = "received" /\ qrRows[k].code = q
      BY <1>1, <2>1, <3>1, <3>2
    <3> QED
      BY <1>1, <2>2, <3>2, <3>3
  <2>5. ASSUME HasPaidRow(q), ~HasPaidRow(q)' PROVE qrWorker.notice = CreatedOf(q)
    <3>1. PICK i \in DOMAIN qrRows : qrRows[i].code = q /\ qrRows[i].status = "PAID"
      BY <2>5 DEF HasPaidRow, QrRowsWith
    <3>2. i = k /\ k # NoRow
      BY <2>1, <2>3, <2>5, <3>1 DEF HasPaidRow, QrRowsWith
    <3>3. qrWorker.notice.event = "created"
      BY <1>1, <2>1, <2>5, <3>1, <3>2 DEF HasPaidRow, QrRowsWith
    <3> QED
      BY <1>1, <2>2, <3>1, <3>2, <3>3
  <2>6. ASSUME qrWorker.notice = ReceivedOf(q), k # NoRow PROVE HasPaidRow(q)'
    <3>1. qrRows[k].code = q /\ qrWorker.notice.event = "received" /\ k \in DOMAIN qrRows
      BY <1>1, <2>2, <2>6
    <3>2. qrRows'[k].code = q /\ qrRows'[k].status = "PAID"
      BY <2>1, <2>6, <3>1
    <3> QED
      BY <2>1, <3>1, <3>2 DEF HasPaidRow, QrRowsWith
  <2> QED
    BY <2>4, <2>5, <2>6
<1> QED
  BY <1>2, <1>3

LEMMA SaveQrRowKeepsQr == ASSUME QrInv, SaveQrRow PROVE QrInv'
<1>1. /\ WorkerWrites /\ qrWorker' = Idle /\ notices' = notices \ {qrWorker.notice}
      /\ UNCHANGED <<keyVars, asked, codes, overtaken, early, qrFaults>>
  BY DEF SaveQrRow, DoneWith, WorkerWrites
<1>2. PICK q0 : q0 = qrWorker.notice.of
  OBVIOUS
<1>3. /\ qrWorker.notice \in notices
      /\ qrWorker.notice = CreatedOf(q0) => qrWorker.notice.event = "created"
      /\ \A q : qrWorker.notice = CreatedOf(q) => q = q0
      /\ \A q : ~Marking(q)'
  BY <1>1, <1>2, WritesFromNotice, NoticesOfOne
<1>4. /\ qrRows' \in Seq(QrRow) /\ QrRowsOK' /\ \A q \in QrRequest : InsertedForOne(q)'
      /\ \A id : RowsOf(id) # {} => RowsOf(id)' # {}
      /\ qrWorker.notice.event = "created" => RowsOf(IdOf(q0))' # {}
  BY <1>1, <1>2, InsertKeepsRows, ChangeKeepsRows
<1>5. QrTypeOK' /\ WorkerHasNotice'
  BY <1>1, <1>4 DEF QrInv, QrTypeOK, WorkerHasNotice, keyVars
<1>6. ASSUME NEW q \in QrRequest
      PROVE  NoticesFollow(q)' /\ CreationLeavesRow(q)' /\ PaymentMarks(q)'
  <2>1. QrOf(q) /\ IdOf(q)' = IdOf(q) /\ (Shared(q) <=> Shared(q)')
    BY <1>1 DEF QrInv, IdOf, Shared
  <2>2. NoticesFollow(q)'
    BY <1>1, <2>1 DEF QrOf, NoticesFollow
  <2>3. CreatedOf(q) \notin notices' => CreatedOf(q) \notin notices \/ qrWorker.notice = CreatedOf(q)
    BY <1>1
  <2>4. CreationLeavesRow(q)'
    <3>1. qrWorker.notice = CreatedOf(q) => RowsOf(IdOf(q))' # {}
      BY <1>3, <1>4
    <3>2. RowsOf(IdOf(q)) # {} => RowsOf(IdOf(q))' # {}
      <4>1. PICK id : id = IdOf(q)
        OBVIOUS
      <4>2. id = IdOf(q)'
        BY <2>1, <4>1
      <4> QED
        BY <1>4, <4>1, <4>2
    <3> QED
      BY <1>1, <2>1, <2>3, <3>1, <3>2 DEF QrOf, CreationLeavesRow
  <2>5. PaymentMarks(q)'
    <3> SUFFICES ASSUME qrFaults = 0, q \notin early, ~Shared(q) PROVE PaymentMarks(q)'
      BY <1>1, <2>1 DEF PaymentMarks
    <3>1. /\ HasPaidRow(q)' => HasPaidRow(q) \/ qrWorker.notice = ReceivedOf(q)
          /\ HasPaidRow(q) => HasPaidRow(q)' \/ qrWorker.notice = CreatedOf(q)
          /\ qrWorker.notice = ReceivedOf(q) /\ qrWorker.row # NoRow => HasPaidRow(q)'
      BY <1>1, WriteOfOne
    <3>2. /\ Marking(q) => CreatedOf(q) \notin notices /\ qrWorker.row # NoRow
          /\ HasPaidRow(q) => CreatedOf(q) \notin notices
          /\ codes[q] = "paid" => ReceivedOf(q) \in notices \/ HasPaidRow(q)
      BY <2>1 DEF QrOf, PaymentMarks
    <3>3. qrWorker.notice = ReceivedOf(q) => Marking(q)
      BY <1>1 DEF Marking, WorkerWrites
    <3>4. HasPaidRow(q)' => CreatedOf(q) \notin notices'
      BY <1>1, <3>1, <3>2, <3>3
    <3>5. codes[q] = "paid" => ReceivedOf(q) \in notices' \/ HasPaidRow(q)'
      BY <1>1, <1>3, <3>1, <3>2, <3>3
    <3> QED
      BY <1>1, <1>3, <3>4, <3>5 DEF PaymentMarks
  <2> QED
    BY <2>2, <2>4, <2>5
<1> QED
  BY <1>4, <1>5, <1>6 DEF QrInv, QrOf

LEMMA QrNextInv == QrInv /\ [QrNext]_qrVars => QrInv'
<1> SUFFICES ASSUME QrInv, [QrNext]_qrVars PROVE QrInv'
  OBVIOUS
<1> QED
  BY KeysKeepQr, RequestsKeepQr, SaveQrCodeKeepsQr, TakeQrNoticeKeepsQr, FindQrRowKeepsQr,
     SaveQrRowKeepsQr, QrNoticeFailsKeepsQr
  DEF QrNext

\* In every state of QrSpec the worker holds a notice in the queue, and rows and notices
\* of each conciliation id account for one another.
THEOREM QrInvariance == QrSpec => []QrInv
BY QrInitInv, QrNextInv, PTL DEF QrSpec

\* The codes that share a conciliation id, one code if no other has its id, have no more
\* rows than they are, however their creations' notices, failures and payments interleave
\* with the requests that asked for them, but for one that a notice inserted before the
\* request it overtook; a code that was asked for without an id has two at most.
THEOREM OneRowEach == QrSpec => []OneRowPerQrCode
<1>1. ASSUME QrInv, NEW id \in ConciliationId
      PROVE  Cardinality(RowsOf(id)) <=
               Cardinality(IssuedWith(id)) + IF IssuedWith(id) \cap overtaken = {} THEN 0 ELSE 1
  <2>1. /\ Cardinality(RowsOf(id)) <= Cardinality(SavedWith(id)) + (IF Overtook(id) THEN 1 ELSE 0)
        /\ Cardinality(SavedWith(id)) \in Nat /\ Cardinality(RowsOf(id)) \in Nat
    BY <1>1, QrFinite DEF QrInv, QrRowsOK, InsertedWith
  <2>2. SavedWith(id) \subseteq IssuedWith(id)
    BY <1>1 DEF QrInv, QrOf, NoticesFollow, SavedWith, IssuedWith
  <2>3. IsFiniteSet(IssuedWith(id))
    BY QrAssumption, FS_Subset DEF IssuedWith
  <2>4. /\ Cardinality(SavedWith(id)) <= Cardinality(IssuedWith(id))
        /\ Cardinality(IssuedWith(id)) \in Nat
    BY <2>2, <2>3, FS_Subset, FS_CardinalityType
  <2>5. ASSUME Overtook(id), IssuedWith(id) \cap overtaken = {}
        PROVE  Cardinality(SavedWith(id)) + 1 <= Cardinality(IssuedWith(id))
    <3>1. PICK q \in IssuedWith(id) : asked[q].step = "failed"
      BY <2>5 DEF Overtook, IssuedWith
    <3>2. q \notin SavedWith(id)
      BY <3>1 DEF SavedWith
    <3>3. SavedWith(id) \cup {q} \subseteq IssuedWith(id)
      BY <2>2, <3>1
    <3>4. /\ Cardinality(SavedWith(id) \cup {q}) = Cardinality(SavedWith(id)) + 1
      BY <1>1, <3>2, QrFinite, FS_AddElement DEF QrInv
    <3> QED
      BY <2>3, <3>3, <3>4, FS_Subset
  <2> QED
    BY <2>1, <2>4, <2>5
<1>2. ASSUME QrInv, NEW q \in QrRequest, asked[q].conciliationId = NoId
      PROVE  Cardinality(QrRowsWith(q)) <= 2
  BY <1>2, QrFinite DEF QrInv, QrOf, InsertedForOne, ByRequest
<1>3. QrInv => OneRowPerQrCode
  BY <1>1, <1>2 DEF OneRowPerQrCode, RowsOf, QrRowsWith
<1> QED
  BY <1>3, QrInvariance, PTL

\* When nothing failed and all notices are handled, every paid code whose creation
\* was handled first, and whose conciliation id no other code has, has a row that says
\* PAID; and always, a row says PAID only if a code with its conciliation id was paid.
THEOREM PaymentsMarkCodes == QrSpec => []PaidQrCodesAreMarked
<1>1. ASSUME QrInv, qrFaults = 0, notices = {},
             NEW q \in QrRequest, codes[q] = "paid", q \notin early, ~Shared(q)
      PROVE  HasPaidRow(q)
  BY <1>1 DEF QrInv, QrOf, PaymentMarks
<1>2. ASSUME QrInv, NEW i \in DOMAIN qrRows, qrRows[i].status = "PAID"
      PROVE  \E q \in QrRequest : codes[q] = "paid" /\ IdOf(q) = qrRows[i].conciliationId
  BY <1>2 DEF QrInv, QrRowsOK, RowBelongs
<1>3. QrInv => PaidQrCodesAreMarked
  BY <1>1, <1>2 DEF PaidQrCodesAreMarked, HasPaidRow, QrRowsWith
<1> QED
  BY <1>3, QrInvariance, PTL

-----------------------------------------------------------------------------
(* The reception of webhooks: the endpoints against the processors' switches, and the *)
(* way of a request's events to their handler.                                        *)

LEMMA RoutesRecords ==
  ASSUME NEW queue, NEW event, NEW type
  PROVE  /\ Route(queue, event, type).queue = queue
         /\ Route(queue, event, type).event = event
         /\ Route(queue, event, type).type = type
BY DEF Route

\* An endpoint's job is given to the handler of the endpoint's event.
LEMMA PixSwitchAgrees ==
  ASSUME NEW route \in PixRoutes
  PROVE  /\ route.queue = "webhook-pix" /\ route.event \in PixEvent
         /\ PixSwitch[route.type].event = route.event
BY DEF PixRoutes, Route, PixEvent, PixSwitch, PixCashInReceived, PixCashInCleared,
       PixCashOutEvent, PixCashOutCompleted, PixCashOutCanceled, PixCashOutUndone,
       PixRefundReceived, PixRefundCleared, PixQrCodeCreated, Handler

LEMMA TedSwitchAgrees ==
  ASSUME NEW route \in TedRoutes
  PROVE  /\ route.queue = "webhook-ted" /\ route.event \in TedEvent
         /\ TedSwitch[route.type].event = route.event
BY DEF TedRoutes, Route, TedEvent, TedSwitch, TedCashOutEvent, TedCashOutApproved,
       TedCashOutDone, TedCashOutCanceled, TedCashOutReproved, TedCashOutUndone,
       TedCashInReceived, TedCashInCleared, TedRefundReceived, TedRefundCleared, Handler

LEMMA BoletoSwitchAgrees ==
  ASSUME NEW route \in BoletoRoutes
  PROVE  /\ route.queue = "webhook-boleto" /\ route.event \in BoletoEvent
         /\ BoletoSwitch[route.type].event = route.event
BY DEF BoletoRoutes, Route, BoletoEvent, BoletoSwitch, BoletoRegistered,
       BoletoCashInReceived, BoletoCashInCleared, BoletoCancelled, Handler

LEMMA BillPaymentSwitchAgrees ==
  ASSUME NEW route \in BillPaymentRoutes
  PROVE  /\ route.queue = "webhook-bill-payment" /\ route.event \in BillPaymentEvent
         /\ BillPaymentSwitch[route.type].event = route.event
BY DEF BillPaymentRoutes, Route, BillPaymentEvent, BillPaymentSwitch, BillPaymentReceived,
       BillPaymentCreated, BillPaymentConfirmed, BillPaymentFailed, BillPaymentCancelled,
       BillPaymentRefused, Handler

LEMMA SwitchesAgree ==
  ASSUME NEW route \in Routes
  PROVE  /\ SwitchOf(route.queue)[route.type].event = route.event
         /\ route.queue = "webhook-ted" <=> route.event \in TedEvent
<1>1. CASE route \in PixRoutes
  BY <1>1, PixSwitchAgrees DEF SwitchOf, PixEvent, TedEvent
<1>2. CASE route \in TedRoutes
  BY <1>2, TedSwitchAgrees DEF SwitchOf
<1>3. CASE route \in BoletoRoutes
  BY <1>3, BoletoSwitchAgrees DEF SwitchOf, BoletoEvent, TedEvent
<1>4. CASE route \in BillPaymentRoutes
  BY <1>4, BillPaymentSwitchAgrees DEF SwitchOf, BillPaymentEvent, TedEvent
<1> QED
  BY <1>1, <1>2, <1>3, <1>4 DEF Routes

\* Every event has an endpoint.
LEMMA EveryEventIsRouted ==
  ASSUME NEW event \in WebhookEvent
  PROVE  RouteOf(event) \in Routes /\ RouteOf(event).event = event
<1>1. \A e \in PixEvent : \E route \in PixRoutes : route.event = e
  BY DEF PixEvent, PixRoutes, Route
<1>2. \A e \in TedEvent : \E route \in TedRoutes : route.event = e
  BY DEF TedEvent, TedRoutes, Route
<1>3. \A e \in BoletoEvent : \E route \in BoletoRoutes : route.event = e
  BY DEF BoletoEvent, BoletoRoutes, Route
<1>4. \A e \in BillPaymentEvent : \E route \in BillPaymentRoutes : route.event = e
  BY DEF BillPaymentEvent, BillPaymentRoutes, Route
<1>5. \E route \in Routes : route.event = event
  BY <1>1, <1>2, <1>3, <1>4 DEF WebhookEvent, Routes
<1> QED
  BY <1>5 DEF RouteOf

\* What a request's job carries: its events as the normaliser left them.
LEMMA JobOfRequest ==
  ASSUME NEW r \in Post, posts[r].post \in Posting[r]
  PROVE  /\ JobOf(r) \in Job
         /\ JobOf(r).from = r
         /\ JobOf(r).client = KeyOwner[posts[r].post.publicKey]
         /\ JobOf(r).id = posts[r].post.notices[1].id
         /\ JobOf(r).queue = RouteOf(posts[r].post.event).queue
         /\ SwitchOf(JobOf(r).queue)[JobOf(r).type].event = posts[r].post.event
         /\ DOMAIN JobOf(r).notices = DOMAIN posts[r].post.notices
         /\ \A i \in DOMAIN posts[r].post.notices :
              /\ JobOf(r).notices[i].id = posts[r].post.notices[i].id
              /\ JobOf(r).notices[i].code =
                   IF posts[r].post.notices[i].code = NoCode /\ posts[r].post.event \in TedEvent
                   THEN posts[r].post.notices[i].envelope
                   ELSE posts[r].post.notices[i].code
<1> DEFINE p == posts[r].post
           route == RouteOf(p.event)
           events == NormalizeEvents(route.queue, p.notices)
<1>1. /\ p.publicKey \in PublicKey /\ p.event \in WebhookEvent
      /\ p.notices \in Seq(Notice) /\ p.notices # << >>
  BY PostAssumption
<1>2. route \in Routes /\ route.event = p.event
  BY <1>1, EveryEventIsRouted
<1>3. /\ SwitchOf(route.queue)[route.type].event = p.event
      /\ route.queue = "webhook-ted" <=> p.event \in TedEvent
  BY <1>2, SwitchesAgree
<1>4. \A i \in DOMAIN p.notices : p.notices[i] \in Notice
  BY <1>1, ElementOfSeq
<1>5. 1 \in DOMAIN p.notices
  BY <1>1, EmptySeq
<1>6. DOMAIN events = DOMAIN p.notices
  BY DEF NormalizeEvents
<1>7. \A notice \in Notice :
        /\ NormalizeTed(notice) \in Notice
        /\ NormalizeTed(notice).id = notice.id
        /\ NormalizeTed(notice).code =
             IF notice.code = NoCode THEN notice.envelope ELSE notice.code
  BY DEF NormalizeTed, Notice
<1>8. \A i \in DOMAIN p.notices :
        /\ events[i] \in Notice
        /\ events[i].id = p.notices[i].id
        /\ events[i].code = IF p.notices[i].code = NoCode /\ p.event \in TedEvent
                            THEN p.notices[i].envelope ELSE p.notices[i].code
  BY <1>3, <1>4, <1>7 DEF NormalizeEvents
<1>9. events \in Seq(Notice)
  <2>1. DOMAIN events = 1 .. Len(p.notices) /\ Len(p.notices) \in Nat
    BY <1>1, <1>6
  <2>2. events = [i \in 1 .. Len(p.notices) |-> events[i]]
    <3>1. CASE route.queue = "webhook-ted"
      BY <2>1, <3>1 DEF NormalizeEvents
    <3>2. CASE route.queue # "webhook-ted"
      BY <1>1, <2>1, <3>2 DEF NormalizeEvents
    <3> QED
      BY <3>1, <3>2
  <2>3. \A i \in 1 .. Len(p.notices) : events[i] \in Notice
    BY <1>6, <1>8, <2>1
  <2> HIDE DEF events
  <2> QED
    BY <2>1, <2>2, <2>3, IsASeq
<1>10. JobOf(r) = [queue |-> route.queue, id |-> p.notices[1].id, type |-> route.type,
                   notices |-> events, client |-> KeyOwner[p.publicKey], from |-> r]
  BY DEF JobOf
<1>11. p.notices[1].id \in STRING
  BY <1>4, <1>5 DEF Notice
<1> HIDE DEF p, route, events
<1>12. /\ JobOf(r).from = r
       /\ JobOf(r).client = KeyOwner[p.publicKey]
       /\ JobOf(r).id = p.notices[1].id
       /\ JobOf(r).queue = route.queue
       /\ JobOf(r).type = route.type
       /\ JobOf(r).notices = events
  BY <1>10
<1>13. JobOf(r) \in Job
  BY <1>1, <1>2, <1>9, <1>10, <1>11 DEF Job
<1>14. SwitchOf(JobOf(r).queue)[JobOf(r).type].event = p.event
  BY <1>3, <1>12
<1>15. DOMAIN JobOf(r).notices = DOMAIN p.notices
  BY <1>6, <1>12
<1>16. \A i \in DOMAIN p.notices :
         /\ JobOf(r).notices[i].id = p.notices[i].id
         /\ JobOf(r).notices[i].code = IF p.notices[i].code = NoCode /\ p.event \in TedEvent
                                      THEN p.notices[i].envelope ELSE p.notices[i].code
  <2>1. JobOf(r).notices = events
    BY <1>12
  <2> QED
    BY <1>8, <2>1, Zenon
<1>17. p = posts[r].post /\ route = RouteOf(p.event)
  BY DEF p, route
<1>18. /\ JobOf(r).client = KeyOwner[posts[r].post.publicKey]
       /\ JobOf(r).id = posts[r].post.notices[1].id
       /\ JobOf(r).queue = RouteOf(posts[r].post.event).queue
       /\ SwitchOf(JobOf(r).queue)[JobOf(r).type].event = posts[r].post.event
       /\ DOMAIN JobOf(r).notices = DOMAIN posts[r].post.notices
  BY <1>12, <1>14, <1>15, <1>17, Zenon
<1>19. \A i \in DOMAIN posts[r].post.notices :
         /\ JobOf(r).notices[i].id = posts[r].post.notices[i].id
         /\ JobOf(r).notices[i].code =
              IF posts[r].post.notices[i].code = NoCode /\ posts[r].post.event \in TedEvent
              THEN posts[r].post.notices[i].envelope
              ELSE posts[r].post.notices[i].code
  BY <1>16 DEF p
<1> HIDE DEF p
<1> QED
  BY <1>12, <1>13, <1>18, <1>19, Zenon

-----------------------------------------------------------------------------
(* The way of a request to its handler. *)

\* What the guard left with a request.
RequestsGuarded ==
  /\ DOMAIN posts = Post
  /\ \A r \in Post :
       \/ posts[r].step = "idle"
       \/ posts[r] \in [step : {"guarded", "received"}, post : Posting[r],
                        validPublicKey : BOOLEAN]

\* A job is the one its request was answered for.
JobsOfRequests ==
  \A j \in jobs :
    /\ j.from \in Post
    /\ posts[j.from].step = "received"
    /\ j = JobOf(j.from)

\* A request's job was refused for one of the same queue and first event.
RefusalsExplained ==
  \A d \in displaced :
    /\ d \in Post \X Post
    /\ \A i \in {1, 2} : posts[d[i]].step = "received"
    /\ JobOf(d[1]).queue = JobOf(d[2]).queue
    /\ JobOf(d[1]).id = JobOf(d[2]).id

IntakeInv ==
  /\ IntakeTypeOK
  /\ RequestsGuarded
  /\ JobsOfRequests
  /\ RefusalsExplained
  /\ ReceivedEventsAreHandled

LEMMA IntakeStarts == IntakeInit => IntakeInv
BY DEF IntakeInit, IntakeInv, IntakeTypeOK, RequestsGuarded, JobsOfRequests,
       RefusalsExplained, ReceivedEventsAreHandled

\* As long as the answered requests stay what they are, so do their jobs, what was
\* handed over and what was refused.
LEMMA AnswersStay ==
  ASSUME RefusalsExplained,
         \A r \in Post : posts[r].step = "received" => posts'[r] = posts[r],
         handled \subseteq handled',
         displaced \subseteq displaced',
         NEW r \in Post, posts[r].step = "received"
  PROVE  /\ JobOf(r)' = JobOf(r)
         /\ Displaced(r) => Displaced(r)'
         /\ \A i \in DOMAIN posts[r].post.notices :
              HandedOver(r, posts[r].post.notices[i])
                => HandedOver(r, posts[r].post.notices[i])'
<1>1. posts'[r] = posts[r]
  OBVIOUS
<1>2. JobOf(r)' = JobOf(r)
  BY <1>1 DEF JobOf
<1>3. ASSUME Displaced(r)
      PROVE  Displaced(r)'
  <2>1. PICK other \in Post :
          /\ <<r, other>> \in displaced
          /\ RouteOf(posts[other].post.event).queue = RouteOf(posts[r].post.event).queue
          /\ posts[other].post.notices[1].id = posts[r].post.notices[1].id
    BY <1>3 DEF Displaced
  <2>2. posts[other].step = "received"
    BY <2>1 DEF RefusalsExplained
  <2>3. posts'[other] = posts[other]
    BY <2>2
  <2> QED
    BY <1>1, <2>1, <2>3 DEF Displaced
<1>4. ASSUME NEW i \in DOMAIN posts[r].post.notices,
             HandedOver(r, posts[r].post.notices[i])
      PROVE  HandedOver(r, posts[r].post.notices[i])'
  BY <1>1, <1>4 DEF HandedOver
<1> QED
  BY <1>2, <1>3, <1>4

LEMMA IntakeUndisturbed ==
  ASSUME RequestsGuarded, JobsOfRequests, RefusalsExplained, ReceivedEventsAreHandled,
         UNCHANGED <<posts, jobs, handled, displaced>>
  PROVE  /\ RequestsGuarded' /\ JobsOfRequests'
         /\ RefusalsExplained' /\ ReceivedEventsAreHandled'
<1>1. \A r \in Post : JobOf(r)' = JobOf(r)
  BY DEF JobOf
<1>2. RequestsGuarded'
  BY DEF RequestsGuarded
<1>3. JobsOfRequests'
  BY <1>1 DEF JobsOfRequests
<1>4. RefusalsExplained'
  <2>1. displaced' = displaced /\ posts' = posts
    OBVIOUS
  <2>2. ASSUME NEW d \in displaced
        PROVE  /\ JobOf(d[1])'.queue = JobOf(d[2])'.queue
               /\ JobOf(d[1])'.id = JobOf(d[2])'.id
    BY <1>1 DEF RefusalsExplained
  <2> QED
    BY <2>1, <2>2 DEF RefusalsExplained
<1>5. ReceivedEventsAreHandled'
  BY DEF ReceivedEventsAreHandled, HandedOver, Displaced
<1> QED
  BY <1>2, <1>3, <1>4, <1>5

LEMMA IntakePreserved ==
  ASSUME IntakeInv, [IntakeNext]_intakeVars
  PROVE  IntakeInv'
<1> USE DEF IntakeInv
<1>1. CASE UNCHANGED intakeVars
  BY <1>1, IntakeUndisturbed DEF intakeVars, IntakeTypeOK
<1>2. ASSUME NEW k \in PublicKey, SaveKeyRow(k) \/ DeleteKeyRow(k)
      PROVE  IntakeInv'
  <2>1. IntakeTypeOK'
    BY <1>2 DEF SaveKeyRow, DeleteKeyRow, IntakeTypeOK
  <2>2. UNCHANGED <<posts, jobs, handled, displaced>>
    BY <1>2 DEF SaveKeyRow, DeleteKeyRow
  <2> QED
    BY <2>1, <2>2, IntakeUndisturbed
<1>3. ASSUME NEW r \in Post, NEW p \in Posting[r], CanActivate(r, p)
      PROVE  IntakeInv'
  <2>1. /\ posts[r].step = "idle"
        /\ posts'[r] = [step |-> "guarded", post |-> p,
                        validPublicKey |-> keys[p.publicKey] = "saved"]
        /\ \A q \in Post : q # r => posts'[q] = posts[q]
        /\ DOMAIN posts' = Post
        /\ UNCHANGED <<keys, jobs, handled, displaced>>
    BY <1>3 DEF CanActivate, RequestsGuarded
  <2>2. \A q \in Post : posts[q].step = "received" => posts'[q] = posts[q]
    BY <2>1
  <2>3. \A q \in Post : posts[q].step = "received" => JobOf(q)' = JobOf(q)
    BY <2>1, <2>2, AnswersStay
  <2>4. IntakeTypeOK'
    BY <2>1 DEF IntakeTypeOK
  <2>5. RequestsGuarded'
    <3> DEFINE valid == keys[p.publicKey] = "saved"
    <3>1. valid \in BOOLEAN
      OBVIOUS
    <3>2. posts'[r] = [step |-> "guarded", post |-> p, validPublicKey |-> valid]
      BY <2>1
    <3> HIDE DEF valid
    <3>3. posts'[r] \in [step : {"guarded", "received"}, post : Posting[r],
                         validPublicKey : BOOLEAN]
      BY <3>1, <3>2
    <3> QED
      BY <2>1, <3>3 DEF RequestsGuarded
  <2>6. JobsOfRequests'
    BY <2>1, <2>2, <2>3 DEF JobsOfRequests
  <2>7. RefusalsExplained'
    BY <2>1, <2>2, <2>3 DEF RefusalsExplained
  <2>8. ReceivedEventsAreHandled'
    BY <2>1, <2>2, AnswersStay DEF ReceivedEventsAreHandled
  <2> QED
    BY <2>4, <2>5, <2>6, <2>7, <2>8
<1>4. ASSUME NEW r \in Post, EnqueueWebhookEvent(r)
      PROVE  IntakeInv'
  <2> DEFINE job == JobOf(r)
  <2>1. /\ posts[r].step = "guarded"
        /\ posts'[r] = [posts[r] EXCEPT !.step = "received"]
        /\ \A q \in Post : q # r => posts'[q] = posts[q]
        /\ DOMAIN posts' = Post
        /\ jobs' = IF posts[r].validPublicKey /\ Queued(job) = {}
                   THEN jobs \cup {job} ELSE jobs
        /\ displaced' = IF posts[r].validPublicKey
                        THEN displaced \cup {<<r, j.from>> : j \in Queued(job)}
                        ELSE displaced
        /\ UNCHANGED <<keys, handled>>
    BY <1>4 DEF EnqueueWebhookEvent, RequestsGuarded
  <2>2. posts[r] \in [step : {"guarded", "received"}, post : Posting[r],
                      validPublicKey : BOOLEAN]
    BY <2>1 DEF RequestsGuarded
  <2>3. /\ posts'[r] \in [step : {"guarded", "received"}, post : Posting[r],
                          validPublicKey : BOOLEAN]
        /\ posts'[r].step = "received" /\ posts'[r].post = posts[r].post
        /\ posts'[r].validPublicKey = posts[r].validPublicKey
    BY <2>1, <2>2
  <2>4. JobOf(r)' = job
    BY <2>3 DEF JobOf
  <2>5. \A q \in Post : posts[q].step = "received" => posts'[q] = posts[q]
    BY <2>1
  <2>6. displaced \subseteq displaced' /\ handled \subseteq handled'
    BY <2>1
  <2>7. \A q \in Post : posts[q].step = "received" => JobOf(q)' = JobOf(q)
    BY <2>5, <2>6, AnswersStay
  <2>8. job \in Job /\ job.from = r
    BY <2>2, JobOfRequest
  <2>9. \A j \in Queued(job) :
          /\ j \in jobs /\ j.from \in Post /\ posts[j.from].step = "received"
          /\ j = JobOf(j.from) /\ j.queue = job.queue /\ j.id = job.id
    BY DEF Queued, JobsOfRequests
  <2> HIDE DEF job
  <2>10. RequestsGuarded'
    BY <2>1, <2>3 DEF RequestsGuarded
  <2>11. IntakeTypeOK'
    <3>1. \A q \in Post : posts'[q].step # "idle" => posts'[q].post \in Posting[q]
      BY <2>1, <2>3 DEF IntakeTypeOK
    <3>2. jobs' \subseteq Job
      BY <2>1, <2>8 DEF IntakeTypeOK
    <3>3. \A j, other \in jobs' : j.queue = other.queue /\ j.id = other.id => j = other
      BY <2>1 DEF IntakeTypeOK, Queued
    <3>4. displaced' \subseteq Post \X Post
      BY <2>1, <2>9 DEF IntakeTypeOK
    <3> QED
      BY <2>1, <3>1, <3>2, <3>3, <3>4 DEF IntakeTypeOK
  <2>12. JobsOfRequests'
    <3>1. ASSUME NEW j \in jobs'
          PROVE  j.from \in Post /\ posts'[j.from].step = "received" /\ j = JobOf(j.from)'
      <4>1. CASE j \in jobs
        BY <2>5, <2>7, <4>1 DEF JobsOfRequests
      <4>2. CASE j = job
        BY <2>3, <2>4, <2>8, <4>2
      <4> QED
        BY <2>1, <4>1, <4>2
    <3> QED
      BY <3>1 DEF JobsOfRequests
  <2>13. RefusalsExplained'
    <3>1. ASSUME NEW d \in displaced'
          PROVE  /\ d \in Post \X Post
                 /\ \A i \in {1, 2} : posts'[d[i]].step = "received"
                 /\ JobOf(d[1])'.queue = JobOf(d[2])'.queue
                 /\ JobOf(d[1])'.id = JobOf(d[2])'.id
      <4>1. CASE d \in displaced
        BY <2>5, <2>7, <4>1 DEF RefusalsExplained
      <4>2. ASSUME NEW j \in Queued(job), d = <<r, j.from>>
            PROVE  /\ d \in Post \X Post
                   /\ \A i \in {1, 2} : posts'[d[i]].step = "received"
                   /\ JobOf(d[1])'.queue = JobOf(d[2])'.queue
                   /\ JobOf(d[1])'.id = JobOf(d[2])'.id
        <5>1. JobOf(j.from)' = j /\ posts'[j.from].step = "received"
          BY <2>5, <2>7, <2>9
        <5> QED
          BY <2>3, <2>4, <2>9, <4>2, <5>1
      <4> QED
        BY <2>1, <4>1, <4>2
    <3> QED
      BY <3>1 DEF RefusalsExplained
  <2>14. ReceivedEventsAreHandled'
    <3>1. ASSUME NEW q \in Post, q # r, posts'[q].step = "received", posts'[q].validPublicKey
          PROVE  \/ \E j \in jobs' : j.from = q
                 \/ \A i \in DOMAIN posts'[q].post.notices :
                      HandedOver(q, posts[q].post.notices[i])'
                 \/ Displaced(q)'
      <4>1. posts[q].step = "received" /\ posts[q].validPublicKey /\ posts'[q] = posts[q]
        BY <2>1, <3>1
      <4> QED
        BY <2>1, <2>5, <2>6, <4>1, AnswersStay DEF ReceivedEventsAreHandled
    <3>2. ASSUME posts'[r].validPublicKey
          PROVE  (\E j \in jobs' : j.from = r) \/ Displaced(r)'
      <4>1. CASE Queued(job) = {}
        BY <2>1, <2>3, <2>8, <3>2, <4>1
      <4>2. ASSUME NEW j \in Queued(job)
            PROVE  Displaced(r)'
        <5>1. <<r, j.from>> \in displaced'
          BY <2>1, <2>3, <3>2
        <5>2. posts'[j.from] = posts[j.from]
          BY <2>5, <2>9
        <5>3. /\ j.queue = RouteOf(posts[j.from].post.event).queue
              /\ j.id = posts[j.from].post.notices[1].id
          <6>1. posts[j.from].post \in Posting[j.from]
            BY <2>9 DEF IntakeTypeOK
          <6> QED
            BY <2>9, <6>1, JobOfRequest
        <5>4. /\ job.queue = RouteOf(posts[r].post.event).queue
              /\ job.id = posts[r].post.notices[1].id
          BY <2>2, JobOfRequest DEF job
        <5>5. j.from \in Post /\ j.queue = job.queue /\ j.id = job.id
          BY <2>9
        <5>6. posts'[r].post = posts[r].post /\ posts'[j.from].post = posts[j.from].post
          BY <2>3, <5>2
        <5>7. /\ RouteOf(posts'[j.from].post.event).queue = RouteOf(posts'[r].post.event).queue
              /\ posts'[j.from].post.notices[1].id = posts'[r].post.notices[1].id
          BY <5>3, <5>4, <5>5, <5>6
        <5>8. \E other \in Post :
                /\ <<r, other>> \in displaced'
                /\ RouteOf(posts'[other].post.event).queue
                     = RouteOf(posts'[r].post.event).queue
                /\ posts'[other].post.notices[1].id = posts'[r].post.notices[1].id
          BY <5>1, <5>5, <5>7
        <5> QED
          BY <5>8 DEF Displaced
      <4> QED
        BY <4>1, <4>2
    <3> QED
      BY <3>1, <3>2 DEF ReceivedEventsAreHandled
  <2> QED
    BY <2>10, <2>11, <2>12, <2>13, <2>14
<1>5. ASSUME NEW job \in jobs, HandleJob(job)
      PROVE  IntakeInv'
  <2> DEFINE given == {[by |-> SwitchOf(job.queue)[job.type].event,
                        notice |-> job.notices[i],
                        client |-> job.client, from |-> job.from] : i \in DOMAIN job.notices}
  <2>1. /\ jobs' = jobs \ {job}
        /\ handled' = handled \cup given
        /\ UNCHANGED <<keys, posts, displaced>>
    BY <1>5 DEF HandleJob
  <2>2. /\ job.from \in Post
        /\ posts[job.from].step = "received" /\ posts[job.from].post \in Posting[job.from]
        /\ job = JobOf(job.from)
    BY DEF JobsOfRequests, IntakeTypeOK
  <2>3. \A i \in DOMAIN posts[job.from].post.notices :
          HandedOver(job.from, posts[job.from].post.notices[i])'
    <3> SUFFICES ASSUME NEW i \in DOMAIN posts[job.from].post.notices
                 PROVE  HandedOver(job.from, posts[job.from].post.notices[i])'
      OBVIOUS
    <3> DEFINE r == job.from
               h == [by |-> SwitchOf(job.queue)[job.type].event,
                     notice |-> job.notices[i], client |-> job.client, from |-> job.from]
    <3>1. /\ job.client = KeyOwner[posts[r].post.publicKey]
          /\ SwitchOf(job.queue)[job.type].event = posts[r].post.event
          /\ i \in DOMAIN job.notices
          /\ job.notices[i].id = posts[r].post.notices[i].id
          /\ job.notices[i].code =
               IF posts[r].post.notices[i].code = NoCode /\ posts[r].post.event \in TedEvent
               THEN posts[r].post.notices[i].envelope
               ELSE posts[r].post.notices[i].code
      BY <2>2, JobOfRequest
    <3>2. h \in handled'
      BY <2>1, <3>1
    <3>3. /\ h.from = r /\ h.by = posts[r].post.event
          /\ h.client = KeyOwner[posts[r].post.publicKey]
          /\ h.notice = job.notices[i]
      BY <3>1
    <3> HIDE DEF h
    <3>4. h.notice.id = posts[r].post.notices[i].id
      BY <3>1, <3>3
    <3>5. IF posts[r].post.notices[i].code = NoCode /\ h.by \in TedEvent
          THEN h.notice.code = posts[r].post.notices[i].envelope
          ELSE h.notice.code = posts[r].post.notices[i].code
      BY <3>1, <3>3
    <3>6. posts' = posts
      BY <2>1
    <3> QED
      BY <3>2, <3>3, <3>4, <3>5, <3>6 DEF HandedOver
  <2> HIDE DEF given
  <2>4. \A q \in Post : posts[q].step = "received" => posts'[q] = posts[q]
    BY <2>1
  <2>5. \A q \in Post : JobOf(q)' = JobOf(q)
    BY <2>1 DEF JobOf
  <2>6. IntakeTypeOK' /\ RequestsGuarded' /\ JobsOfRequests' /\ RefusalsExplained'
    BY <2>1, <2>5 DEF IntakeTypeOK, RequestsGuarded, JobsOfRequests, RefusalsExplained
  <2>7. ReceivedEventsAreHandled'
    <3> SUFFICES ASSUME NEW q \in Post, posts[q].step = "received", posts[q].validPublicKey
                 PROVE  \/ \E j \in jobs' : j.from = q
                        \/ \A i \in DOMAIN posts[q].post.notices :
                             HandedOver(q, posts[q].post.notices[i])'
                        \/ Displaced(q)'
      BY <2>1 DEF ReceivedEventsAreHandled
    <3>1. CASE \E j \in jobs : j.from = q
      BY <2>1, <2>3, <3>1
    <3>2. CASE \A i \in DOMAIN posts[q].post.notices : HandedOver(q, posts[q].post.notices[i])
      BY <2>1, <2>4, <3>2, AnswersStay
    <3>3. CASE Displaced(q)
      BY <2>1, <2>4, <3>3, AnswersStay
    <3> QED
      BY <3>1, <3>2, <3>3 DEF ReceivedEventsAreHandled
  <2> QED
    BY <2>6, <2>7
<1> QED
  BY <1>1, <1>2, <1>3, <1>4, <1>5 DEF IntakeNext

\* Every event of an answered request whose key was known waits in its queue, reached
\* the handler its endpoint documents for the client that owns the key, or came twice
\* (webhook controllers, normalisers, enqueueWebhookEvent, the processors' switches).
THEOREM NoReceivedEventIsDropped == IntakeSpec => []ReceivedEventsAreHandled
<1>1. IntakeInit => IntakeInv
  BY IntakeStarts
<1>2. IntakeInv /\ [IntakeNext]_intakeVars => IntakeInv'
  BY IntakePreserved
<1>3. IntakeInv => ReceivedEventsAreHandled
  BY DEF IntakeInv
<1> QED
  BY <1>1, <1>2, <1>3, PTL DEF IntakeSpec

-----------------------------------------------------------------------------
(* The application's log: an answer leaves one entry, which is put once. *)

\* What a request has left in the log: nothing before it is answered, when its answer
\* says that nothing is modified, or when it succeeds and its caller goes away; one entry
\* with its status otherwise, if its level is shown.
Writer(status) == IF status = 200 THEN "interceptor" ELSE "filter"
EntryOfRequest(r) ==
  LET now == httpRequests[r]
  IN  /\ now.step = "idle" => now.status = NoStatus /\ logged[r] = {}
      /\ now.step # "idle" => now.status \in Status
      /\ now.step \in {"handled", "aborted"} =>
           logged[r] = IF now.status \in {200, 304} THEN {} ELSE Written(r, "filter", now.status)
      /\ now.step = "answered" =>
           logged[r] = IF now.status = 304 THEN {} ELSE Written(r, Writer(now.status), now.status)

EntriesOfRequests == \A r \in HttpRequest : EntryOfRequest(r)

\* A message is logged by its service.
EntriesOfMessages ==
  \A message \in ServiceMessage : logged[message] \in {{}, {<<"service", NoStatus>>}}

\* One client, built when the first entry is sent.
OneClient == builds = IF client = "none" THEN 0 ELSE 1

ToTheCloud == "cloud" \in AppTransports(settings)

\* Nothing is sent but with the cloud as a destination, nor after the client could
\* not be built.
NothingSent == ~ToTheCloud \/ client = "failed" => sends = {}

\* An entry is put at most once: while it is on its way it was not put, and it is
\* on its way once.
SentOnce ==
  /\ \A send \in sends :
       /\ logged[send.entry] # {}
       /\ delivered[send.entry] = 0
       /\ \A other \in sends : other.entry = send.entry => other = send
  /\ \A e \in Loggable :
       /\ delivered[e] <= 1
       /\ logged[e] = {} => delivered[e] = 0

\* The entries that were meant for the cloud and will not get there.
Missed ==
  {e \in Loggable \ StartUpLike :
     logged[e] # {} /\ delivered[e] = 0 /\ \A send \in sends : send.entry # e}

\* Each of them for a failure of the log service.
MissedByFault ==
  ToTheCloud /\ client # "failed" => IsFiniteSet(Missed) /\ Cardinality(Missed) <= logFaults

LogInv ==
  /\ ApplicationTypeOK
  /\ EntriesOfRequests
  /\ EntriesOfMessages
  /\ OneClient
  /\ NothingSent
  /\ SentOnce
  /\ MissedByFault

LEMMA LogStarts == ApplicationInit => LogInv
<1> SUFFICES ASSUME ApplicationInit PROVE LogInv
  OBVIOUS
<1> USE DEF ApplicationInit
<1>1. ApplicationTypeOK
  BY LogAssumption DEF ApplicationTypeOK, NoStatus
<1>2. EntriesOfRequests /\ EntriesOfMessages
  BY DEF EntriesOfRequests, EntryOfRequest, EntriesOfMessages, Loggable
<1>3. OneClient /\ NothingSent /\ SentOnce
  BY DEF OneClient, NothingSent, SentOnce
<1>4. Missed = {}
  BY DEF Missed
<1>5. MissedByFault
  BY <1>4, FS_EmptySet DEF MissedByFault
<1> QED
  BY <1>1, <1>2, <1>3, <1>5 DEF LogInv

\* What an exception is answered with is no success.
LEMMA ExceptionsFail ==
  ASSUME NEW exception \in Exception, NEW status \in StatusOf(exception)
  PROVE  status \in Status \ {200, 304}
BY DEF StatusOf, ProcessUnhandledError, Status

LEMMA OnlySuccessSucceeds ==
  ASSUME NEW status \in Status
  PROVE  Succeeded(status) <=> status = 200
BY DEF Succeeded, Status

LEMMA WhatIsWritten ==
  ASSUME NEW e, NEW by \in Source, NEW status \in Status \cup {NoStatus}
  PROVE  /\ Written(e, by, status) \subseteq Source \X (Status \cup {NoStatus})
         /\ Shows(LevelOf(e, by)) => Written(e, by, status) = {<<by, status>>}
         /\ ~Shows(LevelOf(e, by)) => Written(e, by, status) = {}
         /\ UNCHANGED settings => Written(e, by, status)' = Written(e, by, status)
BY DEF Written, Shows, LevelOf

\* What a request has left stays what it should be as long as neither changes.
LEMMA EntryStays ==
  ASSUME NEW r, EntryOfRequest(r), httpRequests'[r] = httpRequests[r], logged'[r] = logged[r],
         UNCHANGED settings
  PROVE  EntryOfRequest(r)'
<1>1. ASSUME NEW by, NEW status
      PROVE  Written(r, by, status)' = Written(r, by, status)
  BY DEF Written, Shows
<1> DEFINE now == httpRequests[r]
<1>2. /\ Written(r, "filter", now.status)' = Written(r, "filter", now.status)
      /\ Written(r, Writer(now.status), now.status)'
           = Written(r, Writer(now.status), now.status)
  BY <1>1
<1> HIDE DEF now
<1> QED
  BY <1>2 DEF EntryOfRequest, now

\* An entry that was not logged before: it is sent once, or not meant for the cloud.
LEMMA LogOneEntry ==
  ASSUME LogInv, NEW e \in Loggable, NEW by \in Source, NEW status \in Status \cup {NoStatus},
         logged[e] = {}, LogEntry(e, by, status), UNCHANGED settings
  PROVE  /\ logged' = [logged EXCEPT ![e] = Written(e, by, status)]
         /\ logged' \in [Loggable -> SUBSET (Source \X (Status \cup {NoStatus}))]
         /\ sends' \subseteq [entry : Loggable, by : Source, step : {"initialize", "put"}]
         /\ client' \in {"none", "building", "ready", "failed"}
         /\ builds' \in Nat
         /\ delivered' = delivered /\ logFaults' = logFaults
         /\ OneClient' /\ NothingSent' /\ SentOnce' /\ MissedByFault'
<1> USE DEF LogInv
<1> DEFINE shown == Shows(LevelOf(e, by))
<1>1. /\ logged' = [logged EXCEPT ![e] = Written(e, by, status)]
      /\ delivered' = delivered /\ logFaults' = logFaults
  <2>1. logged \in [Loggable -> SUBSET (Source \X (Status \cup {NoStatus}))]
    BY DEF ApplicationTypeOK
  <2> QED
    BY <2>1 DEF LogEntry
<1>2. logged' \in [Loggable -> SUBSET (Source \X (Status \cup {NoStatus}))]
  BY <1>1, WhatIsWritten DEF ApplicationTypeOK
<1>3. /\ shown <=> logged'[e] # {}
      /\ \A other \in Loggable : other # e => logged'[other] = logged[other]
  <2>1. logged'[e] = Written(e, by, status)
        /\ \A other \in Loggable : other # e => logged'[other] = logged[other]
    BY <1>1 DEF ApplicationTypeOK
  <2>2. shown <=> Written(e, by, status) # {}
    BY DEF Written
  <2> QED
    BY <2>1, <2>2
<1> HIDE DEF shown
<1>4. delivered[e] = 0 /\ \A send \in sends : send.entry # e
  BY DEF SentOnce
<1>5. ToTheCloud' = ToTheCloud
  BY DEF ToTheCloud, AppTransports, ConsoleTransport, Cloudy
<1>6. CASE shown /\ ToTheCloud /\ e \notin StartUpLike /\ client # "failed"
  <2> DEFINE send == [entry |-> e, by |-> by,
                      step |-> IF client = "ready" THEN "put" ELSE "initialize"]
  <2>1. /\ sends' = sends \cup {send}
        /\ client' = IF client = "none" THEN "building" ELSE client
        /\ builds' = IF client = "none" THEN builds + 1 ELSE builds
    BY <1>6 DEF LogEntry, SendLog, ToTheCloud, shown
  <2>2. send \in [entry : Loggable, by : Source, step : {"initialize", "put"}]
        /\ send.entry = e
    OBVIOUS
  <2> HIDE DEF send
  <2>3. sends' \subseteq [entry : Loggable, by : Source, step : {"initialize", "put"}]
    BY <2>1, <2>2 DEF ApplicationTypeOK
  <2>4. /\ client' \in {"none", "building", "ready", "failed"} /\ client' # "failed"
        /\ builds' \in Nat /\ OneClient'
    BY <1>6, <2>1 DEF ApplicationTypeOK, OneClient
  <2>5. NothingSent'
    BY <1>5, <1>6, <2>4 DEF NothingSent
  <2>6. SentOnce'
    <3>1. ASSUME NEW new \in sends'
          PROVE  /\ logged'[new.entry] # {} /\ delivered'[new.entry] = 0
                 /\ \A other \in sends' : other.entry = new.entry => other = new
      <4>1. CASE new = send
        BY <1>1, <1>3, <1>4, <1>6, <2>1, <2>2, <4>1
      <4>2. CASE new \in sends
        <5>1. new.entry \in Loggable \ {e} /\ logged[new.entry] # {} /\ delivered[new.entry] = 0
          BY <1>4, <4>2 DEF SentOnce, ApplicationTypeOK
        <5>2. \A other \in sends : other.entry = new.entry => other = new
          BY <4>2 DEF SentOnce
        <5> QED
          BY <1>1, <1>3, <2>1, <2>2, <5>1, <5>2
      <4> QED
        BY <2>1, <4>1, <4>2
    <3>2. ASSUME NEW other \in Loggable
          PROVE  delivered'[other] <= 1 /\ (logged'[other] = {} => delivered'[other] = 0)
      BY <1>1, <1>3, <1>4 DEF SentOnce
    <3> QED
      BY <3>1, <3>2 DEF SentOnce
  <2>7. Missed' = Missed
    <3>1. ASSUME NEW other \in Loggable \ StartUpLike
          PROVE  other \in Missed' <=> other \in Missed
      <4>1. CASE other = e
        BY <1>3, <1>4, <2>1, <2>2, <4>1 DEF Missed
      <4>2. CASE other # e
        BY <1>1, <1>3, <2>1, <2>2, <4>2 DEF Missed
      <4> QED
        BY <4>1, <4>2
    <3> QED
      BY <3>1 DEF Missed
  <2>8. MissedByFault'
    BY <1>1, <1>5, <1>6, <2>7 DEF MissedByFault
  <2> QED
    BY <1>1, <1>2, <2>3, <2>4, <2>5, <2>6, <2>8
<1>7. CASE shown /\ ToTheCloud /\ e \notin StartUpLike /\ client = "failed"
  <2>1. sends' = sends /\ client' = client /\ builds' = builds
    BY <1>7 DEF LogEntry, SendLog, ToTheCloud
  <2>2. SentOnce'
    BY <1>1, <1>3, <1>4, <2>1 DEF SentOnce, ApplicationTypeOK
  <2>3. OneClient' /\ NothingSent' /\ MissedByFault'
    BY <1>5, <1>7, <2>1 DEF OneClient, NothingSent, MissedByFault
  <2> QED
    BY <1>1, <1>2, <2>1, <2>2, <2>3 DEF ApplicationTypeOK
<1>8. CASE ~shown \/ ~ToTheCloud \/ e \in StartUpLike
  <2>1. sends' = sends /\ client' = client /\ builds' = builds
    BY <1>8 DEF LogEntry, ToTheCloud, shown
  <2>2. SentOnce'
    BY <1>1, <1>3, <1>4, <2>1 DEF SentOnce, ApplicationTypeOK
  <2>3. ToTheCloud => Missed' = Missed
    <3>1. ASSUME ToTheCloud, NEW other \in Loggable \ StartUpLike
          PROVE  other \in Missed' <=> other \in Missed
      BY <1>1, <1>3, <1>8, <2>1, <3>1 DEF Missed
    <3> QED
      BY <3>1 DEF Missed
  <2>4. OneClient' /\ NothingSent' /\ MissedByFault'
    BY <1>1, <1>5, <2>1, <2>3 DEF OneClient, NothingSent, MissedByFault
  <2> QED
    BY <1>1, <1>2, <2>1, <2>2, <2>4 DEF ApplicationTypeOK
<1> QED
  BY <1>6, <1>7, <1>8

\* A step that neither logs, sends nor puts.
LEMMA LogUntouched ==
  ASSUME LogInv, UNCHANGED <<settings, logged, logDelivery>>
  PROVE  /\ EntriesOfMessages' /\ OneClient' /\ NothingSent' /\ SentOnce' /\ MissedByFault'
         /\ logged' = logged /\ settings' = settings
         /\ sends' = sends /\ client' = client /\ builds' = builds
         /\ delivered' = delivered /\ logFaults' = logFaults
<1> USE DEF LogInv, logDelivery
<1>1. Missed' = Missed
  BY DEF Missed
<1>2. ToTheCloud' = ToTheCloud
  BY DEF ToTheCloud, AppTransports, ConsoleTransport, Cloudy
<1> QED
  BY <1>1, <1>2 DEF EntriesOfMessages, OneClient, NothingSent, SentOnce, MissedByFault

LEMMA StartPreserves ==
  ASSUME LogInv, LoadSecretsFromVault \/ CreateApplication
  PROVE  LogInv'
<1>1. /\ UNCHANGED <<settings, httpRequests, logged, logDelivery>>
      /\ start' \in {"secrets", "create", "running", "exited"}
      /\ lastWords' \in {"none", "printed", "lost"}
  BY DEF LoadSecretsFromVault, CreateApplication, Exit, LogInv, ApplicationTypeOK
<1>2. EntriesOfRequests'
  BY <1>1, EntryStays DEF LogInv, EntriesOfRequests
<1> QED
  BY <1>1, <1>2, LogUntouched DEF LogInv, ApplicationTypeOK

LEMMA RequestsPreserve ==
  ASSUME LogInv, NEW r \in HttpRequest,
         \/ HandleRequest(r) \/ MakeNotModified(r) \/ FinishResponse(r) \/ AbortRequest(r)
         \/ \E exception \in Exception, status \in Status : CatchException(r, exception, status)
  PROVE  LogInv'
<1> USE DEF LogInv
<1>1. /\ httpRequests[r] \in [step : {"idle", "handled", "answered", "aborted"},
                              status : Status \cup {NoStatus}]
      /\ EntryOfRequest(r)
      /\ r \in Loggable
      /\ UNCHANGED settings
  BY DEF ApplicationTypeOK, EntriesOfRequests, Loggable, HandleRequest, MakeNotModified,
         FinishResponse, AbortRequest, CatchException
<1>0. ASSUME \A other \in HttpRequest \ {r} : /\ httpRequests'[other] = httpRequests[other]
                                             /\ logged'[other] = logged[other],
             EntryOfRequest(r)'
      PROVE  EntriesOfRequests'
  <2>1. ASSUME NEW other \in HttpRequest \ {r} PROVE EntryOfRequest(other)'
    <3>1. EntryOfRequest(other)
      BY DEF EntriesOfRequests
    <3> QED
      BY <1>0, <1>1, <3>1, EntryStays
  <2> QED
    BY <1>0, <2>1 DEF EntriesOfRequests
<1>2. CASE HandleRequest(r)
  <2>1. /\ httpRequests' = [httpRequests EXCEPT ![r] = [step |-> "handled", status |-> 200]]
        /\ logged[r] = {}
        /\ UNCHANGED <<settings, start, lastWords, logged, logDelivery>>
    BY <1>1, <1>2 DEF HandleRequest, EntryOfRequest
  <2>2. ApplicationTypeOK'
    BY <2>1 DEF ApplicationTypeOK, logDelivery, Status
  <2>3. EntryOfRequest(r)'
    BY <2>1 DEF EntryOfRequest, ApplicationTypeOK, Status
  <2>4. EntriesOfRequests'
    BY <1>0, <2>1, <2>3 DEF ApplicationTypeOK
  <2> QED
    BY <2>1, <2>2, <2>4, LogUntouched
<1>6. CASE MakeNotModified(r)
  <2>1. /\ httpRequests' = [httpRequests EXCEPT ![r].status = 304]
        /\ httpRequests[r].step = "handled" /\ logged[r] = {}
        /\ UNCHANGED <<settings, start, lastWords, logged, logDelivery>>
    BY <1>1, <1>6 DEF MakeNotModified, EntryOfRequest
  <2>2. ApplicationTypeOK'
    BY <2>1 DEF ApplicationTypeOK, logDelivery, Status
  <2>3. EntryOfRequest(r)'
    BY <2>1 DEF EntryOfRequest, ApplicationTypeOK, Status
  <2>4. EntriesOfRequests'
    BY <1>0, <2>1, <2>3 DEF ApplicationTypeOK
  <2> QED
    BY <2>1, <2>2, <2>4, LogUntouched
<1>3. CASE AbortRequest(r)
  <2>1. /\ httpRequests' = [httpRequests EXCEPT ![r].step = "aborted"]
        /\ httpRequests[r].step = "handled"
        /\ UNCHANGED <<settings, start, lastWords, logged, logDelivery>>
    BY <1>3 DEF AbortRequest
  <2>2. ApplicationTypeOK'
    BY <2>1 DEF ApplicationTypeOK, logDelivery
  <2>3. EntryOfRequest(r)'
    BY <1>1, <2>1 DEF EntryOfRequest, ApplicationTypeOK, Written, Shows, LevelOf
  <2>4. EntriesOfRequests'
    BY <1>0, <2>1, <2>3 DEF ApplicationTypeOK
  <2> QED
    BY <2>1, <2>2, <2>4, LogUntouched
<1>4. ASSUME NEW exception \in Exception, NEW status \in Status,
             CatchException(r, exception, status)
      PROVE  LogInv'
  <2>1. /\ httpRequests' = [httpRequests EXCEPT ![r] = [step |-> "handled", status |-> status]]
        /\ status \in Status \ {200, 304}
        /\ logged[r] = {}
        /\ LogEntry(r, "filter", status)
        /\ UNCHANGED <<settings, start, lastWords>>
    BY <1>1, <1>4, ExceptionsFail DEF CatchException, EntryOfRequest, Status, NoStatus
  <2>2. /\ logged' = [logged EXCEPT ![r] = Written(r, "filter", status)]
        /\ logged' \in [Loggable -> SUBSET (Source \X (Status \cup {NoStatus}))]
        /\ sends' \subseteq [entry : Loggable, by : Source, step : {"initialize", "put"}]
        /\ client' \in {"none", "building", "ready", "failed"}
        /\ builds' \in Nat
        /\ delivered' = delivered /\ logFaults' = logFaults
        /\ OneClient' /\ NothingSent' /\ SentOnce' /\ MissedByFault'
    BY <1>1, <2>1, LogOneEntry DEF Source
  <2>3. ApplicationTypeOK'
    BY <2>1, <2>2 DEF ApplicationTypeOK
  <2>4. EntriesOfRequests'
    <3>1. EntryOfRequest(r)'
      BY <1>1, <2>1, <2>2 DEF EntryOfRequest, ApplicationTypeOK, Written, Shows, LevelOf
    <3> QED
      BY <1>0, <1>1, <2>1, <2>2, <3>1 DEF ApplicationTypeOK, Loggable
  <2>5. EntriesOfMessages'
    BY <2>2, LogAssumption DEF EntriesOfMessages, ApplicationTypeOK
  <2> QED
    BY <2>2, <2>3, <2>4, <2>5
<1>5. CASE FinishResponse(r)
  <2>1. /\ httpRequests' = [httpRequests EXCEPT ![r].step = "answered"]
        /\ httpRequests[r].step = "handled" /\ httpRequests[r].status \in Status
        /\ UNCHANGED <<settings, start, lastWords>>
    BY <1>1, <1>5 DEF FinishResponse, EntryOfRequest
  <2>2. CASE httpRequests[r].status = 200
    <3>1. logged[r] = {} /\ LogEntry(r, "interceptor", 200)
      BY <1>1, <1>5, <2>1, <2>2, OnlySuccessSucceeds
         DEF FinishResponse, EntryOfRequest, LogsOnFinish
    <3>2. /\ logged' = [logged EXCEPT ![r] = Written(r, "interceptor", 200)]
          /\ logged' \in [Loggable -> SUBSET (Source \X (Status \cup {NoStatus}))]
          /\ sends' \subseteq [entry : Loggable, by : Source, step : {"initialize", "put"}]
          /\ client' \in {"none", "building", "ready", "failed"}
          /\ builds' \in Nat
          /\ delivered' = delivered /\ logFaults' = logFaults
          /\ OneClient' /\ NothingSent' /\ SentOnce' /\ MissedByFault'
      BY <1>1, <2>1, <2>2, <3>1, LogOneEntry DEF Source
    <3>3. ApplicationTypeOK'
      BY <2>1, <3>2 DEF ApplicationTypeOK
    <3>4. EntriesOfRequests'
      <4>1. EntryOfRequest(r)'
        <5>1. Written(r, "interceptor", 200)' = Written(r, "interceptor", 200)
          BY <1>1 DEF Written, Shows
        <5>2. logged'[r] = Written(r, "interceptor", 200)
          BY <1>1, <3>2 DEF ApplicationTypeOK
        <5>3. httpRequests'[r].step = "answered" /\ httpRequests'[r].status = 200
          BY <2>1, <2>2 DEF ApplicationTypeOK
        <5> QED
          BY <2>1, <2>2, <5>1, <5>2, <5>3 DEF EntryOfRequest, Writer
      <4> QED
        BY <1>0, <1>1, <2>1, <3>2, <4>1 DEF ApplicationTypeOK, Loggable
    <3>5. EntriesOfMessages'
      BY <3>2, LogAssumption DEF EntriesOfMessages, ApplicationTypeOK
    <3> QED
      BY <3>2, <3>3, <3>4, <3>5
  <2>3. CASE httpRequests[r].status # 200
    <3>1. UNCHANGED <<logged, logDelivery>>
      BY <1>5, <2>1, <2>3, OnlySuccessSucceeds DEF FinishResponse, LogsOnFinish
    <3>2. ApplicationTypeOK'
      BY <2>1, <3>1 DEF ApplicationTypeOK, logDelivery
    <3>3. EntriesOfRequests'
      <4>1. EntryOfRequest(r)'
        BY <1>1, <2>1, <2>3, <3>1
        DEF EntryOfRequest, ApplicationTypeOK, Writer, Written, Shows, LevelOf
      <4> QED
        BY <1>0, <2>1, <3>1, <4>1 DEF ApplicationTypeOK
    <3> QED
      BY <2>1, <3>1, <3>2, <3>3, LogUntouched
  <2> QED
    BY <2>2, <2>3
<1> QED
  BY <1>2, <1>3, <1>4, <1>5, <1>6

LEMMA MessagesPreserve ==
  ASSUME LogInv, NEW message \in ServiceMessage, LogMessage(message)
  PROVE  LogInv'
<1> USE DEF LogInv
<1>1. /\ logged[message] = {} /\ message \in Loggable
      /\ LogEntry(message, "service", NoStatus)
      /\ UNCHANGED <<settings, start, lastWords, httpRequests>>
  BY DEF LogMessage, Loggable
<1>2. /\ logged' = [logged EXCEPT ![message] = Written(message, "service", NoStatus)]
      /\ logged' \in [Loggable -> SUBSET (Source \X (Status \cup {NoStatus}))]
      /\ sends' \subseteq [entry : Loggable, by : Source, step : {"initialize", "put"}]
      /\ client' \in {"none", "building", "ready", "failed"}
      /\ builds' \in Nat
      /\ delivered' = delivered /\ logFaults' = logFaults
      /\ OneClient' /\ NothingSent' /\ SentOnce' /\ MissedByFault'
  BY <1>1, LogOneEntry DEF Source
<1>3. ApplicationTypeOK'
  BY <1>1, <1>2 DEF ApplicationTypeOK
<1>4. EntriesOfRequests'
  <2>1. \A r \in HttpRequest : logged'[r] = logged[r] /\ httpRequests'[r] = httpRequests[r]
    BY <1>1, <1>2, LogAssumption DEF ApplicationTypeOK, Loggable
  <2> QED
    BY <1>1, <2>1, EntryStays DEF EntriesOfRequests
<1>5. EntriesOfMessages'
  <2>1. Written(message, "service", NoStatus) \in {{}, {<<"service", NoStatus>>}}
    BY DEF Written
  <2> QED
    BY <1>1, <1>2, <2>1 DEF EntriesOfMessages, ApplicationTypeOK, Loggable
<1> QED
  BY <1>2, <1>3, <1>4, <1>5

LEMMA ClientPreserves ==
  ASSUME LogInv, InitializeClient
  PROVE  LogInv'
<1> USE DEF LogInv
<1>1. /\ client = "building"
      /\ \/ client' = "ready" /\ UNCHANGED logFaults
         \/ client' = "failed" /\ LogFault
      /\ sends' = IF client' = "ready"
                  THEN {[send EXCEPT !.step = "put"] : send \in sends} ELSE {}
      /\ UNCHANGED <<settings, start, lastWords, httpRequests, logged, builds, delivered>>
  BY DEF InitializeClient
<1>2. logFaults' \in 0 .. MaxLogFaults
  BY <1>1, LogAssumption DEF LogFault, ApplicationTypeOK
<1>3. \A send \in sends : [send EXCEPT !.step = "put"].entry = send.entry
                          /\ [send EXCEPT !.step = "put"]
                                \in [entry : Loggable, by : Source, step : {"initialize", "put"}]
  BY DEF ApplicationTypeOK
<1>4. sends' \subseteq [entry : Loggable, by : Source, step : {"initialize", "put"}]
  BY <1>1, <1>3
<1>5. ApplicationTypeOK'
  BY <1>1, <1>2, <1>4 DEF ApplicationTypeOK
<1>6. EntriesOfRequests' /\ EntriesOfMessages' /\ OneClient'
  BY <1>1, EntryStays DEF EntriesOfRequests, EntriesOfMessages, OneClient
<1>7. ToTheCloud' = ToTheCloud
  BY <1>1 DEF ToTheCloud, AppTransports, ConsoleTransport, Cloudy
<1>8. \A new \in sends' : \E send \in sends : new = [send EXCEPT !.step = "put"]
  BY <1>1
<1>9. NothingSent'
  BY <1>1, <1>7, <1>8 DEF NothingSent
<1>10. SentOnce'
  <2>1. ASSUME NEW new \in sends'
        PROVE  /\ logged[new.entry] # {} /\ delivered[new.entry] = 0
               /\ \A other \in sends' : other.entry = new.entry => other = new
    BY <1>3, <1>8 DEF SentOnce
  <2> QED
    BY <1>1, <2>1 DEF SentOnce
<1>11. MissedByFault'
  <2>1. ASSUME client' = "ready"
        PROVE  Missed' = Missed
    <3>1. \A e \in Loggable : (\A new \in sends' : new.entry # e)
                                <=> (\A send \in sends : send.entry # e)
      <4>1. ASSUME NEW send \in sends
            PROVE  \E new \in sends' : new.entry = send.entry
        <5>1. [send EXCEPT !.step = "put"] \in sends'
          BY <1>1, <2>1
        <5>2. [send EXCEPT !.step = "put"].entry = send.entry
          BY <1>3
        <5> QED
          BY <5>1, <5>2
      <4>2. ASSUME NEW new \in sends'
            PROVE  \E send \in sends : send.entry = new.entry
        <5>1. PICK send \in sends : new = [send EXCEPT !.step = "put"]
          BY <1>8
        <5>2. [send EXCEPT !.step = "put"].entry = send.entry
          BY <1>3
        <5> QED
          BY <5>1, <5>2
      <4> QED
        BY <4>1, <4>2
    <3> QED
      BY <1>1, <3>1 DEF Missed
  <2> QED
    BY <1>1, <1>7, <2>1 DEF MissedByFault
<1> QED
  BY <1>5, <1>6, <1>9, <1>10, <1>11

LEMMA PutsPreserve ==
  ASSUME LogInv, NEW send \in sends, PutLogs(send)
  PROVE  LogInv'
<1> USE DEF LogInv
<1>1. /\ sends' = sends \ {send}
      /\ \/ delivered' = [delivered EXCEPT ![send.entry] = @ + 1] /\ UNCHANGED logFaults
         \/ LogFault /\ UNCHANGED delivered
      /\ UNCHANGED <<settings, start, lastWords, httpRequests, logged, client, builds>>
  BY DEF PutLogs
<1>2. logFaults' \in 0 .. MaxLogFaults
  BY <1>1, LogAssumption DEF LogFault, ApplicationTypeOK
<1>3. send.entry \in Loggable
  BY DEF ApplicationTypeOK
<1>4. ApplicationTypeOK'
  BY <1>1, <1>2, <1>3 DEF ApplicationTypeOK
<1>5. EntriesOfRequests' /\ EntriesOfMessages' /\ OneClient'
  BY <1>1, EntryStays DEF EntriesOfRequests, EntriesOfMessages, OneClient
<1>6. ToTheCloud' = ToTheCloud
  BY <1>1 DEF ToTheCloud, AppTransports, ConsoleTransport, Cloudy
<1>7. NothingSent'
  BY <1>1, <1>6 DEF NothingSent
<1>8. SentOnce'
  BY <1>1, <1>3 DEF SentOnce, ApplicationTypeOK
<1>9. MissedByFault'
  <2>1. ToTheCloud /\ client # "failed"
    BY DEF NothingSent
  <2>2. IsFiniteSet(Missed) /\ Cardinality(Missed) <= logFaults
    BY <2>1 DEF MissedByFault
  <2>3. CASE delivered' = [delivered EXCEPT ![send.entry] = @ + 1] /\ UNCHANGED logFaults
    <3>1. Missed' = Missed
      <4>1. ASSUME NEW e \in Loggable \ StartUpLike
            PROVE  e \in Missed' <=> e \in Missed
        <5>1. CASE e = send.entry
          BY <1>1, <1>3, <2>3, <5>1 DEF Missed, SentOnce, ApplicationTypeOK
        <5>2. CASE e # send.entry
          BY <1>1, <1>3, <2>3, <5>2 DEF Missed, ApplicationTypeOK
        <5> QED
          BY <5>1, <5>2
      <4> QED
        BY <4>1 DEF Missed
    <3> QED
      BY <1>1, <1>6, <2>3, <3>1 DEF MissedByFault
  <2>4. CASE LogFault /\ UNCHANGED delivered
    <3>1. Missed' \subseteq Missed \cup {send.entry}
      BY <1>1, <2>4 DEF Missed
    <3>2. /\ IsFiniteSet(Missed \cup {send.entry})
          /\ Cardinality(Missed \cup {send.entry}) <= Cardinality(Missed) + 1
      <4>1. /\ IsFiniteSet(Missed \cup {send.entry})
            /\ \/ Cardinality(Missed \cup {send.entry}) = Cardinality(Missed)
               \/ Cardinality(Missed \cup {send.entry}) = Cardinality(Missed) + 1
        BY <2>2, FS_AddElement
      <4>2. Cardinality(Missed) \in Nat
        BY <2>2, FS_CardinalityType
      <4> QED
        BY <4>1, <4>2
    <3>3. IsFiniteSet(Missed') /\ Cardinality(Missed') <= Cardinality(Missed \cup {send.entry})
      BY <3>1, <3>2, FS_Subset
    <3>4. logFaults' = logFaults + 1 /\ logFaults \in Nat
      BY <2>4, LogAssumption DEF LogFault, ApplicationTypeOK
    <3>5. Cardinality(Missed) \in Nat /\ Cardinality(Missed \cup {send.entry}) \in Nat
          /\ Cardinality(Missed') \in Nat
      BY <2>2, <3>2, <3>3, FS_CardinalityType
    <3>6. Cardinality(Missed') <= logFaults'
      BY <2>2, <3>2, <3>3, <3>4, <3>5
    <3> QED
      BY <3>3, <3>6 DEF MissedByFault
  <2> QED
    BY <1>1, <2>3, <2>4
<1> QED
  BY <1>4, <1>5, <1>7, <1>8, <1>9

LEMMA LogPreserved ==
  ASSUME LogInv, [ApplicationNext]_applicationVars
  PROVE  LogInv'
<1>1. CASE UNCHANGED applicationVars
  <2>1. UNCHANGED <<settings, start, lastWords, httpRequests, logged, logDelivery>>
    BY <1>1 DEF applicationVars
  <2>2. EntriesOfRequests'
    BY <2>1, EntryStays DEF LogInv, EntriesOfRequests
  <2> QED
    BY <2>1, <2>2, LogUntouched DEF LogInv, ApplicationTypeOK
<1> QED
  BY <1>1, StartPreserves, RequestsPreserve, MessagesPreserve, ClientPreserves, PutsPreserve
     DEF ApplicationNext

\* An answer leaves one entry, with its status, whichever of the interceptor and the
\* exception filter writes it (RequestLoggingInterceptor, HttpExceptionFilter), unless
\* LOG_LEVEL keeps it out or the answer is 304.
THEOREM OneEntryPerAnswer == ApplicationSpec => []AnswersAreLoggedOnce
<1>1. LogInv => AnswersAreLoggedOnce
  <2> SUFFICES ASSUME LogInv, NEW r \in HttpRequest, NEW status, status = httpRequests[r].status
               PROVE  /\ httpRequests[r].step = "answered" =>
                           /\ Cardinality(logged[r]) =
                                IF status # 304 /\ Shows(EndLevel(r)) THEN 1 ELSE 0
                           /\ \A entry \in logged[r] : entry[2] = status
                      /\ httpRequests[r].step = "aborted" /\ Succeeded(status) => logged[r] = {}
    BY DEF AnswersAreLoggedOnce
  <2>1. EntryOfRequest(r) /\ status \in Status \cup {NoStatus}
    BY DEF LogInv, EntriesOfRequests, ApplicationTypeOK
  <2>2. ASSUME httpRequests[r].step = "answered"
        PROVE  /\ Cardinality(logged[r]) = IF status # 304 /\ Shows(EndLevel(r)) THEN 1 ELSE 0
               /\ \A entry \in logged[r] : entry[2] = status
    <3>1. /\ status \in Status
          /\ logged[r] = IF status = 304 THEN {} ELSE Written(r, Writer(status), status)
      BY <2>1, <2>2 DEF EntryOfRequest
    <3>2. LevelOf(r, Writer(status)) = EndLevel(r)
      BY <3>1, OnlySuccessSucceeds DEF LevelOf, Writer, EndLevel
    <3>3. logged[r] = IF status # 304 /\ Shows(EndLevel(r)) THEN {<<Writer(status), status>>} ELSE {}
      BY <3>1, <3>2 DEF Written
    <3>4. Cardinality({<<Writer(status), status>>}) = 1 /\ Cardinality({}) = 0
      BY FS_Singleton, FS_EmptySet
    <3> QED
      BY <3>3, <3>4
  <2>3. ASSUME httpRequests[r].step = "aborted", Succeeded(status)
        PROVE  logged[r] = {}
    BY <2>1, <2>3, OnlySuccessSucceeds DEF EntryOfRequest
  <2> QED
    BY <2>2, <2>3
<1> QED
  BY <1>1, LogStarts, LogPreserved, PTL DEF ApplicationSpec

\* One client is built, and an entry that LOG_LEVEL lets through and the transport does not
\* skip is put exactly once, but for one per failure of the log service
\* (CloudLoggingTransport, OCILoggingProvider).
THEOREM EntriesPutOnce == ApplicationSpec => []EntriesReachTheCloud
<1>1. LogInv => EntriesReachTheCloud
  <2> SUFFICES ASSUME LogInv PROVE EntriesReachTheCloud
    OBVIOUS
  <2> DEFINE meant == {e \in Loggable \ StartUpLike : logged[e] # {}}
  <2>1. builds <= 1
    BY DEF LogInv, OneClient
  <2>2. ASSUME ToTheCloud, client # "failed", sends = {}
        PROVE  /\ \A e \in meant : delivered[e] <= 1
               /\ Cardinality({e \in meant : delivered[e] = 0}) <= logFaults
    <3>1. {e \in meant : delivered[e] = 0} = Missed
      BY <2>2 DEF Missed
    <3> QED
      BY <2>2, <3>1 DEF LogInv, MissedByFault, SentOnce
  <2> QED
    BY <2>1, <2>2 DEF EntriesReachTheCloud, ToTheCloud
<1> QED
  BY <1>1, LogStarts, LogPreserved, PTL DEF ApplicationSpec

-----------------------------------------------------------------------------
(* The audit trail: what an entry says, and how many there are of it. *)

\* A pass of a request whose handler has ended.
Owed(job) == LET r == requests[job.request]
             IN  r.step = "answered" /\ job.pass <= Passes(job.request)

AtWork(job) == auditor.busy /\ auditor.job = job
EntryWritten(job) == AtWork(job) /\ auditor.written

\* Its entry may be written yet.
Pending(job) == \/ job \in adding
                \/ auditPlace[job] \in {"waiting", "active"} /\ ~EntryWritten(job)

TruthOf(job) == [user |-> Requester(job.request), status |-> requests[job.request].outcome]
NothingLost == auditErrors = 0 /\ auditCrashes = 0

AuditJobOK(job) ==
  \* Nothing comes before the answer, and nothing is queued twice.
  /\ job \in adding \/ auditPlace[job] # "none" \/ EntriesOf(job) # {} => Owed(job)
  /\ job \in adding => auditPlace[job] = "none" /\ EntriesOf(job) = {}
  \* The job and the entry tell what happened.
  /\ auditPlace[job] # "none" => auditPayload[job] = TruthOf(job)
  /\ \A row \in EntriesOf(job) : row.data = TruthOf(job)
  \* One entry, and one more for each worker that died.
  /\ Cardinality(EntriesOf(job)) + (IF Pending(job) THEN 1 ELSE 0) <= 1 + auditCrashes
  \* When nothing failed the worker has every job that was handed out, and each
  \* entry is written or will be.
  /\ NothingLost =>
       /\ auditPlace[job] \in {"none", "waiting", "active"}
       /\ auditPlace[job] = "active" => AtWork(job)
       /\ Owed(job) /\ job \notin purged => Pending(job) \/ EntriesOf(job) # {}

AuditorHasJob == auditor.busy => auditPlace[auditor.job] = "active"

\* What the internal guard lets through has a token.
TokensChecked ==
  \A r \in Request : requests[r].step \in {"inside", "answered", "lost"} =>
                     (requests[r].by = "internal" => requests[r].bearer)

AuditInv ==
  /\ AuditTypeOK
  /\ TokensChecked
  /\ AuditorHasJob
  /\ \A job \in AuditJob : AuditJobOK(job)

\* The user, the session or the token of an answered request names the requester, if
\* anything does.
LEMMA IdentityIsFound ==
  ASSUME AuditTypeOK, TokensChecked, NEW r \in Request, requests[r].step = "answered"
  PROVE  ResolveRequestIdentity(r) = Requester(r)
<1>1. requests[r].by \in {"backoffice", "internal", "provider", "client"}
  BY DEF AuditTypeOK, AuditedRequest, Guard
<1>2. r # Unauthenticated
  BY RequesterAssumption
<1>3. requests[r].by = "internal" => requests[r].bearer
  BY DEF TokensChecked
<1>4. CASE requests[r].by = "backoffice"
  BY <1>2, <1>4 DEF ResolveRequestIdentity, UserIdOf, Requester
<1>5. CASE requests[r].by = "provider"
  BY <1>2, <1>5 DEF ResolveRequestIdentity, UserIdOf, SessionUserId, Requester
<1>6. CASE requests[r].by = "internal"
  BY <1>3, <1>6 DEF ResolveRequestIdentity, UserIdOf, SessionUserId, TokenUserId, Requester
<1>7. CASE requests[r].by = "client"
  BY <1>7 DEF ResolveRequestIdentity, UserIdOf, SessionUserId, TokenUserId, Requester
<1> QED
  BY <1>1, <1>4, <1>5, <1>6, <1>7

LEMMA TruthTyped ==
  ASSUME AuditTypeOK, NEW job \in AuditJob
  PROVE  TruthOf(job) \in AuditLogData
<1>1. job.request \in Request
  BY DEF AuditJob
<1>2. Requester(job.request) \in Request \cup {Unauthenticated, Claimed}
  BY <1>1 DEF Requester
<1>3. requests[job.request].outcome \in AuditLogStatus \cup {"none"}
  BY <1>1 DEF AuditTypeOK, AuditedRequest
<1> QED
  BY <1>2, <1>3 DEF TruthOf, AuditLogData

\* The steps that leave the requests alone.
LEMMA RequestsUntouched ==
  ASSUME UNCHANGED requests
  PROVE  /\ TokensChecked => TokensChecked'
         /\ \A job \in AuditJob : /\ Owed(job)' <=> Owed(job)
                                  /\ TruthOf(job)' = TruthOf(job)
BY DEF TokensChecked, Owed, TruthOf, Passes, Requester

\* There is an id that no row has.
LEMMA IdsAreFresh ==
  ASSUME AuditTypeOK
  PROVE  NewId \in Nat /\ \A row \in entries : row.id # NewId
<1> DEFINE n == Cardinality(entries)
           FreeIds == 1 .. n + 1
<1>1. IsFiniteSet(entries) /\ n \in Nat
  BY FS_CardinalityType DEF AuditTypeOK
<1>2. IsFiniteSet(FreeIds) /\ Cardinality(FreeIds) = n + 1
  BY <1>1, FS_Interval
<1>3. \E id \in FreeIds : \A row \in entries : row.id # id
  <2> SUFFICES ASSUME \A id \in FreeIds : \E row \in entries : row.id = id
               PROVE  FALSE
    OBVIOUS
  <2> DEFINE f == [id \in FreeIds |-> CHOOSE row \in entries : row.id = id]
  <2>1. \A id \in FreeIds : f[id] \in entries /\ f[id].id = id
    OBVIOUS
  <2>2. f \in [FreeIds -> entries]
    BY <2>1
  <2> HIDE DEF f
  <2>3. Cardinality(entries) < Cardinality(FreeIds)
    BY <1>1, <1>2
  <2> HIDE DEF FreeIds
  <2>4. \E x, y \in FreeIds : x # y /\ f[x] = f[y]
    BY <1>1, <1>2, <2>2, <2>3, FS_PigeonHole
  <2> QED
    BY <2>1, <2>4
<1>4. NewId \in FreeIds /\ \A row \in entries : row.id # NewId
  BY <1>3 DEF NewId
<1> QED
  BY <1>1, <1>4

LEMMA EntriesFinite ==
  ASSUME AuditTypeOK, NEW job
  PROVE  IsFiniteSet(EntriesOf(job)) /\ Cardinality(EntriesOf(job)) \in Nat
BY FS_Subset, FS_CardinalityType DEF AuditTypeOK, EntriesOf

LEMMA AuditStarts == AuditInit => AuditInv
<1> SUFFICES ASSUME AuditInit PROVE AuditInv
  OBVIOUS
<1>1. AuditTypeOK
  <2>1. AuditJob # {}
    <3>1. PICK r \in Request : TRUE
      BY RequestAssumption
    <3>2. [request |-> r, pass |-> 1] \in AuditJob
      BY DEF AuditJob
    <3> QED
      BY <3>2
  <2>2. IdleAuditor \in [busy : BOOLEAN, job : AuditJob, written : BOOLEAN]
    BY <2>1 DEF IdleAuditor
  <2>3. AuditQueue!QueueTypeOK
    BY DEF AuditInit, AuditQueue!QueueInit, AuditQueue!QueueTypeOK, AuditQueue!Place
  <2>4. IsFiniteSet({})
    BY FS_EmptySet
  <2>5. requests \in [Request -> AuditedRequest]
    BY DEF AuditInit, AuditedRequest
  <2> QED
    BY <2>2, <2>3, <2>4, <2>5, AuditBoundsAssumption DEF AuditInit, AuditTypeOK
<1>2. AuditorHasJob /\ TokensChecked
  BY DEF AuditInit, AuditorHasJob, IdleAuditor, TokensChecked
<1>3. ASSUME NEW job \in AuditJob
      PROVE  AuditJobOK(job)
  <2>1. /\ job \notin adding /\ auditPlace[job] = "none"
        /\ EntriesOf(job) = {} /\ ~Owed(job) /\ ~Pending(job)
        /\ auditCrashes \in Nat
    BY AuditBoundsAssumption
       DEF AuditInit, AuditQueue!QueueInit, EntriesOf, Owed, Pending, AuditJob
  <2> QED
    BY <2>1, FS_EmptySet DEF AuditJobOK
<1> QED
  BY <1>1, <1>2, <1>3 DEF AuditInv

\* A job none of whose parts a step changes.
LEMMA AuditJobUndisturbed ==
  ASSUME AuditTypeOK, NEW job \in AuditJob, AuditJobOK(job),
         Owed(job)' <=> Owed(job),
         TruthOf(job)' = TruthOf(job) \/ ~Owed(job),
         job \in adding' <=> job \in adding,
         auditPlace'[job] = auditPlace[job],
         auditPayload'[job] = auditPayload[job],
         AtWork(job)' <=> AtWork(job),
         EntryWritten(job)' <=> EntryWritten(job),
         EntriesOf(job)' = EntriesOf(job),
         job \in purged => job \in purged',
         auditCrashes' \in Nat, auditErrors' \in Nat,
         auditCrashes <= auditCrashes', auditErrors <= auditErrors'
  PROVE  AuditJobOK(job)'
<1>1. Pending(job)' <=> Pending(job)
  BY DEF Pending
<1>2. NothingLost' => NothingLost
  BY AuditBoundsAssumption DEF NothingLost, AuditTypeOK
<1>3. Cardinality(EntriesOf(job)) \in Nat /\ auditCrashes \in Nat
  BY EntriesFinite, AuditBoundsAssumption DEF AuditTypeOK
<1>4. Cardinality(EntriesOf(job)) + (IF Pending(job) THEN 1 ELSE 0) <= 1 + auditCrashes
  BY DEF AuditJobOK
<1>5. (Cardinality(EntriesOf(job)) + (IF Pending(job) THEN 1 ELSE 0) <= 1 + auditCrashes)'
  BY <1>1, <1>3, <1>4
<1>6. /\ (job \in adding \/ auditPlace[job] # "none" \/ EntriesOf(job) # {} => Owed(job))'
      /\ (job \in adding => auditPlace[job] = "none" /\ EntriesOf(job) = {})'
  BY DEF AuditJobOK
<1>7. /\ (auditPlace[job] # "none" => auditPayload[job] = TruthOf(job))'
      /\ (\A row \in EntriesOf(job) : row.data = TruthOf(job))'
  <2>1. CASE Owed(job)
    BY <2>1 DEF AuditJobOK
  <2>2. CASE ~Owed(job)
    BY <1>6, <2>2
  <2> QED
    BY <2>1, <2>2
<1>8. (NothingLost =>
         /\ auditPlace[job] \in {"none", "waiting", "active"}
         /\ auditPlace[job] = "active" => AtWork(job)
         /\ Owed(job) /\ job \notin purged => Pending(job) \/ EntriesOf(job) # {})'
  BY <1>1, <1>2 DEF AuditJobOK
<1> QED
  BY <1>5, <1>6, <1>7, <1>8 DEF AuditJobOK

LEMMA FaultCounts ==
  ASSUME AuditTypeOK
  PROVE  /\ auditErrors \in Nat /\ auditCrashes \in Nat
         /\ AuditError => /\ auditErrors' \in 0 .. MaxAuditErrors /\ auditErrors' \in Nat
                          /\ auditErrors < auditErrors' /\ auditErrors' # 0
                          /\ auditCrashes' = auditCrashes
BY AuditBoundsAssumption DEF AuditTypeOK, AuditError

(* The request goes through the guards and its handler. *)

LEMMA GuardsPreserve ==
  ASSUME AuditInv, NEW r \in Request, GuardsRefuse(r) \/ GuardsAccept(r)
  PROVE  AuditInv'
<1> USE DEF AuditInv
<1>1. /\ requests[r].step = "arrives"
      /\ \E step \in {"refused", "inside"} : requests' = [requests EXCEPT ![r].step = step]
      /\ UNCHANGED <<adding, queueAuditVars, auditor, entries, purged, auditFaultVars>>
  BY DEF GuardsRefuse, GuardsAccept
<1>2. AuditTypeOK'
  <2>1. requests' \in [Request -> AuditedRequest]
    BY <1>1 DEF AuditTypeOK, AuditedRequest
  <2> QED
    BY <1>1, <2>1 DEF AuditTypeOK, AuditQueue!QueueTypeOK, queueAuditVars, auditFaultVars
<1>3. AuditorHasJob' /\ TokensChecked'
  <2>1. /\ requests[r].by = "internal" /\ requests'[r].step = "inside" => requests[r].bearer
        /\ requests'[r].by = requests[r].by /\ requests'[r].bearer = requests[r].bearer
        /\ requests'[r].step \in {"refused", "inside"}
        /\ \A other \in Request : other # r => requests'[other] = requests[other]
    BY DEF GuardsRefuse, GuardsAccept, AuditTypeOK, AuditedRequest
  <2>2. TokensChecked'
    BY <2>1 DEF TokensChecked
  <2> QED
    BY <1>1, <2>2 DEF AuditorHasJob, queueAuditVars
<1>4. ASSUME NEW job \in AuditJob
      PROVE  AuditJobOK(job)'
  <2>1. (Owed(job)' <=> Owed(job)) /\ (TruthOf(job)' = TruthOf(job) \/ ~Owed(job))
    BY <1>1 DEF Owed, TruthOf, Passes, Requester, AuditTypeOK, AuditJob
  <2>2. (AtWork(job)' <=> AtWork(job)) /\ (EntryWritten(job)' <=> EntryWritten(job))
        /\ EntriesOf(job)' = EntriesOf(job)
    BY <1>1 DEF AtWork, EntryWritten, EntriesOf
  <2> QED
    BY <1>1, <2>1, <2>2, FaultCounts, AuditJobUndisturbed DEF queueAuditVars, auditFaultVars
<1> QED
  BY <1>2, <1>3, <1>4

LEMMA HandlersPreserve ==
  ASSUME AuditInv, NEW r \in Request, HandlerEnds(r)
  PROVE  AuditInv'
<1> USE DEF AuditInv
<1>1. PICK status \in AuditLogStatus :
        requests' = [requests EXCEPT ![r].step = "answered", ![r].outcome = status]
  BY DEF HandlerEnds
<1>2. /\ requests[r].step = "inside"
      /\ adding' = adding \cup {[request |-> r, pass |-> p] : p \in 1 .. Passes(r)}
      /\ UNCHANGED <<queueAuditVars, auditor, entries, purged, auditFaultVars>>
  BY DEF HandlerEnds
<1>3. /\ Passes(r) \in {1, 2} /\ Passes(r)' = Passes(r)
      /\ requests'[r].step = "answered"
      /\ requests'[r].by = requests[r].by /\ requests'[r].bearer = requests[r].bearer
      /\ \A other \in Request : other # r => requests'[other] = requests[other]
  BY <1>1 DEF AuditTypeOK, Passes
<1>4. \A job \in AuditJob :
        job \in adding' <=> \/ job \in adding
                            \/ job.request = r /\ job.pass <= Passes(r)
  <2> DEFINE new == {[request |-> r, pass |-> p] : p \in 1 .. Passes(r)}
  <2>1. ASSUME NEW job \in AuditJob
        PROVE  job \in new <=> job.request = r /\ job.pass <= Passes(r)
    BY <1>3 DEF AuditJob
  <2>2. adding' = adding \cup new
    BY <1>2
  <2> HIDE DEF new
  <2> QED
    BY <2>1, <2>2
<1>5. AuditTypeOK'
  <2>1. requests' \in [Request -> AuditedRequest]
    <3>1. requests \in [Request -> AuditedRequest]
      BY DEF AuditTypeOK
    <3>2. requests' = [requests EXCEPT
            ![r] = [requests[r] EXCEPT !.step = "answered", !.outcome = status]]
      BY <1>1, <3>1
    <3>3. [requests[r] EXCEPT !.step = "answered", !.outcome = status] \in AuditedRequest
      <4>1. ASSUME NEW q \in AuditedRequest
            PROVE  [q EXCEPT !.step = "answered"] \in AuditedRequest
        BY DEF AuditedRequest
      <4>2. ASSUME NEW q \in AuditedRequest
            PROVE  [q EXCEPT !.outcome = status] \in AuditedRequest
        BY <1>1 DEF AuditedRequest
      <4>3. [[requests[r] EXCEPT !.step = "answered"] EXCEPT !.outcome = status]
              \in AuditedRequest
        BY <3>1, <4>1, <4>2
      <4> QED
        BY <3>1, <4>3
    <3> QED
      BY <3>1, <3>2, <3>3
  <2>2. adding' \in SUBSET AuditJob
    BY <1>2, <1>3 DEF AuditTypeOK, AuditJob
  <2> QED
    BY <1>2, <2>1, <2>2
       DEF AuditTypeOK, AuditQueue!QueueTypeOK, queueAuditVars, auditFaultVars
<1>6. AuditorHasJob' /\ TokensChecked'
  <2>1. TokensChecked'
    BY <1>2, <1>3 DEF TokensChecked
  <2> QED
    BY <1>2, <2>1 DEF AuditorHasJob, queueAuditVars
<1>7. ASSUME NEW job \in AuditJob
      PROVE  AuditJobOK(job)'
  <2>1. /\ (AtWork(job)' <=> AtWork(job)) /\ (EntryWritten(job)' <=> EntryWritten(job))
        /\ EntriesOf(job)' = EntriesOf(job)
        /\ auditPlace' = auditPlace /\ auditPayload' = auditPayload
        /\ purged' = purged /\ auditErrors' = auditErrors /\ auditCrashes' = auditCrashes
    BY <1>2 DEF AtWork, EntryWritten, EntriesOf, queueAuditVars, auditFaultVars
  <2>2. CASE job.request # r
    <3>1. (Owed(job)' <=> Owed(job)) /\ TruthOf(job)' = TruthOf(job)
      BY <1>3, <2>2 DEF Owed, TruthOf, Passes, Requester, AuditJob
    <3>2. job \in adding' <=> job \in adding
      BY <1>4, <2>2
    <3> QED
      BY <2>1, <3>1, <3>2, FaultCounts, AuditJobUndisturbed
  <2>3. CASE job.request = r
    <3>1. ~Owed(job) /\ job \notin adding /\ auditPlace[job] = "none" /\ EntriesOf(job) = {}
      BY <1>2, <2>3 DEF Owed, AuditJobOK
    <3>2. Owed(job)' <=> job \in adding'
      BY <1>3, <1>4, <2>3, <3>1 DEF Owed
    <3>3. Pending(job)' <=> job \in adding'
      BY <2>1, <3>1 DEF Pending
    <3>4. auditCrashes \in Nat
      BY FaultCounts
    <3> QED
      BY <2>1, <3>1, <3>2, <3>3, <3>4, FS_EmptySet DEF AuditJobOK
  <2> QED
    BY <2>2, <2>3
<1> QED
  BY <1>5, <1>6, <1>7

(* The entry goes to the queue. *)

LEMMA QueueingPreserves ==
  ASSUME AuditInv, NEW job \in AuditJob, QueueEntry(job)
  PROVE  AuditInv'
<1> USE DEF AuditInv
<1>1. /\ job \in adding /\ adding' = adding \ {job}
      /\ Owed(job) /\ auditPlace[job] = "none" /\ EntriesOf(job) = {}
      /\ UNCHANGED <<requests, auditor, entries, purged, auditFaultVars>>
  BY DEF QueueEntry, AuditJobOK
<1>2. ResolveRequestIdentity(job.request) = Requester(job.request)
  BY <1>1, IdentityIsFound DEF AuditJob, Owed
<1>3. /\ auditPlace' = [auditPlace EXCEPT ![job] = "waiting"]
      /\ auditPayload' = [auditPayload EXCEPT ![job] = TruthOf(job)]
      /\ UNCHANGED <<auditAttempts, auditStalls>>
  BY <1>1, <1>2 DEF QueueEntry, AuditQueue!Add, AuditQueue!Exists, TruthOf
<1>4. TruthOf(job) \in AuditLogData
  BY TruthTyped
<1>5. /\ auditPlace \in [AuditJob -> AuditQueue!Place]
      /\ auditPayload \in [AuditJob -> AuditLogData \cup {NoData}]
  BY DEF AuditTypeOK, AuditQueue!QueueTypeOK
<1>6. AuditTypeOK'
  <2>1. auditPlace' \in [AuditJob -> AuditQueue!Place]
    BY <1>3, <1>5 DEF AuditQueue!Place
  <2>2. auditPayload' \in [AuditJob -> AuditLogData \cup {NoData}]
    BY <1>3, <1>4, <1>5
  <2> QED
    BY <1>1, <1>3, <2>1, <2>2 DEF AuditTypeOK, AuditQueue!QueueTypeOK, auditFaultVars
<1>7. AuditorHasJob' /\ TokensChecked'
  BY <1>1, <1>3, <1>5, RequestsUntouched DEF AuditorHasJob
<1>8. ASSUME NEW other \in AuditJob
      PROVE  AuditJobOK(other)'
  <2>1. /\ (AtWork(other)' <=> AtWork(other)) /\ (EntryWritten(other)' <=> EntryWritten(other))
        /\ EntriesOf(other)' = EntriesOf(other)
        /\ (Owed(other)' <=> Owed(other)) /\ TruthOf(other)' = TruthOf(other)
    BY <1>1, RequestsUntouched DEF AtWork, EntryWritten, EntriesOf
  <2>2. CASE other # job
    BY <1>1, <1>3, <1>5, <2>1, <2>2, FaultCounts, AuditJobUndisturbed DEF auditFaultVars
  <2>3. CASE other = job
    <3>1. auditPlace'[job] = "waiting" /\ auditPayload'[job] = TruthOf(job) /\ job \notin adding'
      BY <1>1, <1>3, <1>5
    <3>2. ~EntryWritten(job)
      BY <1>1 DEF EntryWritten, AtWork, AuditorHasJob
    <3>3. Pending(job)'
      BY <2>1, <2>3, <3>1, <3>2 DEF Pending
    <3>4. auditCrashes \in Nat /\ auditCrashes' = auditCrashes
      BY <1>1, FaultCounts DEF auditFaultVars
    <3>5. EntriesOf(job)' = {} /\ Cardinality(EntriesOf(job)') = 0
      BY <1>1, <2>1, <2>3, FS_EmptySet
    <3>6. Owed(job)' /\ TruthOf(job)' = TruthOf(job)
      BY <1>1, <2>1, <2>3
    <3> HIDE DEF AuditInv
    <3> QED
      BY <2>3, <3>1, <3>3, <3>4, <3>5, <3>6 DEF AuditJobOK
  <2> QED
    BY <2>2, <2>3
<1> QED
  BY <1>6, <1>7, <1>8

LEMMA RefusedByRedisPreserves ==
  ASSUME AuditInv, NEW job \in AuditJob, QueueEntryFails(job)
  PROVE  AuditInv'
<1> USE DEF AuditInv
<1>1. /\ job \in adding /\ adding' = adding \ {job} /\ AuditError
      /\ UNCHANGED <<requests, queueAuditVars, auditor, entries, purged>>
  BY DEF QueueEntryFails
<1>2. AuditTypeOK'
  BY <1>1, FaultCounts DEF AuditTypeOK, AuditQueue!QueueTypeOK, queueAuditVars
<1>3. AuditorHasJob' /\ TokensChecked'
  BY <1>1, RequestsUntouched DEF AuditorHasJob, queueAuditVars
<1>4. ASSUME NEW other \in AuditJob
      PROVE  AuditJobOK(other)'
  <2>1. /\ (AtWork(other)' <=> AtWork(other)) /\ (EntryWritten(other)' <=> EntryWritten(other))
        /\ EntriesOf(other)' = EntriesOf(other)
        /\ (Owed(other)' <=> Owed(other)) /\ TruthOf(other)' = TruthOf(other)
        /\ auditPlace' = auditPlace /\ auditPayload' = auditPayload
    BY <1>1, RequestsUntouched DEF AtWork, EntryWritten, EntriesOf, queueAuditVars
  <2>2. CASE other # job
    BY <1>1, <2>1, <2>2, FaultCounts, AuditJobUndisturbed
  <2>3. CASE other = job
    <3>1. Owed(job) /\ auditPlace[job] = "none" /\ EntriesOf(job) = {}
      BY <1>1 DEF AuditJobOK
    <3>2. ~Pending(job)'
      BY <1>1, <2>1, <2>3, <3>1 DEF Pending
    <3>3. auditCrashes' \in Nat /\ ~NothingLost'
      BY <1>1, FaultCounts DEF NothingLost
    <3> QED
      BY <1>1, <2>1, <2>3, <3>1, <3>2, <3>3, FS_EmptySet DEF AuditJobOK
  <2> QED
    BY <2>2, <2>3
<1> QED
  BY <1>2, <1>3, <1>4

(* The worker. *)

LEMMA TakingPreserves ==
  ASSUME AuditInv, NEW job \in AuditJob, TakeAuditJob(job)
  PROVE  AuditInv'
<1> USE DEF AuditInv
<1>1. /\ ~auditor.busy /\ auditPlace[job] = "waiting"
      /\ auditPlace' = [auditPlace EXCEPT ![job] = "active"]
      /\ auditor' = [busy |-> TRUE, job |-> job, written |-> FALSE]
      /\ UNCHANGED <<auditPayload, auditAttempts, auditStalls,
                     requests, adding, entries, purged, auditFaultVars>>
  BY DEF TakeAuditJob, AuditQueue!Take
<1>2. auditPlace \in [AuditJob -> AuditQueue!Place]
  BY DEF AuditTypeOK, AuditQueue!QueueTypeOK
<1>3. AuditTypeOK'
  <2>1. auditPlace' \in [AuditJob -> AuditQueue!Place]
    BY <1>1, <1>2 DEF AuditQueue!Place
  <2>2. auditor' \in [busy : BOOLEAN, job : AuditJob, written : BOOLEAN]
    BY <1>1
  <2> QED
    BY <1>1, <2>1, <2>2 DEF AuditTypeOK, AuditQueue!QueueTypeOK, auditFaultVars
<1>4. AuditorHasJob' /\ TokensChecked'
  BY <1>1, <1>2, RequestsUntouched DEF AuditorHasJob
<1>5. ASSUME NEW other \in AuditJob
      PROVE  AuditJobOK(other)'
  <2>1. /\ EntriesOf(other)' = EntriesOf(other)
        /\ (Owed(other)' <=> Owed(other)) /\ TruthOf(other)' = TruthOf(other)
        /\ ~AtWork(other) /\ ~EntryWritten(other) /\ ~EntryWritten(other)'
        /\ (AtWork(other)' <=> other = job)
        /\ auditErrors' = auditErrors /\ auditCrashes' = auditCrashes
    BY <1>1, RequestsUntouched DEF AtWork, EntryWritten, EntriesOf, auditFaultVars
  <2>2. CASE other # job
    BY <1>1, <1>2, <2>1, <2>2, FaultCounts, AuditJobUndisturbed
  <2>3. CASE other = job
    <3>1. auditPlace'[job] = "active"
      BY <1>1, <1>2
    <3>2. Pending(job) /\ Pending(job)'
      BY <1>1, <2>1, <2>3, <3>1 DEF Pending
    <3>3. NothingLost' <=> NothingLost
      BY <2>1 DEF NothingLost
    <3> QED
      BY <1>1, <2>1, <2>3, <3>1, <3>2, <3>3 DEF AuditJobOK
  <2> QED
    BY <2>2, <2>3
<1> QED
  BY <1>3, <1>4, <1>5

\* The attempt to insert, whether the row is there afterwards or not.
LEMMA WritingPreserves ==
  ASSUME AuditInv, LogAuditEntry \/ LogFails
  PROVE  AuditInv'
<1> USE DEF AuditInv
<1> DEFINE job == auditor.job
           row == AuditEntry(job)
<1>1. /\ auditor.busy /\ ~auditor.written
      /\ auditor' = [auditor EXCEPT !.written = TRUE]
      /\ UNCHANGED <<requests, adding, queueAuditVars, purged>>
      /\ \/ entries' = entries \cup {row} /\ UNCHANGED auditFaultVars
         \/ entries' \in {entries, entries \cup {row}} /\ AuditError
  BY DEF LogAuditEntry, LogFails
<1>2. job \in AuditJob /\ auditPlace[job] = "active"
  BY <1>1 DEF AuditTypeOK, AuditorHasJob
<1>3. /\ job \notin adding /\ Owed(job) /\ auditPayload[job] = TruthOf(job)
      /\ (NothingLost => job \in purged \/ Owed(job))
  BY <1>2 DEF AuditJobOK
<1>4. TruthOf(job) \in AuditLogData
  BY <1>2, TruthTyped
<1>5. row \in AuditRow /\ row.job = job /\ row.data = TruthOf(job) /\ row \notin entries
  BY <1>2, <1>3, <1>4, IdsAreFresh DEF AuditEntry, AuditRow
<1> HIDE DEF row
<1>6. AuditTypeOK'
  <2>1. auditErrors' \in 0 .. MaxAuditErrors /\ auditCrashes' = auditCrashes
    BY <1>1, FaultCounts DEF AuditTypeOK, auditFaultVars
  <2>2. entries' \subseteq AuditRow
    BY <1>1, <1>5 DEF AuditTypeOK
  <2>3. IsFiniteSet(entries')
    BY <1>1, FS_AddElement DEF AuditTypeOK
  <2>4. auditor' \in [busy : BOOLEAN, job : AuditJob, written : BOOLEAN]
    BY <1>1 DEF AuditTypeOK
  <2> QED
    BY <1>1, <2>1, <2>2, <2>3, <2>4
       DEF AuditTypeOK, AuditQueue!QueueTypeOK, queueAuditVars
<1>7. /\ auditor'.busy /\ auditor'.job = job /\ auditor'.written
      /\ auditPlace' = auditPlace /\ auditPayload' = auditPayload
  BY <1>1 DEF AuditTypeOK, queueAuditVars
<1>8. AuditorHasJob' /\ TokensChecked'
  BY <1>1, <1>2, <1>7, RequestsUntouched DEF AuditorHasJob
<1>9. /\ auditErrors' \in Nat /\ auditErrors <= auditErrors' /\ auditCrashes' = auditCrashes
      /\ (NothingLost' => NothingLost /\ entries' = entries \cup {row})
  BY <1>1, FaultCounts DEF NothingLost, auditFaultVars
<1> HIDE DEF job
<1>10. ASSUME NEW other \in AuditJob
      PROVE  AuditJobOK(other)'
  <2>1. /\ (Owed(other)' <=> Owed(other)) /\ TruthOf(other)' = TruthOf(other)
        /\ (AtWork(other)' <=> AtWork(other)) /\ (AtWork(other) <=> other = job)
        /\ ~EntryWritten(other) /\ (EntryWritten(other)' <=> other = job)
    BY <1>1, <1>7, RequestsUntouched DEF AtWork, EntryWritten, job
  <2>2. CASE other # job
    <3>1. EntriesOf(other)' = EntriesOf(other)
      BY <1>1, <1>5, <2>2 DEF EntriesOf
    <3> QED
      BY <1>1, <1>7, <1>9, <2>1, <2>2, <3>1, FaultCounts, AuditJobUndisturbed
  <2>3. CASE other = job
    <3>1. EntriesOf(other)' \in {EntriesOf(other), EntriesOf(other) \cup {row}}
      BY <2>3, <1>1, <1>5 DEF EntriesOf
    <3>2. NothingLost' => EntriesOf(other)' # {}
      BY <2>3, <1>5, <1>9 DEF EntriesOf
    <3>3. Pending(other) /\ ~Pending(other)'
      BY <1>1, <1>2, <1>3, <1>7, <2>1, <2>3 DEF Pending
    <3>4. Cardinality(EntriesOf(other)) + 1 <= 1 + auditCrashes
      BY <2>3, <1>2, <3>3 DEF AuditJobOK
    <3>5. Cardinality(EntriesOf(other)') <= Cardinality(EntriesOf(other)) + 1
          /\ Cardinality(EntriesOf(other)') \in Nat /\ Cardinality(EntriesOf(other)) \in Nat
      <4>1. IsFiniteSet(EntriesOf(other)) /\ Cardinality(EntriesOf(other)) \in Nat
        BY <2>3, EntriesFinite
      <4>2. \/ Cardinality(EntriesOf(other) \cup {row}) = Cardinality(EntriesOf(other))
            \/ Cardinality(EntriesOf(other) \cup {row}) = Cardinality(EntriesOf(other)) + 1
        BY <2>3, <4>1, FS_AddElement
      <4>3. CASE EntriesOf(other)' = EntriesOf(other)
        BY <4>1, <4>3
      <4>4. CASE EntriesOf(other)' = EntriesOf(other) \cup {row}
        BY <4>1, <4>2, <4>4
      <4> QED
        BY <3>1, <4>3, <4>4
    <3>6. auditCrashes \in Nat
      BY <2>3, FaultCounts
    <3>7. (Cardinality(EntriesOf(other)) + (IF Pending(other) THEN 1 ELSE 0) <= 1 + auditCrashes)'
      BY <2>3, <1>9, <3>3, <3>4, <3>5, <3>6
    <3>8. \A r \in EntriesOf(other)' : r.data = TruthOf(other)
      BY <2>3, <1>2, <1>5, <3>1 DEF AuditJobOK
    <3>9. other \notin adding' /\ Owed(other)' /\ auditPayload'[other] = TruthOf(other)'
          /\ auditPlace'[other] = "active" /\ AtWork(other)'
      BY <1>1, <1>2, <1>3, <1>7, <2>1, <2>3
    <3> QED
      BY <2>1, <2>3, <3>2, <3>7, <3>8, <3>9 DEF AuditJobOK
  <2> QED
    BY <2>2, <2>3
<1> QED
  BY <1>6, <1>8, <1>10

LEMMA CompletionPreserves ==
  ASSUME AuditInv, CompleteAuditJob
  PROVE  AuditInv'
<1> USE DEF AuditInv
<1> DEFINE job == auditor.job
<1>1. /\ auditor.busy /\ auditor.written
      /\ auditPlace' = [auditPlace EXCEPT ![job] = "none"]
      /\ auditPayload' = [auditPayload EXCEPT ![job] = NoData]
      /\ auditAttempts' = [auditAttempts EXCEPT ![job] = 0]
      /\ auditStalls' = [auditStalls EXCEPT ![job] = 0]
      /\ auditor' = IdleAuditor
      /\ UNCHANGED <<requests, adding, entries, purged, auditFaultVars>>
  BY DEF CompleteAuditJob, AuditQueue!Complete, AuditQueue!Remove
<1>2. job \in AuditJob /\ auditPlace[job] = "active"
  BY <1>1 DEF AuditTypeOK, AuditorHasJob
<1>3. /\ auditPlace \in [AuditJob -> AuditQueue!Place]
      /\ auditPayload \in [AuditJob -> AuditLogData \cup {NoData}]
  BY DEF AuditTypeOK, AuditQueue!QueueTypeOK
<1>4. IdleAuditor \in [busy : BOOLEAN, job : AuditJob, written : BOOLEAN] /\ ~IdleAuditor.busy
  BY <1>2 DEF IdleAuditor
<1>5. AuditTypeOK'
  <2>1. AuditQueue!QueueTypeOK'
    BY <1>1, <1>2 DEF AuditTypeOK, AuditQueue!QueueTypeOK, AuditQueue!Place
  <2> QED
    BY <1>1, <1>4, <2>1 DEF AuditTypeOK, auditFaultVars
<1>6. AuditorHasJob' /\ TokensChecked'
  BY <1>1, <1>4, RequestsUntouched DEF AuditorHasJob
<1>7. ASSUME NEW other \in AuditJob
      PROVE  AuditJobOK(other)'
  <2>1. /\ EntriesOf(other)' = EntriesOf(other)
        /\ (Owed(other)' <=> Owed(other)) /\ TruthOf(other)' = TruthOf(other)
        /\ ~AtWork(other)' /\ ~EntryWritten(other)' /\ (AtWork(other) <=> other = job)
        /\ (EntryWritten(other) <=> other = job)
        /\ auditErrors' = auditErrors /\ auditCrashes' = auditCrashes
    BY <1>1, <1>4, RequestsUntouched DEF AtWork, EntryWritten, EntriesOf, auditFaultVars
  <2> HIDE DEF job
  <2>2. CASE other # job
    BY <1>1, <1>2, <1>3, <2>1, <2>2, FaultCounts, AuditJobUndisturbed
  <2>3. CASE other = job
    <3>1. auditPlace'[other] = "none" /\ other \notin adding /\ other \notin adding'
      BY <2>3, <1>1, <1>2, <1>3 DEF AuditJobOK
    <3>2. ~Pending(other) /\ ~Pending(other)'
      BY <2>1, <2>3, <3>1 DEF Pending
    <3>3. NothingLost' <=> NothingLost
      BY <2>3, <2>1 DEF NothingLost
    <3> QED
      BY <1>1, <2>1, <2>3, <3>1, <3>2, <3>3 DEF AuditJobOK
  <2> QED
    BY <2>2, <2>3
<1> QED
  BY <1>5, <1>6, <1>7

\* The job of a worker that died: nothing failed only if there is none.
LEMMA StallPreserves ==
  ASSUME AuditInv, NEW job \in AuditJob, AuditJobStalls(job)
  PROVE  AuditInv'
<1> USE DEF AuditInv
<1>1. /\ ~AtWork(job) /\ auditPlace[job] = "active"
      /\ UNCHANGED <<requests, adding, auditor, entries, purged, auditFaultVars>>
      /\ \A other \in AuditJob : other # job =>
           auditPlace'[other] = auditPlace[other] /\ auditPayload'[other] = auditPayload[other]
      /\ auditPlace'[job] \in {"none", "waiting", "failed"}
      /\ auditPlace'[job] # "none" => auditPayload'[job] = auditPayload[job]
      /\ AuditQueue!QueueTypeOK'
  <2>1. AuditQueue!QueueTypeOK
    BY DEF AuditTypeOK
  <2>2. /\ AuditQueue!Stall(job) /\ ~AtWork(job)
        /\ UNCHANGED <<requests, adding, auditor, entries, purged, auditFaultVars>>
    BY DEF AuditJobStalls, AtWork
  <2>3. CASE /\ auditStalls[job] < 1
             /\ auditPlace' = [auditPlace EXCEPT ![job] = "waiting"]
             /\ auditStalls' = [auditStalls EXCEPT ![job] = @ + 1]
             /\ UNCHANGED <<auditPayload, auditAttempts>>
    BY <2>1, <2>2, <2>3 DEF AuditQueue!Stall, AuditQueue!QueueTypeOK, AuditQueue!Place
  <2>4. CASE AuditQueue!Remove(job)
    BY <2>1, <2>2, <2>4
       DEF AuditQueue!Stall, AuditQueue!Remove, AuditQueue!QueueTypeOK, AuditQueue!Place
  <2>5. CASE /\ auditPlace' = [auditPlace EXCEPT ![job] = "failed"]
             /\ UNCHANGED <<auditPayload, auditAttempts, auditStalls>>
    BY <2>1, <2>2, <2>5 DEF AuditQueue!Stall, AuditQueue!QueueTypeOK, AuditQueue!Place
  <2> QED
    BY <2>2, <2>3, <2>4, <2>5 DEF AuditQueue!Stall
<1>2. AuditTypeOK'
  BY <1>1 DEF AuditTypeOK, auditFaultVars
<1>3. AuditorHasJob' /\ TokensChecked'
  BY <1>1, RequestsUntouched DEF AuditorHasJob, AtWork, AuditTypeOK
<1>4. ASSUME NEW other \in AuditJob
      PROVE  AuditJobOK(other)'
  <2>1. /\ EntriesOf(other)' = EntriesOf(other)
        /\ (Owed(other)' <=> Owed(other)) /\ TruthOf(other)' = TruthOf(other)
        /\ (AtWork(other)' <=> AtWork(other)) /\ (EntryWritten(other)' <=> EntryWritten(other))
        /\ auditErrors' = auditErrors /\ auditCrashes' = auditCrashes
    BY <1>1, RequestsUntouched DEF AtWork, EntryWritten, EntriesOf, auditFaultVars
  <2>2. CASE other # job
    BY <1>1, <2>1, <2>2, FaultCounts, AuditJobUndisturbed
  <2>3. CASE other = job
    <3>1. ~NothingLost' /\ ~EntryWritten(job) /\ Pending(job) /\ Owed(job) /\ job \notin adding
          /\ auditPayload[job] = TruthOf(job)
      BY <1>1, <2>1 DEF AuditJobOK, NothingLost, EntryWritten, Pending
    <3>2. Cardinality(EntriesOf(job)) \in Nat /\ auditCrashes \in Nat
      BY EntriesFinite, FaultCounts
    <3>3. Cardinality(EntriesOf(job)) + 1 <= 1 + auditCrashes
      BY <3>1 DEF AuditJobOK
    <3>4. (Cardinality(EntriesOf(job)) + (IF Pending(job) THEN 1 ELSE 0) <= 1 + auditCrashes)'
      BY <2>1, <2>3, <3>2, <3>3
    <3> QED
      BY <1>1, <2>1, <2>3, <3>1, <3>4 DEF AuditJobOK
  <2> QED
    BY <2>2, <2>3
<1> QED
  BY <1>2, <1>3, <1>4

(* The retention, and the end of the process. *)

LEMMA CleanUpPreserves ==
  ASSUME AuditInv, NEW statuses, CleanUp(statuses)
  PROVE  AuditInv'
<1> USE DEF AuditInv
<1>1. PICK old \in SUBSET entries :
        /\ purged' = purged \cup {row.job : row \in old}
        /\ entries' = entries \ old
  BY DEF CleanUp
<1>2. UNCHANGED <<requests, adding, queueAuditVars, auditor, auditFaultVars>>
  BY DEF CleanUp
<1>3. AuditTypeOK'
  <2>1. IsFiniteSet(entries')
    BY <1>1, FS_Subset DEF AuditTypeOK
  <2>2. \A row \in entries : row.job \in AuditJob
    BY DEF AuditTypeOK, AuditRow
  <2> QED
    BY <1>1, <1>2, <2>1, <2>2
       DEF AuditTypeOK, AuditQueue!QueueTypeOK, queueAuditVars, auditFaultVars
<1>4. AuditorHasJob' /\ TokensChecked'
  BY <1>2, RequestsUntouched DEF AuditorHasJob, queueAuditVars
<1>5. ASSUME NEW job \in AuditJob
      PROVE  AuditJobOK(job)'
  <2>1. /\ (Owed(job)' <=> Owed(job)) /\ TruthOf(job)' = TruthOf(job)
        /\ (AtWork(job)' <=> AtWork(job)) /\ (Pending(job)' <=> Pending(job))
        /\ (NothingLost' <=> NothingLost)
        /\ auditPlace' = auditPlace /\ auditPayload' = auditPayload /\ adding' = adding
        /\ auditCrashes' = auditCrashes
    BY <1>2, RequestsUntouched DEF AtWork, Pending, EntryWritten, NothingLost,
       queueAuditVars, auditFaultVars
  <2>2. EntriesOf(job)' \subseteq EntriesOf(job)
    BY <1>1 DEF EntriesOf
  <2>3. job \notin purged' => job \notin purged /\ EntriesOf(job)' = EntriesOf(job)
    BY <1>1 DEF EntriesOf
  <2>4. /\ Cardinality(EntriesOf(job)') <= Cardinality(EntriesOf(job))
        /\ Cardinality(EntriesOf(job)') \in Nat /\ Cardinality(EntriesOf(job)) \in Nat
    BY <2>2, EntriesFinite, FS_Subset, FS_CardinalityType
  <2>5. Cardinality(EntriesOf(job)) + (IF Pending(job) THEN 1 ELSE 0) <= 1 + auditCrashes
    BY DEF AuditJobOK
  <2>6. (Cardinality(EntriesOf(job)) + (IF Pending(job) THEN 1 ELSE 0) <= 1 + auditCrashes)'
    BY <2>1, <2>4, <2>5, FaultCounts
  <2> QED
    BY <2>1, <2>2, <2>3, <2>6 DEF AuditJobOK
<1> QED
  BY <1>3, <1>4, <1>5

LEMMA CrashPreserves ==
  ASSUME AuditInv, AuditCrash
  PROVE  AuditInv'
<1> USE DEF AuditInv
<1>1. /\ auditCrashes < MaxAuditCrashes /\ auditCrashes' = auditCrashes + 1
      /\ requests' = [r \in Request |-> IF requests[r].step = "inside"
                                        THEN [requests[r] EXCEPT !.step = "lost"]
                                        ELSE requests[r]]
      /\ adding' = {}
      /\ auditor' = IdleAuditor
      /\ UNCHANGED <<queueAuditVars, entries, purged, auditErrors>>
  BY DEF AuditCrash
<1>2. \A r \in Request :
        /\ requests'[r].step = "answered" <=> requests[r].step = "answered"
        /\ requests'[r].outcome = requests[r].outcome
        /\ requests'[r].by = requests[r].by /\ requests'[r].bearer = requests[r].bearer
  BY <1>1 DEF AuditTypeOK
<1>3. AuditTypeOK'
  <2>1. requests' \in [Request -> AuditedRequest]
    BY <1>1 DEF AuditTypeOK, AuditedRequest
  <2>2. IdleAuditor \in [busy : BOOLEAN, job : AuditJob, written : BOOLEAN]
    <3>1. PICK r \in Request : TRUE
      BY RequestAssumption
    <3>2. [request |-> r, pass |-> 1] \in AuditJob
      BY DEF AuditJob
    <3> QED
      BY <3>2 DEF IdleAuditor
  <2>3. auditCrashes' \in 0 .. MaxAuditCrashes
    BY <1>1, AuditBoundsAssumption DEF AuditTypeOK
  <2> QED
    BY <1>1, <2>1, <2>2, <2>3 DEF AuditTypeOK, AuditQueue!QueueTypeOK, queueAuditVars
<1>4. AuditorHasJob' /\ TokensChecked'
  <2>1. TokensChecked'
    BY <1>1 DEF TokensChecked, AuditTypeOK
  <2> QED
    BY <1>1, <2>1 DEF AuditorHasJob, IdleAuditor
<1>5. ASSUME NEW job \in AuditJob
      PROVE  AuditJobOK(job)'
  <2>1. /\ (Owed(job)' <=> Owed(job)) /\ TruthOf(job)' = TruthOf(job)
        /\ EntriesOf(job)' = EntriesOf(job)
        /\ auditPlace' = auditPlace /\ auditPayload' = auditPayload /\ adding' = {}
    BY <1>1, <1>2 DEF Owed, TruthOf, Passes, Requester, EntriesOf, AuditJob, queueAuditVars
  <2>2. ~NothingLost'
    BY <1>1, FaultCounts DEF NothingLost
  <2>3. Cardinality(EntriesOf(job)) \in Nat /\ auditCrashes \in Nat
    BY EntriesFinite, FaultCounts
  <2>4. Cardinality(EntriesOf(job)) + (IF Pending(job) THEN 1 ELSE 0) <= 1 + auditCrashes
    BY DEF AuditJobOK
  <2>5. (Cardinality(EntriesOf(job)) + (IF Pending(job) THEN 1 ELSE 0) <= 1 + auditCrashes)'
    BY <1>1, <2>1, <2>3, <2>4
  <2> QED
    BY <2>1, <2>2, <2>5 DEF AuditJobOK
<1> QED
  BY <1>3, <1>4, <1>5

LEMMA AuditPreserved ==
  ASSUME AuditInv, [AuditNext]_auditVars
  PROVE  AuditInv'
<1>1. CASE UNCHANGED auditVars
  <2>1. AuditTypeOK'
    BY <1>1 DEF AuditInv, AuditTypeOK, AuditQueue!QueueTypeOK, auditVars,
       queueAuditVars, auditFaultVars
  <2>2. AuditorHasJob' /\ TokensChecked'
    BY <1>1, RequestsUntouched DEF AuditInv, AuditorHasJob, auditVars, queueAuditVars
  <2>3. ASSUME NEW job \in AuditJob
        PROVE  AuditJobOK(job)'
    <3>1. UNCHANGED <<requests, adding, auditPlace, auditPayload, auditor, entries, purged,
                      auditErrors, auditCrashes>>
      BY <1>1 DEF auditVars, queueAuditVars, auditFaultVars
    <3>2. /\ (Owed(job)' <=> Owed(job)) /\ TruthOf(job)' = TruthOf(job)
          /\ (AtWork(job)' <=> AtWork(job)) /\ (EntryWritten(job)' <=> EntryWritten(job))
          /\ EntriesOf(job)' = EntriesOf(job)
      BY <3>1, RequestsUntouched DEF AtWork, EntryWritten, EntriesOf
    <3> QED
      BY <3>1, <3>2, FaultCounts, AuditJobUndisturbed DEF AuditInv
  <2> QED
    BY <2>1, <2>2, <2>3 DEF AuditInv
<1> QED
  BY <1>1, GuardsPreserve, HandlersPreserve, QueueingPreserves, RefusedByRedisPreserves,
     TakingPreserves, StallPreserves, WritingPreserves, CompletionPreserves,
     CleanUpPreserves, CrashPreserves DEF AuditNext

\* An entry tells how the request ended and who made it: the one a guard has verified,
\* or, of the operation that is open to any client, the one its token claims or nobody.
\* Every pass has exactly one, whatever the order of requests, worker and clean-up: only
\* an error loses one, and only a worker that died doubles it (AuditInterceptor,
\* AuditService.log).
THEOREM EntriesAreTrue == AuditSpec => []EntriesTellWhatHappened
<1>1. AuditInv => EntriesTellWhatHappened
  <2> SUFFICES ASSUME AuditInv PROVE EntriesTellWhatHappened
    OBVIOUS
  <2> USE DEF AuditInv
  <2>1. ASSUME NEW row \in entries
        PROVE  row.data = [user |-> Requester(row.job.request),
                           status |-> requests[row.job.request].outcome]
    <3>1. row.job \in AuditJob /\ row \in EntriesOf(row.job)
      BY DEF AuditTypeOK, AuditRow, EntriesOf
    <3> QED
      BY <3>1 DEF AuditJobOK, TruthOf
  <2>2. ASSUME NEW job \in AuditJob
        PROVE  Cardinality(EntriesOf(job)) <= 1 + auditCrashes
    <3>1. Cardinality(EntriesOf(job)) + (IF Pending(job) THEN 1 ELSE 0) <= 1 + auditCrashes
      BY DEF AuditJobOK
    <3> QED
      BY <3>1, EntriesFinite, FaultCounts
  <2>3. ASSUME auditErrors = 0, auditCrashes = 0, adding = {},
               \A job \in AuditJob : auditPlace[job] = "none",
               NEW job \in AuditJob \ purged
        PROVE  Cardinality(EntriesOf(job)) = IF Owed(job) THEN 1 ELSE 0
    <3>1. NothingLost /\ ~Pending(job)
      BY <2>3 DEF NothingLost, Pending
    <3>2. CASE Owed(job)
      <4>1. EntriesOf(job) # {}
        BY <3>1, <3>2 DEF AuditJobOK
      <4>2. Cardinality(EntriesOf(job)) # 0
        BY <4>1, EntriesFinite, FS_EmptySet
      <4> QED
        BY <2>2, <2>3, <3>2, <4>2, EntriesFinite
    <3>3. CASE ~Owed(job)
      <4>1. EntriesOf(job) = {}
        BY <3>3 DEF AuditJobOK
      <4> QED
        BY <3>3, <4>1, FS_EmptySet
    <3> QED
      BY <3>2, <3>3
  <2> QED
    BY <2>1, <2>2, <2>3 DEF EntriesTellWhatHappened, Owed
<1> QED
  BY <1>1, AuditStarts, AuditPreserved, PTL DEF AuditSpec

-----------------------------------------------------------------------------
(* The transaction listing: nothing that keeps matching is missed.          *)

\* Shown to the client, or about to be.
Shown(id) == \/ \E seen \in listed : seen.id = id
             \/ \E i \in DOMAIN pageRows : pageRows[i].id = id

\* The rows that the listing's order puts before a row.
Before(id) ==
  {other \in Matches(ledger) :
     IF query.sortOrder = "ASC" THEN ledger[other].createdAt < ledger[id].createdAt
                                ELSE ledger[other].createdAt > ledger[id].createdAt}

\* The pages whose rows have been read.
PagesRead == IF listStep \in {"asked", "refused"} THEN page - 1 ELSE page

NoTies == ~Ties

\* A row is never newer than its payment, which is saved first.
RowsBehindPayments ==
  /\ \A id \in DOMAIN ledger : ledger[id].version <= payments[id]
  /\ \A i \in DOMAIN pageRows : pageRows[i].row.version <= payments[pageRows[i].id]
  /\ \A seen \in listed : seen.version <= seen.details

\* What was read, and what was shown, has the status that was asked for.
StatusAsAsked ==
  query.status # NotAsked =>
    /\ \A i \in DOMAIN pageRows : pageRows[i].row.status \in GetDetailedStatuses(query.status)
    /\ \A seen \in listed : seen.status = query.status

\* A row that has matched all the time and was not shown yet has the pages read so
\* far in front of it; when there is no next page there is no such row.
ReachedOrAhead ==
  /\ ~Started => matching = Matches(ledger) /\ ~someLeft
  /\ listStep = "asked" => pageRows = <<>>
  /\ Started /\ ~someLeft /\ NoTies =>
       /\ matching \subseteq Matches(ledger)
       /\ \A id \in matching :
            \/ Shown(id)
            \/ listStep # "over" /\ Cardinality(Before(id)) >= PagesRead * query.limit

ListingInv ==
  /\ ListingTypeOK
  /\ RowsBehindPayments
  /\ StatusAsAsked
  /\ ReachedOrAhead

\* The two switches are each other's inverse.
LEMMA SwitchesInverse ==
  ASSUME NEW wanted \in TransactionSemanticStatus, NEW status \in TransactionStatus
  PROVE  status \in GetDetailedStatuses(wanted) <=> GetSemanticStatus(status) = wanted
BY DEF TransactionSemanticStatus, TransactionStatus, GetDetailedStatuses, GetSemanticStatus

LEMMA SemanticStatusTyped ==
  ASSUME NEW status \in TransactionStatus
  PROVE  GetSemanticStatus(status) \in TransactionSemanticStatus
BY DEF TransactionSemanticStatus, TransactionStatus, GetSemanticStatus

LEMMA QueryTyped ==
  ASSUME ListingTypeOK
  PROVE  /\ query.limit \in Nat \ {0}
         /\ query.status # NotAsked => query.status \in TransactionSemanticStatus
         /\ page \in Nat \ {0} /\ PagesRead \in Nat
<1>1. query \in GetTransactionsQuery
  BY QueriesAssumption DEF ListingTypeOK
<1>2. /\ query.limit \in Nat \ {0}
      /\ query.status # NotAsked => query.status \in TransactionSemanticStatus
  BY <1>1, MaxLimitAssumption DEF GetTransactionsQuery
<1>3. page \in 1 .. MaxTransactions + 1
  BY DEF ListingTypeOK
<1>4. page \in Nat \ {0} /\ PagesRead \in Nat
  BY <1>3, ListingBoundsAssumption DEF PagesRead
<1> QED
  BY <1>2, <1>4

LEMMA RowTyped ==
  ASSUME ListingTypeOK, NEW id \in DOMAIN ledger
  PROVE  /\ ledger[id] \in Transaction /\ ledger[id].createdAt \in Nat
         /\ ledger[id].version \in Nat /\ ledger[id].status \in TransactionStatus
         /\ payments[id] \in 1 .. MaxPaymentVersions /\ payments[id] \in Nat
<1>1. ledger \in Seq(Transaction)
  BY DEF ListingTypeOK
<1>4. ledger[id] \in Transaction
  BY <1>1
<1>2. /\ ledger[id].createdAt \in Nat /\ ledger[id].version \in Nat
      /\ ledger[id].status \in TransactionStatus
  BY <1>4, StatusSeenAssumption, ListingBoundsAssumption DEF Transaction
<1>3. payments[id] \in 1 .. MaxPaymentVersions
  BY DEF ListingTypeOK
<1> QED
  BY <1>4, <1>2, <1>3, ListingBoundsAssumption

LEMMA MatchesFinite ==
  ASSUME ListingTypeOK
  PROVE  /\ IsFiniteSet(Matches(ledger)) /\ Cardinality(Matches(ledger)) \in Nat
         /\ Matches(ledger) \subseteq DOMAIN ledger
         /\ \A id : /\ IsFiniteSet(Before(id)) /\ Cardinality(Before(id)) \in Nat
                    /\ Before(id) \subseteq Matches(ledger)
<1>1. DOMAIN ledger = 1 .. Len(ledger) /\ Len(ledger) \in Nat
  BY LenProperties DEF ListingTypeOK
<1>2. IsFiniteSet(DOMAIN ledger)
  BY <1>1, FS_Interval
<1>3. Matches(ledger) \subseteq DOMAIN ledger
  BY DEF Matches
<1>4. IsFiniteSet(Matches(ledger))
  BY <1>2, <1>3, FS_Subset
<1>5. ASSUME NEW id
      PROVE  IsFiniteSet(Before(id)) /\ Before(id) \subseteq Matches(ledger)
  BY <1>4, FS_Subset DEF Before
<1> QED
  BY <1>3, <1>4, <1>5, FS_CardinalityType

\* In the listing's order, as many rows come before a row as its place says.
LEMMA PlaceInOrder ==
  ASSUME ListingTypeOK, NoTies, NEW rows \in SortedRows, NEW id \in Matches(ledger)
  PROVE  \E k \in DOMAIN rows : rows[k] = id /\ Cardinality(Before(id)) = k - 1
<1> DEFINE M == Matches(ledger)
           n == Cardinality(M)
<1>1. /\ IsFiniteSet(M) /\ n \in Nat /\ M \subseteq DOMAIN ledger
  BY MatchesFinite
<1>2. /\ rows \in [1 .. n -> M]
      /\ \A i, j \in 1 .. n :
           i < j => /\ rows[i] # rows[j]
                    /\ IF query.sortOrder = "ASC"
                       THEN ledger[rows[i]].createdAt <= ledger[rows[j]].createdAt
                       ELSE ledger[rows[i]].createdAt >= ledger[rows[j]].createdAt
  BY DEF SortedRows
<1>3. \A other \in M : ledger[other].createdAt \in Nat
  BY <1>1, RowTyped
<1>4. \A one, other \in M : one # other => ledger[one].createdAt # ledger[other].createdAt
  BY <1>1 DEF NoTies, Ties
<1> HIDE DEF M, n
<1>5. rows \in Surjection(1 .. n, M)
  <2>1. rows \in Injection(1 .. n, M)
    BY <1>1, <1>2 DEF Injection, IsInjective
  <2>2. Cardinality(1 .. n) = n
    BY <1>1, FS_Interval
  <2> QED
    BY <1>1, <2>1, <2>2, FS_Injection DEF n
<1>6. PICK k \in 1 .. n : rows[k] = id
  BY <1>5 DEF Surjection, M
<1>7. \A i \in 1 .. n : rows[i] \in Before(id) <=> i < k
  <2> SUFFICES ASSUME NEW i \in 1 .. n
               PROVE  rows[i] \in Before(id) <=> i < k
    OBVIOUS
  <2>0. rows[i] \in M /\ id \in M
    BY <1>2 DEF M
  <2>1. CASE i < k
    <3>1. ledger[rows[i]].createdAt # ledger[id].createdAt
      BY <1>1, <1>2, <1>4, <1>6, <2>0, <2>1
    <3> QED
      BY <1>1, <1>2, <1>3, <1>6, <2>0, <2>1, <3>1 DEF Before, M
  <2>2. CASE i = k
    BY <1>3, <1>6, <2>0, <2>2 DEF Before
  <2>3. CASE k < i
    BY <1>1, <1>2, <1>3, <1>6, <2>0, <2>3 DEF Before
  <2> QED
    BY <1>1, <2>1, <2>2, <2>3
<1>8. Cardinality(Before(id)) = k - 1
  <2> DEFINE first == [i \in 1 .. k - 1 |-> rows[i]]
  <2>1. first \in [1 .. k - 1 -> Before(id)]
    BY <1>1, <1>6, <1>7
  <2>2. \A i, j \in 1 .. k - 1 : first[i] = first[j] => i = j
    BY <1>1, <1>2, <1>6
  <2>3. \A other \in Before(id) : \E i \in 1 .. k - 1 : first[i] = other
    <3> SUFFICES ASSUME NEW other \in Before(id)
                 PROVE  \E i \in 1 .. k - 1 : first[i] = other
      OBVIOUS
    <3>1. other \in M
      BY DEF Before, M
    <3>2. PICK i \in 1 .. n : rows[i] = other
      BY <1>5, <3>1 DEF Surjection
    <3> QED
      BY <1>1, <1>6, <1>7, <3>2
  <2> HIDE DEF first
  <2>4. first \in Bijection(1 .. k - 1, Before(id))
    BY <2>1, <2>2, <2>3 DEF Bijection, Injection, IsInjective, Surjection
  <2>5. IsFiniteSet(1 .. k - 1) /\ Cardinality(1 .. k - 1) = k - 1
    BY <1>1, <1>6, FS_Interval
  <2> QED
    BY <2>4, <2>5, FS_Bijection DEF ExistsBijection
<1> QED
  BY <1>1, <1>2, <1>6, <1>8

(* Arithmetic of the pages. *)

LEMMA PageArithmetic ==
  ASSUME NEW p \in Nat \ {0}, NEW l \in Nat \ {0}
  PROVE  /\ (p - 1) * l \in Nat /\ p * l \in Nat
         /\ (p - 1) * l + l = p * l
OBVIOUS

LEMMA LastPageCovers ==
  ASSUME NEW p \in Nat, NEW l \in Nat \ {0}, NEW c \in Nat,
         p >= (c + l - 1) \div l
  PROVE  p * l >= c
<1> DEFINE q == (c + l - 1) \div l
<1>1. q \in Int /\ l * q <= c + l - 1 /\ c + l - 1 < l * q + l
  OBVIOUS
<1> HIDE DEF q
<1>2. p >= q
  BY DEF q
<1>3. l * p >= l * q
  BY <1>1, <1>2
<1>4. l * q \in Int /\ l * p \in Int /\ l * p = p * l
  BY <1>1
<1> QED
  BY <1>1, <1>3, <1>4

LEMMA ListingStarts == ListingInit => ListingInv
<1> SUFFICES ASSUME ListingInit PROVE ListingInv
  OBVIOUS
<1> USE DEF ListingInit
<1>1. << >> \in Seq(Transaction) /\ Len(<< >>) = 0 /\ DOMAIN << >> = {}
      /\ << >> \in Seq([id : DOMAIN << >>, row : Transaction])
  OBVIOUS
<1>2. ListingTypeOK
  <2>1. payments \in [DOMAIN ledger -> 1 .. MaxPaymentVersions]
    BY <1>1
  <2>2. pageRows \in Seq([id : DOMAIN ledger, row : Transaction])
    BY <1>1
  <2> QED
    <3>1. page \in 1 .. MaxTransactions + 1 /\ Len(ledger) <= MaxTransactions
      BY <1>1, ListingBoundsAssumption
    <3> QED
      BY <1>1, <2>1, <2>2, <3>1 DEF ListingTypeOK
<1>3. RowsBehindPayments /\ StatusAsAsked
  BY <1>1 DEF RowsBehindPayments, StatusAsAsked
<1>4. ReachedOrAhead
  BY <1>1 DEF ReachedOrAhead, Matches, Started
<1> QED
  BY <1>2, <1>3, <1>4 DEF ListingInv

\* The ledger moves under the listing: rows are added and change their status, none
\* goes away or is dated anew.
LEMMA LedgerMoves ==
  ASSUME ListingInv, UNCHANGED listVars, ListingTypeOK',
         DOMAIN ledger \subseteq DOMAIN ledger',
         \A id \in DOMAIN ledger : ledger'[id].createdAt = ledger[id].createdAt,
         Follow(ledger')
  PROVE  ReachedOrAhead'
<1> USE DEF ListingInv
<1>1. /\ query' = query /\ page' = page /\ listStep' = listStep
      /\ pageRows' = pageRows /\ listed' = listed
  BY DEF listVars
<1>2. Started' = Started /\ PagesRead' = PagesRead
  BY <1>1 DEF Started, PagesRead
<1>3. (\A id : Shown(id)' <=> Shown(id))
  BY <1>1 DEF Shown
<1>4. Matches(ledger)' = Matches(ledger')
  BY <1>1 DEF Matches, BuildFilters
<1>5. CASE ~Started
  BY <1>1, <1>2, <1>4, <1>5 DEF ReachedOrAhead, Follow
<1>6. CASE Started
  <2>1. /\ matching' = matching \cap Matches(ledger')
        /\ someLeft' = (someLeft \/ Matches(ledger) \ Matches(ledger') # {})
    BY <1>6 DEF Follow
  <2>2. SUFFICES ASSUME ~someLeft', NoTies'
                 PROVE  /\ matching' \subseteq Matches(ledger')
                        /\ \A id \in matching' :
                             \/ Shown(id)
                             \/ listStep # "over"
                                /\ Cardinality(Before(id)') >= PagesRead * query.limit
    BY <1>1, <1>2, <1>3, <1>4, <1>6 DEF ReachedOrAhead
  <2>3. ~someLeft /\ Matches(ledger) \subseteq Matches(ledger')
    BY <2>1, <2>2 DEF ListingTypeOK
  <2>4. NoTies
    BY <2>2 DEF NoTies, Ties
  <2>5. ASSUME NEW id \in matching', ~Shown(id)
        PROVE  listStep # "over" /\ Cardinality(Before(id)') >= PagesRead * query.limit
    <3>1. id \in matching /\ id \in Matches(ledger)
      BY <1>6, <2>1, <2>3, <2>4, <2>5 DEF ReachedOrAhead
    <3>2. listStep # "over" /\ Cardinality(Before(id)) >= PagesRead * query.limit
      BY <1>6, <2>3, <2>4, <2>5, <3>1 DEF ReachedOrAhead
    <3>3. id \in DOMAIN ledger /\ Matches(ledger) \subseteq DOMAIN ledger
      BY <3>1 DEF Matches
    <3>4. Before(id) \subseteq Before(id)'
      BY <1>1, <1>4, <2>3, <3>3 DEF Before
    <3>5. IsFiniteSet(Before(id)') /\ Cardinality(Before(id)') \in Nat
      <4>4. ledger' \in Seq(Transaction)
        BY DEF ListingTypeOK, Transaction
      <4>1. DOMAIN ledger' = 1 .. Len(ledger') /\ Len(ledger') \in Nat
        BY <4>4, LenProperties
      <4>2. IsFiniteSet(DOMAIN ledger')
        BY <4>1, FS_Interval
      <4>3. Before(id)' \subseteq DOMAIN ledger'
        BY DEF Before, Matches
      <4> QED
        BY <4>2, <4>3, FS_Subset, FS_CardinalityType
    <3>6. Cardinality(Before(id)) <= Cardinality(Before(id)')
      BY <3>4, <3>5, FS_Subset
    <3>7. Cardinality(Before(id)) \in Nat /\ PagesRead * query.limit \in Nat
      BY MatchesFinite, QueryTyped
    <3> QED
      BY <3>2, <3>5, <3>6, <3>7
  <2> QED
    BY <2>1, <2>5
<1> QED
  BY <1>5, <1>6

\* The other steps of the listing leave the ledger and what matches alone.
LEMMA LedgerStill ==
  ASSUME ListingInv,
         UNCHANGED <<ledger, query, matching, someLeft>>
  PROVE  /\ Matches(ledger)' = Matches(ledger)
         /\ (NoTies' <=> NoTies)
         /\ \A id : Before(id)' = Before(id)
BY DEF Matches, BuildFilters, NoTies, Ties, Before

LEMMA SameRange ==
  ASSUME NEW m \in Nat, NEW n \in Nat, 1 .. m = 1 .. n
  PROVE  m = n
<1>1. \A i \in Nat \ {0} : i <= m <=> i <= n
  <2>1. \A i \in Nat \ {0} : i \in 1 .. m <=> i \in 1 .. n
    OBVIOUS
  <2> QED
    BY <2>1
<1> QED
  BY <1>1

\* The rows of a page, as they were read.
LEMMA PageRowsTyped ==
  ASSUME ListingTypeOK, NEW i \in DOMAIN pageRows
  PROVE  /\ pageRows[i].id \in DOMAIN ledger /\ pageRows[i].row \in Transaction
         /\ pageRows[i].row.version \in Nat /\ pageRows[i].row.status \in TransactionStatus
<1>1. pageRows \in Seq([id : DOMAIN ledger, row : Transaction])
  BY DEF ListingTypeOK
<1>2. pageRows[i] \in [id : DOMAIN ledger, row : Transaction]
  BY <1>1, LenProperties, ElementOfSeq
<1>3. pageRows[i].id \in DOMAIN ledger /\ pageRows[i].row \in Transaction
  BY <1>2
<1> QED
  BY <1>3, StatusSeenAssumption, ListingBoundsAssumption DEF Transaction

LEMMA CreationPreserves ==
  ASSUME ListingInv, CreateFromWebhook
  PROVE  ListingInv'
<1> USE DEF ListingInv
<1>1. PICK status \in StatusSeen, createdAt \in {NewestInstant, Len(ledger) + 1} :
        ledger' = Append(ledger, [createdAt |-> createdAt, status |-> status, version |-> 1])
  BY DEF CreateFromWebhook
<1> DEFINE row == [createdAt |-> createdAt, status |-> status, version |-> 1]
<1>2. /\ Len(ledger) < MaxTransactions /\ payments' = Append(payments, 1)
      /\ Follow(ledger') /\ UNCHANGED listVars
  BY DEF CreateFromWebhook
<1>3. /\ ledger \in Seq(Transaction) /\ Len(ledger) \in Nat
      /\ DOMAIN ledger = 1 .. Len(ledger)
  BY LenProperties DEF ListingTypeOK
<1>4. createdAt \in 1 .. MaxTransactions
  <2>1. ASSUME ledger # << >>
        PROVE  ledger[Len(ledger)].createdAt \in 1 .. MaxTransactions
    <3>1. Len(ledger) \in 1 .. Len(ledger)
      BY <1>3, <2>1, EmptySeq
    <3>2. ledger[Len(ledger)] \in Transaction
      BY <1>3, <3>1, ElementOfSeq
    <3> QED
      BY <3>2 DEF Transaction
  <2>2. NewestInstant \in 1 .. MaxTransactions
    BY <1>2, <1>3, <2>1, ListingBoundsAssumption DEF NewestInstant
  <2>3. Len(ledger) + 1 \in 1 .. MaxTransactions
    BY <1>2, <1>3, ListingBoundsAssumption
  <2> QED
    BY <1>1, <2>2, <2>3
<1>5. row \in Transaction
  BY <1>1, <1>4, ListingBoundsAssumption DEF Transaction
<1> HIDE DEF row
<1>6. ledger' = Append(ledger, row)
  BY <1>1 DEF row
<1>7. /\ ledger' \in Seq(Transaction) /\ Len(ledger') = Len(ledger) + 1
      /\ DOMAIN ledger' = 1 .. Len(ledger) + 1
      /\ \A id \in DOMAIN ledger : ledger'[id] = ledger[id]
      /\ ledger'[Len(ledger) + 1] = row
  BY <1>3, <1>5, <1>6, AppendProperties
<1>8. /\ payments \in Seq(1 .. MaxPaymentVersions) /\ Len(payments) = Len(ledger)
  <2>0. payments \in [DOMAIN ledger -> 1 .. MaxPaymentVersions]
    BY DEF ListingTypeOK
  <2>1. payments \in [1 .. Len(ledger) -> 1 .. MaxPaymentVersions]
    BY <1>3, <2>0
  <2>2. payments \in Seq(1 .. MaxPaymentVersions)
    <3>1. \A i \in 1 .. Len(ledger) : payments[i] \in 1 .. MaxPaymentVersions
      BY <2>1
    <3>2. [i \in 1 .. Len(ledger) |-> payments[i]] \in Seq(1 .. MaxPaymentVersions)
      BY ONLY <1>3, <3>1, IsASeq
    <3>3. payments = [i \in 1 .. Len(ledger) |-> payments[i]]
      BY <2>1
    <3> QED
      BY ONLY <3>2, <3>3
  <2>3. /\ Len(payments) \in Nat /\ DOMAIN payments = 1 .. Len(payments)
        /\ DOMAIN payments = 1 .. Len(ledger)
    BY <2>1, <2>2, LenProperties
  <2> QED
    BY <1>3, <2>2, <2>3, SameRange
<1>9. /\ payments' \in [DOMAIN ledger' -> 1 .. MaxPaymentVersions]
      /\ \A id \in DOMAIN ledger : payments'[id] = payments[id]
      /\ payments'[Len(ledger) + 1] = 1
  <2>1. /\ payments' \in Seq(1 .. MaxPaymentVersions) /\ Len(payments') = Len(ledger) + 1
        /\ \A id \in 1 .. Len(ledger) : payments'[id] = payments[id]
        /\ payments'[Len(ledger) + 1] = 1
    BY <1>2, <1>3, <1>8, AppendProperties, ListingBoundsAssumption
  <2>2. payments' \in [1 .. Len(payments') -> 1 .. MaxPaymentVersions]
    BY <2>1, LenProperties
  <2> QED
    BY <1>3, <1>7, <2>1, <2>2
<1>10. DOMAIN ledger \subseteq DOMAIN ledger'
  BY <1>3, <1>7
<1>11. ListingTypeOK'
  <2>1. pageRows' \in Seq([id : DOMAIN ledger', row : Transaction])
    <3>1. pageRows \in Seq([id : DOMAIN ledger, row : Transaction])
      BY DEF ListingTypeOK
    <3>2. [id : DOMAIN ledger, row : Transaction] \subseteq [id : DOMAIN ledger', row : Transaction]
      BY <1>10
    <3>3. pageRows \in Seq([id : DOMAIN ledger', row : Transaction])
      BY <3>1, <3>2, SeqMonotonic
    <3>4. pageRows' = pageRows
      BY <1>2 DEF listVars
    <3> QED
      BY <3>3, <3>4
  <2>2. matching' \in SUBSET DOMAIN ledger'
    BY <1>2, <1>10 DEF Follow, Matches, ListingTypeOK
  <2>3. someLeft' \in BOOLEAN
    BY <1>2 DEF Follow, ListingTypeOK
  <2>4. Len(ledger') <= MaxTransactions
    BY <1>2, <1>3, <1>7, ListingBoundsAssumption
  <2> QED
    BY <1>2, <1>7, <1>9, <2>1, <2>2, <2>3, <2>4 DEF ListingTypeOK, listVars
<1>12. RowsBehindPayments'
  <2>1. \A id \in DOMAIN ledger' : ledger'[id].version <= payments'[id]
    <3>1. row.version = 1
      BY DEF row
    <3> QED
      BY <1>3, <1>7, <1>9, <3>1 DEF RowsBehindPayments
  <2>2. \A i \in DOMAIN pageRows : pageRows[i].id \in DOMAIN ledger
    BY PageRowsTyped
  <2> QED
    BY <1>2, <1>9, <2>1, <2>2 DEF RowsBehindPayments, listVars
<1>13. StatusAsAsked'
  BY <1>2 DEF StatusAsAsked, listVars
<1>14. ReachedOrAhead'
  BY <1>2, <1>7, <1>10, <1>11, LedgerMoves
<1> QED
  BY <1>11, <1>12, <1>13, <1>14

LEMMA PaymentSavesPreserve ==
  ASSUME ListingInv, NEW id \in DOMAIN ledger, SavePayment(id)
  PROVE  ListingInv'
<1> USE DEF ListingInv
<1>1. /\ payments[id] < MaxPaymentVersions
      /\ payments' = [payments EXCEPT ![id] = @ + 1]
      /\ UNCHANGED <<ledger, listVars, matching, someLeft>>
  BY DEF SavePayment
<1>2. /\ payments' \in [DOMAIN ledger -> 1 .. MaxPaymentVersions]
      /\ \A other \in DOMAIN ledger : payments[other] <= payments'[other]
  <2>1. \A other \in DOMAIN ledger : payments[other] \in Nat
    BY RowTyped
  <2>2. payments[id] + 1 \in 1 .. MaxPaymentVersions
    BY <1>1, <2>1, ListingBoundsAssumption
  <2>3. payments \in [DOMAIN ledger -> 1 .. MaxPaymentVersions]
    BY DEF ListingTypeOK
  <2> QED
    BY <1>1, <2>1, <2>2, <2>3
<1>3. ListingTypeOK'
  BY <1>1, <1>2 DEF ListingTypeOK, listVars
<1>4. RowsBehindPayments'
  <2>1. \A other \in DOMAIN ledger : /\ ledger[other].version \in Nat
                                     /\ payments[other] \in Nat /\ payments'[other] \in Nat
    BY <1>2, RowTyped, ListingBoundsAssumption
  <2>2. \A other \in DOMAIN ledger : ledger[other].version <= payments'[other]
    BY <1>2, <2>1 DEF RowsBehindPayments
  <2>3. \A i \in DOMAIN pageRows : /\ pageRows[i].id \in DOMAIN ledger
                                   /\ pageRows[i].row.version \in Nat
    BY PageRowsTyped
  <2>4. \A i \in DOMAIN pageRows : pageRows[i].row.version <= payments'[pageRows[i].id]
    BY <1>2, <2>1, <2>3 DEF RowsBehindPayments
  <2> QED
    BY <1>1, <2>2, <2>4 DEF RowsBehindPayments, listVars
<1>5. StatusAsAsked'
  BY <1>1 DEF StatusAsAsked, listVars
<1>6. ReachedOrAhead'
  <2>1. /\ UNCHANGED <<ledger, query, page, listStep, pageRows, listed, matching, someLeft>>
    BY <1>1 DEF listVars
  <2>2. /\ Matches(ledger)' = Matches(ledger) /\ (NoTies' <=> NoTies)
        /\ \A other : Before(other)' = Before(other)
    BY <2>1, LedgerStill
  <2>3. /\ (Started' <=> Started) /\ PagesRead' = PagesRead
        /\ \A other : Shown(other)' <=> Shown(other)
    BY <2>1 DEF Started, PagesRead, Shown
  <2> QED
    BY <2>1, <2>2, <2>3 DEF ReachedOrAhead
<1> QED
  BY <1>3, <1>4, <1>5, <1>6

LEMMA StatusUpdatesPreserve ==
  ASSUME ListingInv, NEW id \in DOMAIN ledger, UpdateStatus(id)
  PROVE  ListingInv'
<1> USE DEF ListingInv
<1>1. PICK status \in StatusSeen :
        ledger' = [ledger EXCEPT ![id] =
          [createdAt |-> @.createdAt, status |-> status, version |-> payments[id]]]
  BY DEF UpdateStatus
<1>2. Follow(ledger') /\ UNCHANGED <<payments, listVars>>
  BY DEF UpdateStatus
<1>3. /\ ledger \in Seq(Transaction) /\ Len(ledger) \in Nat
      /\ DOMAIN ledger = 1 .. Len(ledger)
  BY LenProperties DEF ListingTypeOK
<1>4. /\ ledger[id] \in Transaction /\ payments[id] \in 1 .. MaxPaymentVersions
  BY RowTyped
<1> DEFINE row == [createdAt |-> ledger[id].createdAt, status |-> status,
                   version |-> payments[id]]
<1>5. row \in Transaction
  BY <1>4 DEF Transaction
<1>6. ledger' = [ledger EXCEPT ![id] = row]
  BY <1>1
<1> HIDE DEF row
<1>7. /\ ledger' \in Seq(Transaction) /\ Len(ledger') = Len(ledger)
      /\ DOMAIN ledger' = DOMAIN ledger
      /\ \A other \in DOMAIN ledger : ledger'[other] = IF other = id THEN row ELSE ledger[other]
  BY <1>3, <1>5, <1>6
<1>8. \A other \in DOMAIN ledger : ledger'[other].createdAt = ledger[other].createdAt
  BY <1>7 DEF row
<1>9. ListingTypeOK'
  <2>1. matching' \in SUBSET DOMAIN ledger
    BY <1>2, <1>7 DEF Follow, Matches, ListingTypeOK
  <2>2. someLeft' \in BOOLEAN
    BY <1>2 DEF Follow, ListingTypeOK
  <2> QED
    BY <1>2, <1>7, <2>1, <2>2 DEF ListingTypeOK, listVars
<1>10. RowsBehindPayments'
  <2>1. \A other \in DOMAIN ledger : ledger'[other].version <= payments[other]
    BY <1>7, RowTyped DEF RowsBehindPayments, row
  <2> QED
    BY <1>2, <1>7, <2>1 DEF RowsBehindPayments, listVars
<1>11. StatusAsAsked'
  BY <1>2 DEF StatusAsAsked, listVars
<1>12. ReachedOrAhead'
  BY <1>2, <1>7, <1>8, <1>9, LedgerMoves
<1> QED
  BY <1>9, <1>10, <1>11, <1>12

\* The steps that leave the ledger, and what has to be shown of it, as they are.
Reading == UNCHANGED <<ledgerVars, query, matching, someLeft>>

LEMMA ReadingKeeps ==
  ASSUME ListingInv, Reading
  PROVE  /\ UNCHANGED <<ledger, payments, query, matching, someLeft>>
         /\ Matches(ledger)' = Matches(ledger)
         /\ (NoTies' <=> NoTies)
         /\ \A id : Before(id)' = Before(id)
<1>1. UNCHANGED <<ledger, payments, query, matching, someLeft>>
  BY DEF Reading, ledgerVars
<1> QED
  BY <1>1, LedgerStill

LEMMA RefusalPreserves ==
  ASSUME ListingInv, RefuseQuery
  PROVE  ListingInv'
<1> USE DEF ListingInv
<1>1. /\ Reading /\ listStep = "asked" /\ listStep' = "refused"
      /\ UNCHANGED <<page, pageRows, listed>>
  BY DEF RefuseQuery, Reading
<1>2. /\ UNCHANGED <<ledger, payments, query, matching, someLeft>>
      /\ Matches(ledger)' = Matches(ledger) /\ (NoTies' <=> NoTies)
      /\ \A id : Before(id)' = Before(id)
  BY <1>1, ReadingKeeps
<1>3. ListingTypeOK'
  BY <1>1, <1>2 DEF ListingTypeOK
<1>4. RowsBehindPayments' /\ StatusAsAsked'
  BY <1>1, <1>2 DEF RowsBehindPayments, StatusAsAsked
<1>5. PagesRead' = PagesRead /\ \A id : Shown(id)' <=> Shown(id)
  BY <1>1 DEF PagesRead, Shown
<1>6. ReachedOrAhead'
  <2>0. Started' /\ listStep' # "asked" /\ listStep # "over"
    BY <1>1 DEF Started
  <2>1. CASE Started
    BY <1>1, <1>2, <1>5, <2>0, <2>1 DEF ReachedOrAhead
  <2>2. CASE ~Started
    <3>1. page = 1 /\ PagesRead = 0
      BY <1>1, <2>2, QueryTyped DEF Started, PagesRead
    <3>2. PagesRead * query.limit = 0
      BY <3>1, QueryTyped
    <3>3. \A id : Cardinality(Before(id)) >= PagesRead * query.limit
      BY <3>2, MatchesFinite
    <3> QED
      BY <1>1, <1>2, <1>5, <2>0, <2>2, <3>3 DEF ReachedOrAhead
  <2> QED
    BY <2>1, <2>2
<1> QED
  BY <1>3, <1>4, <1>6

\* What a page holds: its share of the rows in the order of the query.
LEMMA PageHolds ==
  ASSUME ListingTypeOK, NEW rows \in SortedRows, NEW ids,
         ids = SubSeq(rows, Skip + 1, Lower(Skip + query.limit, Len(rows)))
  PROVE  /\ Skip \in Nat /\ Len(rows) = Cardinality(Matches(ledger))
         /\ DOMAIN ids = 1 .. Len(ids) /\ Len(ids) \in Nat
         /\ \A i \in DOMAIN ids : ids[i] \in Matches(ledger)
         /\ \A k \in DOMAIN rows :
              Skip < k /\ k <= Skip + query.limit =>
                k - Skip \in DOMAIN ids /\ ids[k - Skip] = rows[k]
<1> DEFINE M == Matches(ledger)
           n == Cardinality(M)
           last == Lower(Skip + query.limit, Len(rows))
<1>1. n \in Nat
  BY MatchesFinite
<1>2. rows \in [1 .. n -> M]
  BY DEF SortedRows
<1>3. /\ query.limit \in Nat \ {0} /\ Skip \in Nat
  BY QueryTyped, PageArithmetic DEF Skip
<1> HIDE DEF M
<1>4. rows \in Seq(M) /\ Len(rows) = n
  <2>1. \A i \in 1 .. n : rows[i] \in M
    BY <1>2
  <2>2. [i \in 1 .. n |-> rows[i]] \in Seq(M)
    BY ONLY <1>1, <2>1, IsASeq
  <2>3. rows = [i \in 1 .. n |-> rows[i]]
    BY <1>2
  <2>4. rows \in Seq(M)
    BY ONLY <2>2, <2>3
  <2>5. /\ Len(rows) \in Nat /\ DOMAIN rows = 1 .. Len(rows)
        /\ DOMAIN rows = 1 .. n
    BY <1>2, <2>4, LenProperties
  <2> QED
    BY <1>1, <2>4, <2>5, SameRange
<1>5. /\ last \in Nat /\ last <= n /\ last <= Skip + query.limit
      /\ \A k \in 1 .. n : k <= Skip + query.limit => k <= last
  BY <1>1, <1>3, <1>4 DEF Lower
<1>6. ids = SubSeq(rows, Skip + 1, last)
  OBVIOUS
<1> HIDE DEF n, last
<1>7. \A i \in Skip + 1 .. last : rows[i] \in M
  BY <1>1, <1>2, <1>3, <1>5
<1>8. /\ ids \in Seq(M)
      /\ Len(ids) = IF Skip + 1 <= last THEN last - (Skip + 1) + 1 ELSE 0
      /\ \A i \in 1 .. last - (Skip + 1) + 1 : ids[i] = rows[Skip + 1 + i - 1]
  <2>1. Skip + 1 \in Int /\ last \in Int
    BY <1>3, <1>5
  <2> QED
    BY ONLY <1>6, <1>7, <2>1, SubSeqProperties
<1>9. DOMAIN ids = 1 .. Len(ids) /\ Len(ids) \in Nat
  BY <1>8, LenProperties
<1>10. \A i \in DOMAIN ids : ids[i] \in M
  BY <1>8, <1>9, ElementOfSeq
<1>11. ASSUME NEW k \in DOMAIN rows, Skip < k, k <= Skip + query.limit
       PROVE  k - Skip \in DOMAIN ids /\ ids[k - Skip] = rows[k]
  <2>1. k \in 1 .. n
    BY <1>2, <1>11
  <2>2. k <= last
    BY <1>5, <1>11, <2>1
  <2>3. k - Skip \in 1 .. last - (Skip + 1) + 1 /\ Skip + 1 <= last
    BY <1>1, <1>3, <1>5, <1>11, <2>1, <2>2
  <2>4. Skip + 1 + (k - Skip) - 1 = k
    BY <1>1, <1>3, <2>1
  <2>5. ids[k - Skip] = rows[k]
    BY <1>8, <2>3, <2>4
  <2>6. Len(ids) = last - (Skip + 1) + 1
    BY <1>8, <2>3
  <2>7. k - Skip \in DOMAIN ids
    BY <1>9, <2>3, <2>6
  <2> QED
    BY <2>5, <2>7
<1> QED
  BY <1>3, <1>4, <1>9, <1>10, <1>11 DEF M, n

LEMMA QueriesPreserve ==
  ASSUME ListingInv, ExecuteQuery
  PROVE  ListingInv'
<1> USE DEF ListingInv
<1>1. /\ Reading /\ listStep = "asked" /\ listStep' = "rows read"
      /\ UNCHANGED <<page, listed>>
  BY DEF ExecuteQuery, Reading
<1>2. PICK rows \in SortedRows :
        LET ids == SubSeq(rows, Skip + 1, Lower(Skip + query.limit, Len(rows)))
        IN  pageRows' = [i \in DOMAIN ids |-> [id |-> ids[i], row |-> ledger[ids[i]]]]
  BY DEF ExecuteQuery
<1> DEFINE ids == SubSeq(rows, Skip + 1, Lower(Skip + query.limit, Len(rows)))
<1>3. pageRows' = [i \in DOMAIN ids |-> [id |-> ids[i], row |-> ledger[ids[i]]]]
  BY <1>2
<1>4. /\ Skip \in Nat /\ Len(rows) = Cardinality(Matches(ledger))
      /\ DOMAIN ids = 1 .. Len(ids) /\ Len(ids) \in Nat
      /\ \A i \in DOMAIN ids : ids[i] \in Matches(ledger)
      /\ \A k \in DOMAIN rows :
           Skip < k /\ k <= Skip + query.limit =>
             k - Skip \in DOMAIN ids /\ ids[k - Skip] = rows[k]
  BY PageHolds
<1> HIDE DEF ids
<1>5. /\ UNCHANGED <<ledger, payments, query, matching, someLeft>>
      /\ Matches(ledger)' = Matches(ledger) /\ (NoTies' <=> NoTies)
      /\ \A id : Before(id)' = Before(id)
  BY <1>1, ReadingKeeps
<1>6. \A i \in DOMAIN ids : /\ ids[i] \in DOMAIN ledger
                            /\ ledger[ids[i]] \in Transaction
                            /\ BuildFilters(ledger[ids[i]])
  BY <1>4, RowTyped DEF Matches
<1>7. ListingTypeOK'
  <2>1. \A i \in 1 .. Len(ids) : [id |-> ids[i], row |-> ledger[ids[i]]]
                                   \in [id : DOMAIN ledger, row : Transaction]
    BY <1>4, <1>6
  <2>2. [i \in 1 .. Len(ids) |-> [id |-> ids[i], row |-> ledger[ids[i]]]]
          \in Seq([id : DOMAIN ledger, row : Transaction])
    BY ONLY <1>4, <2>1, IsASeq
  <2>3. pageRows' \in Seq([id : DOMAIN ledger, row : Transaction])
    BY <1>3, <1>4, <2>2
  <2> QED
    BY <1>1, <1>5, <2>3 DEF ListingTypeOK
<1>8. DOMAIN pageRows' = DOMAIN ids
      /\ \A i \in DOMAIN ids : pageRows'[i].id = ids[i] /\ pageRows'[i].row = ledger[ids[i]]
  BY <1>3
<1>9. RowsBehindPayments'
  BY <1>1, <1>5, <1>6, <1>8 DEF RowsBehindPayments
<1>10. StatusAsAsked'
  BY <1>1, <1>5, <1>6, <1>8 DEF StatusAsAsked, BuildFilters
<1>11. ReachedOrAhead'
  <2>1. Started' /\ PagesRead' = page /\ PagesRead = page - 1 /\ listStep' # "over"
    BY <1>1 DEF Started, PagesRead
  <2>2. pageRows = << >>
    BY <1>1 DEF ReachedOrAhead
  <2>3. SUFFICES ASSUME ~someLeft, NoTies
                 PROVE  /\ matching \subseteq Matches(ledger)
                        /\ \A id \in matching :
                             \/ Shown(id)'
                             \/ Cardinality(Before(id)) >= page * query.limit
    BY <1>1, <1>5, <2>1 DEF ReachedOrAhead
  <2>4. matching \subseteq Matches(ledger)
    <3>0. ReachedOrAhead
      OBVIOUS
    <3>1. CASE Started
      BY <2>3, <3>0, <3>1 DEF ReachedOrAhead
    <3>2. CASE ~Started
      BY <3>0, <3>2 DEF ReachedOrAhead
    <3> QED
      BY <3>1, <3>2
  <2>5. ASSUME NEW id \in matching, ~Shown(id)'
        PROVE  Cardinality(Before(id)) >= page * query.limit
    <3>1. ~Shown(id)
      <4>1. \A i \in DOMAIN pageRows : FALSE
        BY ONLY <2>2
      <4>2. listed' = listed
        BY <1>1
      <4> QED
        BY <2>5, <4>1, <4>2 DEF Shown
    <3>2. Cardinality(Before(id)) \in Nat /\ query.limit \in Nat \ {0} /\ page \in Nat \ {0}
      BY MatchesFinite, QueryTyped
    <3>3. Skip \in Nat /\ Skip + query.limit = page * query.limit
      BY <3>2, PageArithmetic DEF Skip
    <3>4. Cardinality(Before(id)) >= Skip
      <4>1. CASE Started
        BY <2>1, <2>3, <3>1, <4>1, <2>5 DEF ReachedOrAhead, Skip
      <4>2. CASE ~Started
        <5>1. page = 1
          BY <4>2, <3>2 DEF Started
        <5>2. Skip = 0
          BY <5>1, <3>2 DEF Skip
        <5> QED
          BY <5>2, <3>2
      <4> QED
        BY <4>1, <4>2
    <3>5. PICK k \in DOMAIN rows : rows[k] = id /\ Cardinality(Before(id)) = k - 1
      BY <2>3, <2>4, PlaceInOrder
    <3>6. k \in Int
      BY MatchesFinite DEF SortedRows
    <3>7. ASSUME k <= Skip + query.limit PROVE FALSE
      <4>1. Skip < k
        BY <3>2, <3>3, <3>4, <3>5, <3>6
      <4>2. k - Skip \in DOMAIN ids /\ ids[k - Skip] = id
        BY <1>4, <3>5, <3>7, <4>1
      <4>3. k - Skip \in DOMAIN pageRows' /\ pageRows'[k - Skip].id = id
        BY <1>8, <4>2
      <4> QED
        BY <2>5, <4>3 DEF Shown
    <3> QED
      BY <3>2, <3>3, <3>5, <3>6, <3>7
  <2> QED
    BY <2>4, <2>5
<1> QED
  BY <1>7, <1>9, <1>10, <1>11

LEMMA CountsPreserve ==
  ASSUME ListingInv, CountRows
  PROVE  ListingInv'
<1> USE DEF ListingInv
<1>1. /\ Reading /\ listStep = "rows read"
      /\ listStep' = IF page < TotalPages THEN "counted" ELSE "over"
      /\ UNCHANGED <<page, pageRows, listed>>
  BY DEF CountRows, Reading
<1>2. /\ UNCHANGED <<ledger, payments, query, matching, someLeft>>
      /\ Matches(ledger)' = Matches(ledger) /\ (NoTies' <=> NoTies)
      /\ \A id : Before(id)' = Before(id)
  BY <1>1, ReadingKeeps
<1>3. ListingTypeOK'
  BY <1>1, <1>2 DEF ListingTypeOK
<1>4. RowsBehindPayments' /\ StatusAsAsked'
  BY <1>1, <1>2 DEF RowsBehindPayments, StatusAsAsked
<1>5. /\ PagesRead' = PagesRead /\ PagesRead = page /\ Started /\ Started'
      /\ \A id : Shown(id)' <=> Shown(id)
  BY <1>1 DEF PagesRead, Shown, Started
<1>6. ReachedOrAhead'
  <2>1. SUFFICES ASSUME ~someLeft, NoTies
                 PROVE  /\ matching \subseteq Matches(ledger)
                        /\ \A id \in matching :
                             \/ Shown(id)
                             \/ listStep' # "over"
                                /\ Cardinality(Before(id)) >= page * query.limit
    BY <1>1, <1>2, <1>5 DEF ReachedOrAhead
  <2>2. matching \subseteq Matches(ledger)
    BY <1>5, <2>1 DEF ReachedOrAhead
  <2>3. ASSUME NEW id \in matching, ~Shown(id)
        PROVE  listStep' # "over" /\ Cardinality(Before(id)) >= page * query.limit
    <3>1. Cardinality(Before(id)) >= page * query.limit
      BY <1>5, <2>1, <2>3 DEF ReachedOrAhead
    <3> DEFINE c == Cardinality(Matches(ledger))
    <3>2. /\ IsFiniteSet(Matches(ledger)) /\ c \in Nat
          /\ Before(id) \subseteq Matches(ledger) /\ Cardinality(Before(id)) \in Nat
      BY MatchesFinite
    <3>3. id \in Matches(ledger) /\ id \notin Before(id)
      <4>1. id \in Matches(ledger) /\ id \in DOMAIN ledger
        BY <2>2, <2>3 DEF Matches
      <4>2. ledger[id].createdAt \in Nat
        BY <4>1, RowTyped
      <4> QED
        BY <4>1, <4>2 DEF Before
    <3>4. Cardinality(Before(id)) < c
      BY <3>2, <3>3, FS_Subset
    <3>5. query.limit \in Nat \ {0} /\ page \in Nat \ {0} /\ page * query.limit \in Nat
      BY QueryTyped, PageArithmetic
    <3>6. ASSUME ~(page < TotalPages) PROVE FALSE
      <4>1. TotalPages = (c + query.limit - 1) \div query.limit
        BY DEF TotalPages
      <4> HIDE DEF c
      <4>2. (c + query.limit - 1) \div query.limit \in Int
        BY <3>2, <3>5
      <4>3. page >= (c + query.limit - 1) \div query.limit
        BY <3>5, <3>6, <4>1, <4>2
      <4>4. page * query.limit >= c
        BY <3>2, <3>5, <4>3, LastPageCovers
      <4> QED
        BY <3>1, <3>2, <3>4, <3>5, <4>4
    <3> QED
      BY <1>1, <3>1, <3>6
  <2> QED
    BY <2>2, <2>3
<1> QED
  BY <1>3, <1>4, <1>6

LEMMA HydrationPreserves ==
  ASSUME ListingInv, HydrateTransactionRelations
  PROVE  ListingInv'
<1> USE DEF ListingInv
<1> DEFINE summary(i) ==
             [id |-> pageRows[i].id, status |-> GetSemanticStatus(pageRows[i].row.status),
              version |-> pageRows[i].row.version, details |-> payments[pageRows[i].id]]
<1>1. /\ Reading /\ listStep \in {"counted", "over"} /\ pageRows' = << >>
      /\ listed' = listed \cup {summary(i) : i \in DOMAIN pageRows}
      /\ UNCHANGED <<page, listStep>>
  BY DEF HydrateTransactionRelations, Reading
<1>2. /\ UNCHANGED <<ledger, payments, query, matching, someLeft>>
      /\ Matches(ledger)' = Matches(ledger) /\ (NoTies' <=> NoTies)
      /\ \A id : Before(id)' = Before(id)
  BY <1>1, ReadingKeeps
<1>3. /\ << >> \in Seq([id : DOMAIN ledger, row : Transaction]) /\ DOMAIN << >> = {}
  OBVIOUS
<1>4. \A i \in DOMAIN pageRows :
        /\ pageRows[i].id \in DOMAIN ledger /\ pageRows[i].row \in Transaction
        /\ pageRows[i].row.status \in TransactionStatus
        /\ payments[pageRows[i].id] \in 1 .. MaxPaymentVersions
  BY PageRowsTyped, RowTyped
<1>5. DOMAIN ledger \subseteq 1 .. MaxTransactions
  <2>1. /\ ledger \in Seq(Transaction) /\ Len(ledger) <= MaxTransactions
    BY DEF ListingTypeOK
  <2>2. DOMAIN ledger = 1 .. Len(ledger) /\ Len(ledger) \in Nat
    BY <2>1, LenProperties
  <2> QED
    BY <2>1, <2>2, ListingBoundsAssumption
<1>6. \A i \in DOMAIN pageRows : summary(i) \in Summary
  <2> SUFFICES ASSUME NEW i \in DOMAIN pageRows PROVE summary(i) \in Summary
    OBVIOUS
  <2>1. /\ pageRows[i].id \in 1 .. MaxTransactions
        /\ GetSemanticStatus(pageRows[i].row.status) \in TransactionSemanticStatus
        /\ pageRows[i].row.version \in 1 .. MaxPaymentVersions
        /\ payments[pageRows[i].id] \in 1 .. MaxPaymentVersions
    BY <1>4, <1>5, SemanticStatusTyped DEF Transaction
  <2> QED
    BY <2>1 DEF Summary
<1>7. ListingTypeOK'
  <2>1. listed' \in SUBSET Summary
    BY <1>1, <1>6 DEF ListingTypeOK
  <2> QED
    BY <1>1, <1>2, <1>3, <2>1 DEF ListingTypeOK
<1>8. RowsBehindPayments'
  <2>1. \A seen \in listed' : seen.version <= seen.details
    BY <1>1 DEF RowsBehindPayments
  <2> QED
    BY <1>1, <1>2, <1>3, <2>1 DEF RowsBehindPayments
<1>9. StatusAsAsked'
  <2>1. ASSUME query.status # NotAsked, NEW i \in DOMAIN pageRows
        PROVE  GetSemanticStatus(pageRows[i].row.status) = query.status
    <3>1. query.status \in TransactionSemanticStatus
      BY <2>1, QueryTyped
    <3>2. pageRows[i].row.status \in GetDetailedStatuses(query.status)
      BY <2>1 DEF StatusAsAsked
    <3> QED
      BY <1>4, <3>1, <3>2, SwitchesInverse
  <2>2. query.status # NotAsked => \A seen \in listed' : seen.status = query.status
    BY <1>1, <2>1 DEF StatusAsAsked
  <2> QED
    BY <1>1, <1>2, <1>3, <2>2 DEF StatusAsAsked
<1>10. ReachedOrAhead'
  <2>1. /\ PagesRead' = PagesRead /\ Started /\ Started' /\ listStep' = listStep
        /\ listStep' # "asked"
    BY <1>1 DEF PagesRead, Started
  <2>2. \A id : Shown(id) => Shown(id)'
    <3> SUFFICES ASSUME NEW id, Shown(id) PROVE \E seen \in listed' : seen.id = id
      BY DEF Shown
    <3>1. CASE \E seen \in listed : seen.id = id
      BY <1>1, <3>1
    <3>2. CASE \E i \in DOMAIN pageRows : pageRows[i].id = id
      <4>1. PICK i \in DOMAIN pageRows : pageRows[i].id = id
        BY <3>2
      <4>2. summary(i) \in listed' /\ summary(i).id = id
        BY <1>1, <4>1
      <4> QED
        BY <4>2
    <3> QED
      BY <3>1, <3>2 DEF Shown
  <2> QED
    BY <1>2, <2>1, <2>2 DEF ReachedOrAhead
<1> QED
  BY <1>7, <1>8, <1>9, <1>10

LEMMA NextPagePreserves ==
  ASSUME ListingInv, NextPage
  PROVE  ListingInv'
<1> USE DEF ListingInv
<1>1. /\ Reading /\ listStep = "counted" /\ listStep' = "asked" /\ pageRows = << >>
      /\ page <= MaxTransactions /\ page' = page + 1
      /\ UNCHANGED <<pageRows, listed>>
  BY DEF NextPage, Reading
<1>2. /\ UNCHANGED <<ledger, payments, query, matching, someLeft>>
      /\ Matches(ledger)' = Matches(ledger) /\ (NoTies' <=> NoTies)
      /\ \A id : Before(id)' = Before(id)
  BY <1>1, ReadingKeeps
<1>3. page \in Nat \ {0}
  BY QueryTyped
<1>4. ListingTypeOK'
  <2>1. page' \in 1 .. MaxTransactions + 1
    BY <1>1, <1>3, ListingBoundsAssumption
  <2> QED
    BY <1>1, <1>2, <2>1 DEF ListingTypeOK
<1>5. RowsBehindPayments' /\ StatusAsAsked'
  BY <1>1, <1>2 DEF RowsBehindPayments, StatusAsAsked
<1>6. /\ PagesRead' = PagesRead /\ Started /\ Started'
      /\ \A id : Shown(id)' <=> Shown(id)
  BY <1>1, <1>3 DEF PagesRead, Shown, Started
<1>7. ReachedOrAhead'
  BY <1>1, <1>2, <1>6 DEF ReachedOrAhead
<1> QED
  BY <1>4, <1>5, <1>7

LEMMA ListingPreserved == ListingInv /\ [ListingNext]_listingVars => ListingInv'
<1> SUFFICES ASSUME ListingInv, [ListingNext]_listingVars PROVE ListingInv'
  OBVIOUS
<1>1. CASE UNCHANGED listingVars
  <2>1. Reading /\ UNCHANGED <<page, listStep, pageRows, listed>>
    BY <1>1 DEF Reading, listingVars, listVars
  <2>2. /\ UNCHANGED <<ledger, payments, query, matching, someLeft>>
        /\ Matches(ledger)' = Matches(ledger) /\ (NoTies' <=> NoTies)
        /\ \A id : Before(id)' = Before(id)
    BY <2>1, ReadingKeeps
  <2>3. ListingTypeOK' /\ RowsBehindPayments' /\ StatusAsAsked'
    BY <2>1, <2>2 DEF ListingInv, ListingTypeOK, RowsBehindPayments, StatusAsAsked
  <2>4. ReachedOrAhead'
    BY <2>1, <2>2 DEF ListingInv, ReachedOrAhead, PagesRead, Shown, Started
  <2> QED
    BY <2>3, <2>4 DEF ListingInv
<1>2. CASE CreateFromWebhook
  BY <1>2, CreationPreserves
<1>3. ASSUME NEW id \in DOMAIN ledger, SavePayment(id) \/ UpdateStatus(id)
      PROVE  ListingInv'
  BY <1>3, PaymentSavesPreserve, StatusUpdatesPreserve
<1>4. CASE RefuseQuery
  BY <1>4, RefusalPreserves
<1>5. CASE ExecuteQuery
  BY <1>5, QueriesPreserve
<1>6. CASE CountRows
  BY <1>6, CountsPreserve
<1>7. CASE HydrateTransactionRelations
  BY <1>7, HydrationPreserves
<1>8. CASE NextPage
  BY <1>8, NextPagePreserves
<1> QED
  BY <1>1, <1>2, <1>3, <1>4, <1>5, <1>6, <1>7, <1>8 DEF ListingNext

\* A client that asks for page after page while there is a next one is shown every
\* transaction that has matched all the time, and what it is shown is true
\* (transaction.service.ts findAll, common/base-query).
THEOREM PagesMissNothing == ListingSpec => []ListingsMissNothing
<1>1. ListingInv => ListingsMissNothing
  <2> SUFFICES ASSUME ListingInv PROVE ListingsMissNothing
    OBVIOUS
  <2>1. ASSUME listStep = "over", pageRows = << >>, ~someLeft, ~Ties, NEW id \in matching
        PROVE  \E seen \in listed : seen.id = id
    <3>1. Started /\ NoTies
      BY <2>1 DEF Started, NoTies
    <3>2. Shown(id)
      BY <2>1, <3>1 DEF ListingInv, ReachedOrAhead
    <3>3. DOMAIN pageRows = {}
      BY <2>1
    <3> QED
      BY <3>2, <3>3 DEF Shown
  <2>2. \A seen \in listed : /\ query.status # NotAsked => seen.status = query.status
                             /\ seen.version <= seen.details
    BY DEF ListingInv, StatusAsAsked, RowsBehindPayments
  <2> QED
    BY <2>1, <2>2 DEF ListingsMissNothing
<1> QED
  BY <1>1, ListingStarts, ListingPreserved, PTL DEF ListingSpec

-----------------------------------------------------------------------------
(* The reports on the audit log.  A set of entries is counted group by group;        *)
(* numbering the entries of each group pairs them off with the numbers that are      *)
(* added up (GroupsAddUp).  So a check warns of everything in its window, and its    *)
(* window reaches back over every burst that ended since the last run: what is       *)
(* logged later is too recent for those bursts (CheckIsNear).                        *)

\* A set of numbers has a least one.
LEMMA LeastNumber ==
  ASSUME NEW S \in SUBSET Nat, S # {}
  PROVE  \E n \in S : \A m \in S : n <= m
<1>1. IsWellFoundedOn(OpToRel(<, Nat), Nat)
  BY NatLessThanWellFounded
<1>2. PICK n \in S : \A m \in S : <<m, n>> \notin OpToRel(<, Nat)
  <2> DEFINE R == OpToRel(<, Nat)
  <2>1. IsWellFoundedOn(R, Nat)
    BY <1>1
  <2> HIDE DEF R
  <2>2. \E n \in S : \A m \in S : ~ (<<m, n>> \in R)
    BY <2>1, WFMin
  <2> QED
    BY <2>2 DEF R
<1>3. ASSUME NEW m \in S
      PROVE  n <= m
  <2>1. ~ (m < n)
    BY <1>2 DEF OpToRel
  <2> QED
    BY <2>1
<1> QED
  BY <1>2, <1>3

\* The groups of a set count as many as the set has members.
LEMMA GroupsAddUp ==
  ASSUME NEW T, IsFiniteSet(T), NEW groups, NEW members \in [groups -> SUBSET T],
         \A g \in groups : g.count = Cardinality(members[g]),
         \A g, h \in groups : g # h => members[g] \cap members[h] = {},
         \A t \in T : \E g \in groups : t \in members[g]
  PROVE  TotalOf(groups) = Cardinality(T)
<1> DEFINE numbering[g \in groups] == CHOOSE f : f \in Bijection(1 .. g.count, members[g])
           Pairs == UNION {{g} \X (1 .. g.count) : g \in groups}
           entry == [q \in Pairs |-> numbering[q[1]][q[2]]]
<1>1. \A g \in groups : numbering[g] \in Bijection(1 .. g.count, members[g])
  <2> SUFFICES ASSUME NEW g \in groups
               PROVE  numbering[g] \in Bijection(1 .. g.count, members[g])
    OBVIOUS
  <2>1. IsFiniteSet(members[g])
    BY FS_Subset
  <2>2. ExistsBijection(1 .. Cardinality(members[g]), members[g])
    BY <2>1, FS_CardinalityType
  <2>3. \E f : f \in Bijection(1 .. g.count, members[g])
    BY <2>2 DEF ExistsBijection
  <2>4. numbering[g] = CHOOSE f : f \in Bijection(1 .. g.count, members[g])
    OBVIOUS
  <2> HIDE DEF numbering
  <2> QED
    BY <2>3, <2>4
<1> HIDE DEF numbering
<1>2. ASSUME NEW g \in groups
      PROVE  /\ \A n \in 1 .. g.count : numbering[g][n] \in members[g]
             /\ \A n, m \in 1 .. g.count : numbering[g][n] = numbering[g][m] => n = m
             /\ \A t \in members[g] : \E n \in 1 .. g.count : numbering[g][n] = t
  <2> DEFINE b == numbering[g]
             numbers == 1 .. g.count
             own == members[g]
  <2>1. b \in Bijection(numbers, own)
    BY <1>1
  <2> HIDE DEF b, numbers, own
  <2>2. /\ b \in [numbers -> own]
        /\ \A n, m \in numbers : b[n] = b[m] => n = m
        /\ \A t \in own : \E n \in numbers : b[n] = t
    BY <2>1, Fun_BijectionProperties
  <2>3. \A n \in numbers : b[n] \in own
    BY <2>2
  <2> QED
    BY <2>2, <2>3 DEF b, numbers, own
<1>3. \A q \in Pairs : /\ q[1] \in groups /\ q[2] \in 1 .. q[1].count
                       /\ q = <<q[1], q[2]>>
  <2> SUFFICES ASSUME NEW q \in Pairs
               PROVE  /\ q[1] \in groups /\ q[2] \in 1 .. q[1].count
                      /\ q = <<q[1], q[2]>>
    OBVIOUS
  <2>1. PICK g \in groups : q \in {g} \X (1 .. g.count)
    OBVIOUS
  <2>2. q[1] = g /\ q[2] \in 1 .. g.count /\ q = <<q[1], q[2]>>
    BY <2>1
  <2> QED
    BY <2>2
<1>4. \A g \in groups : \A n \in 1 .. g.count : <<g, n>> \in Pairs
  OBVIOUS
<1> HIDE DEF Pairs
<1>5. entry \in [Pairs -> T]
  BY <1>2, <1>3
<1>6. ASSUME NEW q \in Pairs, NEW r \in Pairs, entry[q] = entry[r]
      PROVE  q = r
  <2>1. /\ numbering[q[1]][q[2]] \in members[q[1]]
        /\ numbering[r[1]][r[2]] \in members[r[1]]
    BY <1>2, <1>3
  <2>2. numbering[q[1]][q[2]] = numbering[r[1]][r[2]]
    BY <1>6
  <2>3. q[1] = r[1]
    BY <1>3, <2>1, <2>2
  <2>4. q[2] = r[2]
    BY <1>2, <1>3, <2>2, <2>3
  <2> QED
    BY <1>3, <2>3, <2>4
<1>7. ASSUME NEW t \in T
      PROVE  \E q \in Pairs : entry[q] = t
  <2>1. PICK g \in groups : t \in members[g]
    OBVIOUS
  <2>2. PICK n \in 1 .. g.count : numbering[g][n] = t
    BY <1>2, <2>1
  <2>3. <<g, n>> \in Pairs /\ entry[<<g, n>>] = t
    BY <1>4, <2>2
  <2> QED
    BY <2>3
<1>8. entry \in Bijection(Pairs, T)
  <2> HIDE DEF entry
  <2> QED
    BY <1>5, <1>6, <1>7, Fun_IsBij
<1>9. ExistsBijection(T, Pairs)
  <2> HIDE DEF entry
  <2>1. ExistsBijection(Pairs, T)
    BY <1>8 DEF ExistsBijection
  <2> QED
    BY <2>1, Fun_ExistsBijSymmetric
<1>10. Cardinality(Pairs) = Cardinality(T)
  BY <1>9, FS_Bijection
<1> QED
  BY <1>10 DEF TotalOf, Pairs

LEMMA TrailFinite ==
  ASSUME ReportTypeOK
  PROVE  /\ DOMAIN trail = 1 .. Len(trail) /\ IsFiniteSet(DOMAIN trail)
         /\ \A i \in DOMAIN trail : trail[i] \in AuditLog
<1>1. trail \in Seq(AuditLog)
  BY DEF ReportTypeOK
<1>2. DOMAIN trail = 1 .. Len(trail) /\ Len(trail) \in Nat
  BY <1>1
<1>3. IsFiniteSet(1 .. Len(trail))
  BY <1>2, FS_Interval
<1> QED
  BY <1>1, <1>2, <1>3

\* Whoever has been denied access often enough is detected.
LEMMA DenialsDetected ==
  ASSUME ReportTypeOK, NEW now \in Nat
  PROVE  LET denials == Denials(Since(now - Window))
         IN  /\ \A ip \in IpAddress :
                  Cardinality({i \in denials : trail[i].ipAddress = ip})
                    >= UnauthorizedAccessThreshold =>
                      [type |-> "UNAUTHORIZED_ACCESS", by |-> "ip", of |-> ip]
                        \in DetectUnauthorizedAccess(now)
             /\ \A user \in AuditedUser :
                  Cardinality({i \in denials : trail[i].userId = user})
                    >= UnauthorizedAccessThreshold =>
                      [type |-> "UNAUTHORIZED_ACCESS", by |-> "user", of |-> user]
                        \in DetectUnauthorizedAccess(now)
<1> DEFINE denials == Denials(Since(now - Window))
           groups == CountUnauthorizedAccesses(now - Window)
           Of(g) == {j \in denials : trail[j].ipAddress = g.ipAddress /\ trail[j].userId = g.userId}
<1>1. denials \in SUBSET DOMAIN trail
  BY DEF Denials, Since
<1>2. groups = {[ipAddress |-> trail[i].ipAddress, userId |-> trail[i].userId,
                 count |-> Cardinality({j \in denials : /\ trail[j].ipAddress = trail[i].ipAddress
                                                        /\ trail[j].userId = trail[i].userId})] :
                i \in denials}
  BY DEF CountUnauthorizedAccesses
<1> HIDE DEF denials, groups
<1>3. ASSUME NEW g \in groups
      PROVE  g.count = Cardinality(Of(g))
  <2>1. PICK i \in denials :
          g = [ipAddress |-> trail[i].ipAddress, userId |-> trail[i].userId,
               count |-> Cardinality({j \in denials : /\ trail[j].ipAddress = trail[i].ipAddress
                                                      /\ trail[j].userId = trail[i].userId})]
    BY <1>2
  <2>2. g.ipAddress = trail[i].ipAddress /\ g.userId = trail[i].userId
    BY <2>1
  <2>3. Of(g) = {j \in denials : /\ trail[j].ipAddress = trail[i].ipAddress
                                 /\ trail[j].userId = trail[i].userId}
    BY <2>2
  <2> QED
    BY <2>1, <2>3
<1>4. \A i \in denials : \E g \in groups : i \in Of(g)
  <2> SUFFICES ASSUME NEW i \in denials PROVE \E g \in groups : i \in Of(g)
    OBVIOUS
  <2> DEFINE g == [ipAddress |-> trail[i].ipAddress, userId |-> trail[i].userId,
                   count |-> Cardinality({j \in denials : /\ trail[j].ipAddress = trail[i].ipAddress
                                                          /\ trail[j].userId = trail[i].userId})]
  <2>1. g \in groups
    BY <1>2
  <2>2. i \in Of(g)
    OBVIOUS
  <2> QED
    BY <2>1, <2>2
<1>5. \A g, h \in groups : g # h => Of(g) \cap Of(h) = {}
  <2> SUFFICES ASSUME NEW g \in groups, NEW h \in groups, NEW both \in Of(g), both \in Of(h)
               PROVE  g = h
    OBVIOUS
  <2>1. g.ipAddress = h.ipAddress /\ g.userId = h.userId
    OBVIOUS
  <2>2. Of(g) = Of(h)
    BY <2>1
  <2>3. g.count = h.count
    BY <1>3, <2>2
  <2>4. ASSUME NEW k \in groups
        PROVE  k = [ipAddress |-> k.ipAddress, userId |-> k.userId, count |-> k.count]
    <3> DEFINE number(one) == Cardinality({j \in denials :
                              /\ trail[j].ipAddress = trail[one].ipAddress
                              /\ trail[j].userId = trail[one].userId})
    <3>1. PICK i \in denials : k = [ipAddress |-> trail[i].ipAddress,
                                    userId |-> trail[i].userId, count |-> number(i)]
      BY <1>2
    <3> HIDE DEF number
    <3> QED
      BY <3>1
  <2> QED
    BY <2>1, <2>3, <2>4
<1>6. ASSUME NEW T \in SUBSET denials, NEW some \in SUBSET groups,
             \A g \in some : Of(g) \subseteq T,
             \A g \in groups : (\E t \in T : t \in Of(g)) => g \in some
      PROVE  TotalOf(some) = Cardinality(T)
  <2> DEFINE members == [g \in some |-> Of(g)]
  <2>1. IsFiniteSet(T)
    BY <1>1, TrailFinite, FS_Subset
  <2>2. members \in [some -> SUBSET T]
    BY <1>6
  <2>3. \A g \in some : g.count = Cardinality(members[g])
    BY <1>3
  <2>4. \A g, h \in some : g # h => members[g] \cap members[h] = {}
    BY <1>5
  <2>5. \A t \in T : \E g \in some : t \in members[g]
    BY <1>4, <1>6
  <2> HIDE DEF members
  <2> QED
    BY <2>1, <2>2, <2>3, <2>4, <2>5, GroupsAddUp
<1>7. ASSUME NEW ip
      PROVE  TotalOf({g \in groups : g.ipAddress = ip})
               = Cardinality({i \in denials : trail[i].ipAddress = ip})
  BY <1>6
<1>8. ASSUME NEW user
      PROVE  TotalOf({g \in groups : g.userId = user})
               = Cardinality({i \in denials : trail[i].userId = user})
  BY <1>6
<1>9. DetectUnauthorizedAccess(now) =
        {[type |-> "UNAUTHORIZED_ACCESS", by |-> "ip", of |-> ip] :
           ip \in {a \in IpAddress : TotalOf({g \in groups : g.ipAddress = a})
                                       >= UnauthorizedAccessThreshold}}
        \cup
        {[type |-> "UNAUTHORIZED_ACCESS", by |-> "user", of |-> user] :
           user \in {u \in AuditedUser : TotalOf({g \in groups : g.userId = u})
                                           >= UnauthorizedAccessThreshold}}
  BY DEF DetectUnauthorizedAccess, groups
<1>10. ASSUME NEW ip \in IpAddress,
              Cardinality({i \in denials : trail[i].ipAddress = ip})
                >= UnauthorizedAccessThreshold
       PROVE  [type |-> "UNAUTHORIZED_ACCESS", by |-> "ip", of |-> ip]
                \in DetectUnauthorizedAccess(now)
  BY <1>7, <1>9, <1>10
<1>11. ASSUME NEW user \in AuditedUser,
              Cardinality({i \in denials : trail[i].userId = user})
                >= UnauthorizedAccessThreshold
       PROVE  [type |-> "UNAUTHORIZED_ACCESS", by |-> "user", of |-> user]
                \in DetectUnauthorizedAccess(now)
  BY <1>8, <1>9, <1>11
<1> QED
  BY <1>10, <1>11 DEF denials

\* Whoever has done enough is detected.
LEMMA ActivityDetected ==
  ASSUME ReportTypeOK, NEW now \in Nat, NEW user \in AuditedUser,
         Cardinality({i \in Since(now - Window) : trail[i].userId = user}) >= ActivityThreshold
  PROVE  [type |-> "UNUSUAL_ACTIVITY", by |-> "user", of |-> user]
           \in DetectUnusualActivity(now)
<1> DEFINE logs == {i \in Since(now - Window) : trail[i].userId # Nobody}
           Like(one) == {j \in logs : /\ trail[j].userId = trail[one].userId
                                      /\ trail[j].action = trail[one].action}
           groups == CountAllActivity(now - Window)
           some == {g \in groups : g.userId = user}
           T == {i \in Since(now - Window) : trail[i].userId = user}
           members == [g \in some |-> {j \in logs : /\ trail[j].userId = g.userId
                                                    /\ trail[j].action = g.action}]
<1>1. T \in SUBSET DOMAIN trail /\ IsFiniteSet(T)
  <2>1. T \in SUBSET DOMAIN trail
    BY DEF Since
  <2> HIDE DEF T
  <2> QED
    BY <2>1, TrailFinite, FS_Subset
<1>2. \A i \in T : i \in logs
  BY NobodyAssumption
<1>3. \A i \in logs : trail[i].userId = user => i \in T
  OBVIOUS
<1>4. groups = {[userId |-> trail[i].userId, action |-> trail[i].action,
                 count |-> Cardinality(Like(i))] : i \in logs}
  BY DEF CountAllActivity
<1> HIDE DEF logs, groups, T
<1>5. ASSUME NEW g \in some
      PROVE  \E i \in logs : /\ g = [userId |-> trail[i].userId, action |-> trail[i].action,
                                     count |-> Cardinality(Like(i))]
                             /\ trail[i].userId = user /\ members[g] = Like(i)
  <2>1. PICK i \in logs : g = [userId |-> trail[i].userId, action |-> trail[i].action,
                               count |-> Cardinality(Like(i))]
    BY <1>4
  <2>2. g.userId = trail[i].userId /\ g.action = trail[i].action /\ g.userId = user
    <3> HIDE DEF Like
    <3> QED
      BY <2>1
  <2>3. members[g] = Like(i)
    BY <2>2
  <2> QED
    BY <2>1, <2>2, <2>3
<1>6. \A g \in some : g.count = Cardinality(members[g])
  <2> SUFFICES ASSUME NEW g \in some PROVE g.count = Cardinality(members[g])
    OBVIOUS
  <2>1. PICK i \in logs : /\ g = [userId |-> trail[i].userId, action |-> trail[i].action,
                                  count |-> Cardinality(Like(i))]
                          /\ members[g] = Like(i)
    BY <1>5
  <2> HIDE DEF Like, members
  <2> QED
    BY <2>1
<1>7. members \in [some -> SUBSET T]
  <2>1. \A g \in some : members[g] \subseteq T
    BY <1>3
  <2> QED
    BY <2>1
<1>8. \A g, h \in some : g # h => members[g] \cap members[h] = {}
  <2> SUFFICES ASSUME NEW g \in some, NEW h \in some,
                      NEW k \in members[g], k \in members[h]
               PROVE  g = h
    OBVIOUS
  <2>1. PICK i \in logs : /\ g = [userId |-> trail[i].userId, action |-> trail[i].action,
                                  count |-> Cardinality(Like(i))]
                          /\ members[g] = Like(i)
    BY <1>5
  <2>2. PICK j \in logs : /\ h = [userId |-> trail[j].userId, action |-> trail[j].action,
                                  count |-> Cardinality(Like(j))]
                          /\ members[h] = Like(j)
    BY <1>5
  <2>3. k \in Like(i) /\ k \in Like(j)
    BY <2>1, <2>2, Zenon
  <2>4. trail[i].userId = trail[j].userId /\ trail[i].action = trail[j].action
    BY <2>3
  <2>5. Like(i) = Like(j)
    BY <2>4
  <2> HIDE DEF Like
  <2> QED
    BY <2>1, <2>2, <2>4, <2>5, Zenon
<1>9. \A t \in T : \E g \in some : t \in members[g]
  <2> SUFFICES ASSUME NEW t \in T PROVE \E g \in some : t \in members[g]
    OBVIOUS
  <2> DEFINE g == [userId |-> trail[t].userId, action |-> trail[t].action,
                   count |-> Cardinality(Like(t))]
  <2>1. t \in logs /\ trail[t].userId = user
    BY <1>2 DEF T
  <2>2. g \in groups
    BY <1>4, <2>1
  <2>3. g.userId = user /\ g.action = trail[t].action
    BY <2>1
  <2> HIDE DEF g
  <2>4. g \in some /\ t \in members[g]
    BY <2>1, <2>2, <2>3
  <2> QED
    BY <2>4
<1> HIDE DEF members
<1>10. TotalOf(some) = Cardinality(T)
  <2> HIDE DEF some
  <2> QED
    BY <1>1, <1>6, <1>7, <1>8, <1>9, GroupsAddUp
<1>11. DetectUnusualActivity(now) =
         {[type |-> "UNUSUAL_ACTIVITY", by |-> "user", of |-> u] :
            u \in {v \in AuditedUser :
                     TotalOf({g \in groups : g.userId = v}) >= ActivityThreshold}}
  BY DEF DetectUnusualActivity, groups
<1>12. TotalOf({g \in groups : g.userId = user}) >= ActivityThreshold
  BY <1>10 DEF T
<1> QED
  BY <1>11, <1>12

\* What the bursts say of one instant.
WarnedOf(from) ==
  LET denials == Denials(Burst(DOMAIN trail, from))
  IN  /\ \A ip \in IpAddress :
           Cardinality({i \in denials : trail[i].ipAddress = ip})
             >= UnauthorizedAccessThreshold =>
               [type |-> "UNAUTHORIZED_ACCESS", by |-> "ip", of |-> ip] \in alerts
      /\ \A user \in AuditedUser :
           /\ Cardinality({i \in denials : trail[i].userId = user})
                >= UnauthorizedAccessThreshold =>
                  [type |-> "UNAUTHORIZED_ACCESS", by |-> "user", of |-> user] \in alerts
           /\ Cardinality({i \in Burst(DOMAIN trail, from) : trail[i].userId = user})
                >= ActivityThreshold =>
                  [type |-> "UNUSUAL_ACTIVITY", by |-> "user", of |-> user] \in alerts

LEMMA WarnedOfBursts ==
  BurstsAreReported <=>
    (~skipped => \A from \in 0 .. clock : from + Window < nextCheck => WarnedOf(from))
BY DEF BurstsAreReported, WarnedOf

\* Every entry is no later than now, and the next run of the check is not an
\* interval away.
EntriesInThePast == \A i \in DOMAIN trail : trail[i].createdAt <= clock
CheckIsNear == nextCheck - CheckInterval <= clock
ReportInv == ReportTypeOK /\ EntriesInThePast /\ CheckIsNear /\ BurstsAreReported

LEMMA ReportNumbers ==
  ASSUME ReportTypeOK
  PROVE  /\ clock \in Nat /\ nextCheck \in Nat /\ MaxTime \in Nat
         /\ CheckInterval \in Nat \ {0} /\ Window \in Nat /\ Window >= CheckInterval
         /\ UnauthorizedAccessThreshold \in Nat \ {0} /\ ActivityThreshold \in Nat \ {0}
         /\ \A i \in DOMAIN trail : trail[i].createdAt \in 0 .. MaxTime
<1>1. \A i \in DOMAIN trail : trail[i].createdAt \in 0 .. MaxTime
  BY TrailFinite DEF AuditLog
<1>2. /\ CheckInterval \in Nat \ {0} /\ Window \in Nat /\ Window >= CheckInterval
      /\ MaxTime \in Nat
      /\ UnauthorizedAccessThreshold \in Nat \ {0} /\ ActivityThreshold \in Nat \ {0}
  BY AuditTimesAssumption, ThresholdsAssumption, ReportBoundsAssumption
<1>3. clock \in 0 .. MaxTime /\ nextCheck \in 0 .. MaxTime + CheckInterval
  BY DEF ReportTypeOK
<1>4. clock \in Nat /\ nextCheck \in Nat
  BY <1>2, <1>3
<1> QED
  BY <1>1, <1>2, <1>4

\* A burst is empty as long as nothing is as recent.
LEMMA NoBurstYet ==
  ASSUME ReportTypeOK, NEW from \in Nat, \A i \in DOMAIN trail : trail[i].createdAt < from
  PROVE  WarnedOf(from)
<1>1. Burst(DOMAIN trail, from) = {}
  BY ReportNumbers DEF Burst
<1>2. Denials(Burst(DOMAIN trail, from)) = {}
  BY <1>1 DEF Denials
<1>3. /\ \A ip : {i \in Denials(Burst(DOMAIN trail, from)) : trail[i].ipAddress = ip} = {}
      /\ \A user : /\ {i \in Denials(Burst(DOMAIN trail, from)) : trail[i].userId = user} = {}
                   /\ {i \in Burst(DOMAIN trail, from) : trail[i].userId = user} = {}
  BY <1>1, <1>2
<1>4. ~ (0 >= UnauthorizedAccessThreshold) /\ ~ (0 >= ActivityThreshold)
  BY ReportNumbers
<1>5. Cardinality({}) = 0
  BY FS_EmptySet
<1> QED
  BY <1>3, <1>4, <1>5 DEF WarnedOf

\* The run of the check at now warns of every burst that ends late enough to be
\* in its window.
LEMMA CheckWarns ==
  ASSUME ReportTypeOK, NEW from \in Nat, from + Window >= clock,
         alerts' = alerts \cup DetectUnauthorizedAccess(clock) \cup DetectUnusualActivity(clock),
         trail' = trail
  PROVE  WarnedOf(from)'
<1> DEFINE burst == Burst(DOMAIN trail, from)
           logs == Since(clock - Window)
<1>1. burst \subseteq logs /\ Denials(burst) \subseteq Denials(logs)
  BY ReportNumbers DEF Burst, Since, Denials
<1>2. logs \in SUBSET DOMAIN trail /\ Denials(logs) \in SUBSET DOMAIN trail
  BY DEF Since, Denials
<1>3. Burst(DOMAIN trail, from)' = burst /\ Denials(Burst(DOMAIN trail, from))' = Denials(burst)
  BY DEF Burst, Denials
<1> HIDE DEF burst, logs
<1>4. ASSUME NEW S \in SUBSET DOMAIN trail, NEW R \in SUBSET S, NEW n \in Nat,
             Cardinality(R) >= n
      PROVE  Cardinality(S) >= n
  <2>1. IsFiniteSet(S) /\ IsFiniteSet(R)
    BY TrailFinite, FS_Subset
  <2>2. Cardinality(R) <= Cardinality(S) /\ Cardinality(R) \in Nat /\ Cardinality(S) \in Nat
    BY <2>1, FS_Subset, FS_CardinalityType
  <2> QED
    BY <1>4, <2>2
<1>5. clock \in Nat /\ UnauthorizedAccessThreshold \in Nat /\ ActivityThreshold \in Nat
  BY ReportNumbers
<1>6. ASSUME NEW ip \in IpAddress,
             Cardinality({i \in Denials(burst) : trail[i].ipAddress = ip})
               >= UnauthorizedAccessThreshold
      PROVE  [type |-> "UNAUTHORIZED_ACCESS", by |-> "ip", of |-> ip] \in alerts'
  <2> DEFINE S == {i \in Denials(logs) : trail[i].ipAddress = ip}
             R == {i \in Denials(burst) : trail[i].ipAddress = ip}
  <2>1. S \in SUBSET DOMAIN trail /\ R \in SUBSET S
    BY <1>1, <1>2
  <2>2. Cardinality(S) >= UnauthorizedAccessThreshold
    <3> HIDE DEF S
    <3>1. Cardinality(R) >= UnauthorizedAccessThreshold
      BY <1>6
    <3> HIDE DEF R
    <3> QED
      BY <1>4, <1>5, <2>1, <3>1
  <2>3. [type |-> "UNAUTHORIZED_ACCESS", by |-> "ip", of |-> ip]
          \in DetectUnauthorizedAccess(clock)
    BY <1>5, <2>2, DenialsDetected DEF logs
  <2> QED
    BY <2>3
<1>7. ASSUME NEW user \in AuditedUser,
             Cardinality({i \in Denials(burst) : trail[i].userId = user})
               >= UnauthorizedAccessThreshold
      PROVE  [type |-> "UNAUTHORIZED_ACCESS", by |-> "user", of |-> user] \in alerts'
  <2> DEFINE S == {i \in Denials(logs) : trail[i].userId = user}
             R == {i \in Denials(burst) : trail[i].userId = user}
  <2>1. S \in SUBSET DOMAIN trail /\ R \in SUBSET S
    BY <1>1, <1>2
  <2>2. Cardinality(S) >= UnauthorizedAccessThreshold
    <3> HIDE DEF S
    <3>1. Cardinality(R) >= UnauthorizedAccessThreshold
      BY <1>7
    <3> HIDE DEF R
    <3> QED
      BY <1>4, <1>5, <2>1, <3>1
  <2>3. [type |-> "UNAUTHORIZED_ACCESS", by |-> "user", of |-> user]
          \in DetectUnauthorizedAccess(clock)
    BY <1>5, <2>2, DenialsDetected DEF logs
  <2> QED
    BY <2>3
<1>8. ASSUME NEW user \in AuditedUser,
             Cardinality({i \in burst : trail[i].userId = user}) >= ActivityThreshold
      PROVE  [type |-> "UNUSUAL_ACTIVITY", by |-> "user", of |-> user] \in alerts'
  <2> DEFINE S == {i \in logs : trail[i].userId = user}
             R == {i \in burst : trail[i].userId = user}
  <2>1. S \in SUBSET DOMAIN trail /\ R \in SUBSET S
    BY <1>1, <1>2
  <2>2. Cardinality(S) >= ActivityThreshold
    <3> HIDE DEF S
    <3>1. Cardinality(R) >= ActivityThreshold
      BY <1>8
    <3> HIDE DEF R
    <3> QED
      BY <1>4, <1>5, <2>1, <3>1
  <2>3. [type |-> "UNUSUAL_ACTIVITY", by |-> "user", of |-> user]
          \in DetectUnusualActivity(clock)
    BY <1>5, <2>2, ActivityDetected DEF logs
  <2> QED
    BY <2>3
<1> QED
  BY <1>3, <1>6, <1>7, <1>8 DEF WarnedOf

LEMMA ReportTypesStart == ReportInit => ReportTypeOK
<1> SUFFICES ASSUME ReportInit PROVE ReportTypeOK
  OBVIOUS
<1>1. << >> \in Seq(AuditLog) /\ Len(<< >>) = 0
  OBVIOUS
<1>2. 0 \in 0 .. MaxTime /\ CheckInterval \in 0 .. MaxTime + CheckInterval /\ 0 <= MaxLogged
  BY ReportBoundsAssumption, AuditTimesAssumption
<1> QED
  BY <1>1, <1>2 DEF ReportInit, ReportTypeOK

LEMMA ReportTypesStay == ReportTypeOK /\ [ReportNext]_reportVars => ReportTypeOK'
<1> SUFFICES ASSUME ReportTypeOK, [ReportNext]_reportVars PROVE ReportTypeOK'
  OBVIOUS
<1> USE DEF ReportTypeOK
<1>0. /\ trail \in Seq(AuditLog) /\ Len(trail) \in Nat /\ clock \in 0 .. MaxTime
      /\ nextCheck \in 0 .. MaxTime + CheckInterval
  BY LenProperties
<1>1. CASE LogOne
  <2>1. PICK ip \in IpAddress, user \in AuditedUser \cup {Nobody}, action \in Action,
             failed, denied \in BOOLEAN :
          trail' = Append(trail, [ipAddress |-> ip, userId |-> user, action |-> action,
                                  failed |-> failed, denied |-> denied,
                                  createdAt |-> clock])
    BY <1>1 DEF LogOne
  <2> DEFINE entry == [ipAddress |-> ip, userId |-> user, action |-> action,
                       failed |-> failed, denied |-> denied, createdAt |-> clock]
  <2>2. entry \in AuditLog
    BY <1>0 DEF AuditLog
  <2>3. trail' = Append(trail, entry)
    BY <2>1
  <2> HIDE DEF entry
  <2>4. trail' \in Seq(AuditLog) /\ Len(trail') = Len(trail) + 1
    BY <1>0, <2>2, <2>3, AppendProperties
  <2>5. Len(trail') <= MaxLogged /\ UNCHANGED <<clock, nextCheck, alerts, skipped>>
    BY <1>0, <1>1, <2>4, ReportBoundsAssumption DEF LogOne
  <2> QED
    BY <2>4, <2>5
<1>2. CASE CheckSuspiciousActivities \/ CheckIsSkipped
  <2>1. /\ clock = nextCheck /\ nextCheck' = nextCheck + CheckInterval
        /\ UNCHANGED <<trail, clock>>
    BY <1>2 DEF CheckSuspiciousActivities, CheckIsSkipped
  <2>2. nextCheck' \in 0 .. MaxTime + CheckInterval
    BY <1>0, <2>1, ReportBoundsAssumption, AuditTimesAssumption
  <2>3. \A now : /\ DetectUnauthorizedAccess(now) \subseteq Subject
                 /\ DetectUnusualActivity(now) \subseteq Subject
    <3> SUFFICES ASSUME NEW now
                 PROVE  /\ \A warning \in DetectUnauthorizedAccess(now) : warning \in Subject
                        /\ \A warning \in DetectUnusualActivity(now) : warning \in Subject
      OBVIOUS
    <3>1. \A ip \in IpAddress :
            [type |-> "UNAUTHORIZED_ACCESS", by |-> "ip", of |-> ip] \in Subject
      BY DEF Subject
    <3>2. \A user \in AuditedUser :
            /\ [type |-> "UNAUTHORIZED_ACCESS", by |-> "user", of |-> user] \in Subject
            /\ [type |-> "UNUSUAL_ACTIVITY", by |-> "user", of |-> user] \in Subject
      BY DEF Subject
    <3>3. \A warning \in DetectUnauthorizedAccess(now) :
            \/ \E ip \in IpAddress :
                 warning = [type |-> "UNAUTHORIZED_ACCESS", by |-> "ip", of |-> ip]
            \/ \E user \in AuditedUser :
                 warning = [type |-> "UNAUTHORIZED_ACCESS", by |-> "user", of |-> user]
      BY DEF DetectUnauthorizedAccess
    <3>4. \A warning \in DetectUnusualActivity(now) :
            \E user \in AuditedUser :
              warning = [type |-> "UNUSUAL_ACTIVITY", by |-> "user", of |-> user]
      BY DEF DetectUnusualActivity
    <3> QED
      BY <3>1, <3>2, <3>3, <3>4
  <2>4. alerts' \in SUBSET Subject /\ skipped' \in BOOLEAN
    BY <1>2, <2>3 DEF CheckSuspiciousActivities, CheckIsSkipped
  <2> QED
    BY <2>1, <2>2, <2>4
<1>3. CASE TimePasses
  <2>1. clock' \in 0 .. MaxTime /\ UNCHANGED <<trail, nextCheck, alerts, skipped>>
    BY <1>0, <1>3, ReportBoundsAssumption DEF TimePasses
  <2> QED
    BY <2>1
<1>4. CASE UNCHANGED reportVars
  BY <1>4 DEF reportVars
<1> QED
  BY <1>1, <1>2, <1>3, <1>4 DEF ReportNext

LEMMA ReportInvStarts == ReportInit => ReportInv
<1> SUFFICES ASSUME ReportInit PROVE ReportInv
  OBVIOUS
<1>1. ReportTypeOK
  BY ReportTypesStart
<1>2. DOMAIN trail = {} /\ clock = 0 /\ nextCheck = CheckInterval
  BY DEF ReportInit
<1>3. EntriesInThePast /\ CheckIsNear
  BY <1>1, <1>2, ReportNumbers DEF EntriesInThePast, CheckIsNear
<1>4. BurstsAreReported
  <2>1. \A from \in 0 .. clock : WarnedOf(from)
    BY <1>1, <1>2, NoBurstYet
  <2> QED
    BY <2>1, WarnedOfBursts
<1> QED
  BY <1>1, <1>3, <1>4 DEF ReportInv

\* A new entry is too recent for the bursts that have been dealt with.
LEMMA LogOneWarned ==
  ASSUME ReportInv, ReportTypeOK', LogOne
  PROVE  ReportInv'
<1>1. PICK entry \in AuditLog : entry.createdAt = clock /\ trail' = Append(trail, entry)
  BY ReportNumbers DEF ReportInv, ReportTypeOK, LogOne, AuditLog
<1>2. UNCHANGED <<clock, nextCheck, alerts, skipped>>
  BY DEF LogOne
<1>3. /\ DOMAIN trail' = DOMAIN trail \cup {Len(trail) + 1}
      /\ \A i \in DOMAIN trail : trail'[i] = trail[i]
      /\ trail'[Len(trail) + 1] = entry
      /\ Len(trail) + 1 \notin DOMAIN trail
  <2>1. trail \in Seq(AuditLog)
    BY DEF ReportInv, ReportTypeOK
  <2> QED
    BY <1>1, <2>1
<1>4. EntriesInThePast'
  BY <1>1, <1>2, <1>3, ReportNumbers DEF EntriesInThePast, ReportInv
<1>5. CheckIsNear'
  BY <1>2 DEF CheckIsNear, ReportInv
<1>6. ASSUME NEW from \in 0 .. clock, from + Window < nextCheck
      PROVE  WarnedOf(from) => WarnedOf(from)'
  <2> DEFINE burst == Burst(DOMAIN trail, from)
  <2>1. ~ (clock <= from + Window - CheckInterval)
    BY <1>6, ReportNumbers DEF ReportInv, CheckIsNear
  <2>2. Burst(DOMAIN trail, from)' = burst
    BY <1>1, <1>3, <2>1 DEF Burst
  <2>3. \A i \in burst : i \in DOMAIN trail /\ trail'[i] = trail[i]
    BY <1>3 DEF Burst
  <2> HIDE DEF burst
  <2>4. Denials(Burst(DOMAIN trail, from))' = Denials(burst)
    BY <2>2, <2>3 DEF Denials
  <2>5. Denials(burst) \subseteq burst
    BY DEF Denials
  <2>6. /\ \A ip : {i \in Denials(burst) : trail'[i].ipAddress = ip}
                     = {i \in Denials(burst) : trail[i].ipAddress = ip}
        /\ \A user : /\ {i \in Denials(burst) : trail'[i].userId = user}
                          = {i \in Denials(burst) : trail[i].userId = user}
                     /\ {i \in burst : trail'[i].userId = user}
                          = {i \in burst : trail[i].userId = user}
    BY <2>3, <2>5
  <2> QED
    BY <1>2, <2>2, <2>4, <2>6 DEF WarnedOf, burst
<1>7. BurstsAreReported'
  <2>1. (~skipped => \A from \in 0 .. clock : from + Window < nextCheck => WarnedOf(from))'
    BY <1>2, <1>6, WarnedOfBursts DEF ReportInv
  <2> QED
    BY <2>1, WarnedOfBursts, PTL
<1> QED
  BY <1>4, <1>5, <1>7 DEF ReportInv

LEMMA CheckWarned ==
  ASSUME ReportInv, ReportTypeOK', CheckSuspiciousActivities
  PROVE  ReportInv'
<1>1. /\ clock = nextCheck /\ nextCheck' = nextCheck + CheckInterval
      /\ alerts' = alerts \cup DetectUnauthorizedAccess(clock) \cup DetectUnusualActivity(clock)
      /\ UNCHANGED <<trail, clock, skipped>>
  BY DEF CheckSuspiciousActivities
<1>2. EntriesInThePast' /\ CheckIsNear'
  BY <1>1, ReportNumbers DEF ReportInv, EntriesInThePast, CheckIsNear
<1>3. ASSUME NEW from \in 0 .. clock, WarnedOf(from)
      PROVE  WarnedOf(from)'
  <2>1. /\ Burst(DOMAIN trail, from)' = Burst(DOMAIN trail, from)
        /\ Denials(Burst(DOMAIN trail, from))' = Denials(Burst(DOMAIN trail, from))
    BY <1>1 DEF Burst, Denials
  <2>2. alerts \subseteq alerts'
    BY <1>1
  <2> QED
    BY <1>1, <1>3, <2>1, <2>2 DEF WarnedOf
<1>4. ASSUME NEW from \in 0 .. clock, ~skipped
      PROVE  WarnedOf(from)'
  <2>1. CASE from + Window >= clock
    BY <1>1, <2>1, CheckWarns, ReportNumbers DEF ReportInv
  <2>2. CASE from + Window < clock
    <3>1. WarnedOf(from)
      BY <1>1, <1>4, <2>2, WarnedOfBursts DEF ReportInv
    <3> QED
      BY <1>3, <3>1
  <2>3. from + Window \in Int /\ clock \in Int
    BY ReportNumbers DEF ReportInv
  <2> QED
    BY <2>1, <2>2, <2>3
<1>5. BurstsAreReported'
  <2>1. (~skipped => \A from \in 0 .. clock : from + Window < nextCheck => WarnedOf(from))'
    BY <1>1, <1>4
  <2> QED
    BY <2>1, WarnedOfBursts, PTL
<1> QED
  BY <1>2, <1>5 DEF ReportInv

LEMMA SkipIsNoted ==
  ASSUME ReportInv, ReportTypeOK', CheckIsSkipped
  PROVE  ReportInv'
<1>1. /\ clock = nextCheck /\ nextCheck' = nextCheck + CheckInterval
      /\ UNCHANGED <<trail, clock>> /\ skipped'
  BY DEF CheckIsSkipped
<1>2. EntriesInThePast' /\ CheckIsNear'
  BY <1>1, ReportNumbers DEF ReportInv, EntriesInThePast, CheckIsNear
<1>3. BurstsAreReported'
  BY <1>1 DEF BurstsAreReported
<1> QED
  BY <1>2, <1>3 DEF ReportInv

LEMMA TimeWarned ==
  ASSUME ReportInv, ReportTypeOK', TimePasses
  PROVE  ReportInv'
<1>1. clock' = clock + 1 /\ UNCHANGED <<trail, nextCheck, alerts, skipped>>
  BY DEF TimePasses
<1>2. EntriesInThePast' /\ CheckIsNear'
  BY <1>1, ReportNumbers DEF ReportInv, EntriesInThePast, CheckIsNear
<1>3. ASSUME NEW from \in 0 .. clock + 1, from + Window < nextCheck, ~skipped
      PROVE  WarnedOf(from)
  <2>1. CASE from = clock + 1
    <3>1. \A i \in DOMAIN trail : trail[i].createdAt < from
      BY <2>1, ReportNumbers DEF ReportInv, EntriesInThePast
    <3> QED
      BY <3>1, NoBurstYet, ReportNumbers DEF ReportInv
  <2>2. CASE from # clock + 1
    <3>1. from \in 0 .. clock
      BY <2>2, ReportNumbers DEF ReportInv
    <3> QED
      BY <1>3, <3>1, WarnedOfBursts DEF ReportInv
  <2> QED
    BY <2>1, <2>2
<1>4. ASSUME NEW from
      PROVE  WarnedOf(from)' <=> WarnedOf(from)
  BY <1>1 DEF WarnedOf, Burst, Denials
<1>5. BurstsAreReported'
  <2>1. (~skipped => \A from \in 0 .. clock : from + Window < nextCheck => WarnedOf(from))'
    BY <1>1, <1>3, <1>4
  <2> QED
    BY <2>1, WarnedOfBursts, PTL
<1> QED
  BY <1>2, <1>5 DEF ReportInv

LEMMA ReportInvStays == ReportInv /\ [ReportNext]_reportVars => ReportInv'
<1> SUFFICES ASSUME ReportInv, [ReportNext]_reportVars PROVE ReportInv'
  OBVIOUS
<1>1. ReportTypeOK'
  BY ReportTypesStay DEF ReportInv
<1>2. CASE UNCHANGED reportVars
  <2>1. BurstsAreReported' <=> BurstsAreReported
    BY <1>2 DEF BurstsAreReported, Burst, Denials, reportVars
  <2> QED
    BY <1>1, <1>2, <2>1 DEF ReportInv, reportVars, EntriesInThePast, CheckIsNear
<1> QED
  BY <1>1, <1>2, LogOneWarned, CheckWarned, SkipIsNoted, TimeWarned DEF ReportNext

\* A burst that fits into the window less one interval is warned of, for any
\* interval, window and thresholds, over whatever addresses, users, messages and
\* actions it is spread: the check of audit-alert.service.ts adds its groups up.
THEOREM BurstsAlwaysReported == ReportSpec => []BurstsAreReported
<1>1. ReportInv => BurstsAreReported
  BY DEF ReportInv
<1> QED
  BY <1>1, ReportInvStarts, ReportInvStays, PTL DEF ReportSpec

-----------------------------------------------------------------------------
(* The dashboard: what its figures have in common. *)

\* A finite set of counts can be put in order: the one with the least comes last.
LEMMA CanBeSorted ==
  ASSUME NEW counts, IsFiniteSet(counts), \A c \in counts : c.count \in Nat
  PROVE  \E ranking \in [1 .. Cardinality(counts) -> counts] :
           /\ \A user \in counts : \E i \in DOMAIN ranking : ranking[i] = user
           /\ \A i, j \in DOMAIN ranking : i < j => ranking[i].count >= ranking[j].count
<1> DEFINE Ordered(S, n, ranking) ==
             /\ ranking \in [1 .. n -> S]
             /\ \A user \in S : \E i \in 1 .. n : ranking[i] = user
             /\ \A i, j \in 1 .. n : i < j => ranking[i].count >= ranking[j].count
           unordered == {n \in Nat : \E S \in SUBSET counts :
                                       Cardinality(S) = n /\ \A ranking : ~Ordered(S, n, ranking)}
<1>1. \A S \in SUBSET counts : IsFiniteSet(S) /\ Cardinality(S) \in Nat
  BY FS_Subset, FS_CardinalityType
<1>2. unordered = {}
  <2> SUFFICES ASSUME unordered # {} PROVE FALSE
    OBVIOUS
  <2>1. PICK n \in unordered : \A m \in unordered : n <= m
    <3>1. unordered \in SUBSET Nat
      OBVIOUS
    <3> HIDE DEF unordered
    <3> QED
      BY <3>1, LeastNumber
  <2>2. PICK S \in SUBSET counts : Cardinality(S) = n /\ \A ranking : ~Ordered(S, n, ranking)
    OBVIOUS
  <2>3. n \in Nat
    OBVIOUS
  <2> HIDE DEF Ordered
  <2>4. S # {}
    <3> SUFFICES ASSUME S = {} PROVE FALSE
      OBVIOUS
    <3>1. n = 0
      BY <2>2, FS_EmptySet
    <3>2. Ordered(S, n, << >>)
      BY <3>1 DEF Ordered
    <3> QED
      BY <2>2, <3>2
  <2>5. PICK last \in S : \A c \in S : last.count <= c.count
    <3> DEFINE numbers == {c.count : c \in S}
    <3>1. numbers \in SUBSET Nat /\ numbers # {}
      BY <2>4
    <3>2. PICK least \in numbers : \A m \in numbers : least <= m
      <4> HIDE DEF numbers
      <4> QED
        BY <3>1, LeastNumber
    <3> QED
      BY <3>2
  <2> DEFINE rest == S \ {last}
  <2>6. rest \in SUBSET counts /\ Cardinality(rest) = n - 1 /\ n - 1 \in Nat
    <3>1. Cardinality(rest) = n - 1
      BY <1>1, <2>2, FS_RemoveElement
    <3>2. rest \in SUBSET counts
      OBVIOUS
    <3> QED
      BY <1>1, <3>1, <3>2
  <2>7. n - 1 \notin unordered
    BY <2>1, <2>3
  <2>8. PICK ranking : Ordered(rest, n - 1, ranking)
    BY <2>6, <2>7
  <2> DEFINE all == [i \in 1 .. n |-> IF i = n THEN last ELSE ranking[i]]
  <2>9. /\ ranking \in [1 .. n - 1 -> rest]
        /\ \A user \in rest : \E i \in 1 .. n - 1 : ranking[i] = user
        /\ \A i, j \in 1 .. n - 1 : i < j => ranking[i].count >= ranking[j].count
    BY <2>8 DEF Ordered
  <2>10. 1 .. n = (1 .. n - 1) \cup {n} /\ n \notin 1 .. n - 1
    BY <2>3, <2>6
  <2>11. all \in [1 .. n -> S]
    BY <2>9, <2>10
  <2>12. all[n] = last /\ \A i \in 1 .. n - 1 : all[i] = ranking[i] /\ ranking[i] \in S
    BY <2>9, <2>10
  <2>13. \A user \in S : \E i \in 1 .. n : all[i] = user
    <3> HIDE DEF all
    <3> QED
      BY <2>9, <2>10, <2>12
  <2>14. ASSUME NEW i \in 1 .. n, NEW j \in 1 .. n, i < j
         PROVE  all[i].count >= all[j].count
    <3>1. i \in 1 .. n - 1
      BY <2>3, <2>14
    <3>2. CASE j = n
      <4>1. all[i] \in S
        BY <2>12, <3>1
      <4>2. all[i].count \in Nat /\ last.count \in Nat
        BY <4>1
      <4>3. last.count <= all[i].count /\ all[j] = last
        BY <2>5, <2>12, <3>2, <4>1
      <4> HIDE DEF all
      <4> QED
        BY <4>2, <4>3
    <3>3. CASE j # n
      <4> HIDE DEF all
      <4> QED
        BY <2>9, <2>10, <2>12, <2>14, <3>1, <3>3
    <3> QED
      BY <3>2, <3>3
  <2> HIDE DEF all
  <2>15. Ordered(S, n, all)
    BY <2>11, <2>13, <2>14 DEF Ordered
  <2> QED
    BY <2>2, <2>15
<1>3. Cardinality(counts) \in Nat
  BY <1>1
<1>4. PICK ranking : Ordered(counts, Cardinality(counts), ranking)
  <2> HIDE DEF Ordered
  <2> QED
    BY <1>2, <1>3
<1> QED
  BY <1>4

\* The users of some entries, with how many of them are theirs.
LEMMA UserCountsFinite ==
  ASSUME NEW logs, IsFiniteSet(logs)
  PROVE  IsFiniteSet(UserCounts(logs)) /\ \A c \in UserCounts(logs) : c.count \in Nat
<1> DEFINE Own(user) == {i \in logs : trail[i].userId = user}
           named == {i \in logs : trail[i].userId # Nobody}
           row == [i \in named |-> [userId |-> trail[i].userId,
                                    count |-> Cardinality(Own(trail[i].userId))]]
<1>1. UserCounts(logs) = {[userId |-> user, count |-> Cardinality(Own(user))] :
                          user \in {trail[i].userId : i \in logs} \ {Nobody}}
  BY DEF UserCounts
<1>2. ASSUME NEW user
      PROVE  Cardinality(Own(user)) \in Nat
  <2>1. Own(user) \in SUBSET logs
    OBVIOUS
  <2> HIDE DEF Own
  <2> QED
    BY <2>1, FS_Subset, FS_CardinalityType
<1> HIDE DEF Own
<1>3. \A c \in UserCounts(logs) : c.count \in Nat
  BY <1>1, <1>2
<1>4. row \in [named -> UserCounts(logs)]
  BY <1>1
<1>5. \A c \in UserCounts(logs) : \E i \in named : row[i] = c
  BY <1>1
<1>6. IsFiniteSet(named)
  <2>1. named \in SUBSET logs
    OBVIOUS
  <2> HIDE DEF named
  <2> QED
    BY <2>1, FS_Subset
<1> HIDE DEF named, row
<1>7. row \in Surjection(named, UserCounts(logs))
  BY <1>4, <1>5, Fun_IsSurj
<1> QED
  BY <1>3, <1>6, <1>7, FS_Surjection

\* The top users are the first of all users, in order.
LEMMA TopUsersAreFirst ==
  ASSUME NEW logs, IsFiniteSet(logs)
  PROVE  LET top == GetTopUsers(logs)
         IN  /\ Len(top) = Min({TopLimit, Cardinality(UserCounts(logs))})
             /\ \A i \in DOMAIN top : \A other \in UserCounts(logs) :
                  other.userId \notin {top[j].userId : j \in DOMAIN top} =>
                    other.count <= top[i].count
<1> DEFINE counts == UserCounts(logs)
           size == Cardinality(counts)
           ranking == Sorted(counts)
           length == Min({TopLimit, size})
           top == GetTopUsers(logs)
<1>1. /\ IsFiniteSet(counts) /\ size \in Nat
      /\ \A c \in counts : c.count \in Nat
  BY UserCountsFinite, FS_CardinalityType
<1>2. /\ ranking \in [1 .. size -> counts]
      /\ \A user \in counts : \E i \in DOMAIN ranking : ranking[i] = user
      /\ \A i, j \in DOMAIN ranking : i < j => ranking[i].count >= ranking[j].count
  <2> HIDE DEF counts
  <2>1. \E sorting \in [1 .. size -> counts] :
          /\ \A user \in counts : \E i \in DOMAIN sorting : sorting[i] = user
          /\ \A i, j \in DOMAIN sorting : i < j => sorting[i].count >= sorting[j].count
    BY <1>1, CanBeSorted
  <2> QED
    BY <2>1 DEF Sorted
<1>3. TopLimit \in Nat
  BY TopLimitAssumption
<1>4. length \in Nat /\ length <= size
  <2> HIDE DEF size
  <2> QED
    BY <1>1, <1>3 DEF Min
<1> HIDE DEF counts, size, ranking, length
<1>5. ranking \in Seq(counts) /\ Len(ranking) = size
  BY <1>1, <1>2
<1>6. top = SubSeq(ranking, 1, length)
  BY <1>5 DEF GetTopUsers, TakeFirst, length, ranking, counts
<1> HIDE DEF top
<1>7. Len(top) = length /\ DOMAIN top = 1 .. length
      /\ \A i \in 1 .. length : top[i] = ranking[i]
  BY <1>1, <1>4, <1>5, <1>6
<1>8. ASSUME NEW i \in DOMAIN top, NEW other \in counts,
             other.userId \notin {top[j].userId : j \in DOMAIN top}
      PROVE  other.count <= top[i].count
  <2>1. PICK k \in 1 .. size : ranking[k] = other
    BY <1>2
  <2>2. k \notin 1 .. length
    BY <1>7, <1>8, <2>1
  <2>3. i \in 1 .. length /\ i \in 1 .. size /\ i < k
    BY <1>1, <1>4, <1>7, <2>2
  <2>4. ranking[i].count >= other.count
    BY <1>2, <2>1, <2>3
  <2>5. ranking[i].count \in Nat /\ other.count \in Nat
    BY <1>1, <1>2, <2>3
  <2> QED
    BY <1>7, <2>3, <2>4, <2>5
<1> QED
  BY <1>7, <1>8 DEF top, length, size, counts

\* The counts by action add up to all entries.
LEMMA TypesAddUp ==
  ASSUME NEW logs, IsFiniteSet(logs)
  PROVE  LET byType == GroupActionsByType(logs)
         IN  Cardinality(logs) =
               TotalOf({[action |-> action, count |-> byType[action]] : action \in DOMAIN byType})
<1> DEFINE Of(action) == {i \in logs : trail[i].action = action}
           actions == {trail[i].action : i \in logs}
           types == {[action |-> a, count |-> Cardinality(Of(a))] : a \in actions}
           members == [g \in types |-> Of(g.action)]
<1>1. LET byType == GroupActionsByType(logs)
      IN  {[action |-> action, count |-> byType[action]] : action \in DOMAIN byType} = types
  BY DEF GroupActionsByType
<1>2. members \in [types -> SUBSET logs]
  OBVIOUS
<1>3. \A g \in types : g.count = Cardinality(members[g])
  <2> HIDE DEF Of
  <2> QED
    OBVIOUS
<1>4. \A g, h \in types : g # h => members[g] \cap members[h] = {}
  <2> SUFFICES ASSUME NEW g \in types, NEW h \in types, NEW i \in members[g], i \in members[h]
               PROVE  g = h
    OBVIOUS
  <2>1. g.action = h.action
    OBVIOUS
  <2> HIDE DEF Of
  <2>2. ASSUME NEW k \in types
        PROVE  k = [action |-> k.action, count |-> Cardinality(Of(k.action))]
    OBVIOUS
  <2> QED
    BY <2>1, <2>2
<1>5. \A i \in logs : \E g \in types : i \in members[g]
  <2> SUFFICES ASSUME NEW i \in logs PROVE \E g \in types : i \in members[g]
    OBVIOUS
  <2> DEFINE g == [action |-> trail[i].action, count |-> Cardinality(Of(trail[i].action))]
  <2>1. g \in types /\ i \in members[g]
    OBVIOUS
  <2> QED
    BY <2>1
<1> HIDE DEF types, members
<1>6. TotalOf(types) = Cardinality(logs)
  BY <1>2, <1>3, <1>4, <1>5, GroupsAddUp
<1> QED
  BY <1>1, <1>6

LEMMA DashboardAddsUpAlways == ReportTypeOK => DashboardAddsUp
<1> SUFFICES ASSUME ReportTypeOK, NEW startDate \in 0 .. clock
             PROVE  LET logs == Period(startDate, clock)
                        byType == GroupActionsByType(logs)
                        types == {[action |-> action, count |-> byType[action]] :
                                  action \in DOMAIN byType}
                        top == GetTopUsers(logs)
                        listedUsers == {top[i].userId : i \in DOMAIN top}
                    IN  /\ Cardinality(logs) = Cardinality(SuccessLogs(logs))
                                                 + Cardinality(FailureLogs(logs))
                        /\ Cardinality(logs) = TotalOf(types)
                        /\ \A i \in DOMAIN top : \A other \in UserCounts(logs) :
                             other.userId \notin listedUsers => other.count <= top[i].count
                        /\ Len(top) = Min({TopLimit, Cardinality(UserCounts(logs))})
  BY DEF DashboardAddsUp
<1> DEFINE logs == Period(startDate, clock)
<1>1. IsFiniteSet(logs)
  <2>1. logs \in SUBSET DOMAIN trail
    BY DEF Period
  <2> QED
    BY <2>1, TrailFinite, FS_Subset
<1> HIDE DEF logs
<1>2. Cardinality(logs) = Cardinality(SuccessLogs(logs)) + Cardinality(FailureLogs(logs))
  <2> DEFINE S == SuccessLogs(logs)
             F == FailureLogs(logs)
  <2>1. S \in SUBSET logs /\ F \in SUBSET logs /\ S \cup F = logs /\ S \cap F = {}
    BY DEF SuccessLogs, FailureLogs
  <2> HIDE DEF S, F
  <2>2. IsFiniteSet(S) /\ IsFiniteSet(F)
    BY <1>1, <2>1, FS_Subset
  <2>3. Cardinality(S) \in Nat /\ Cardinality(F) \in Nat
    BY <2>2, FS_CardinalityType
  <2>4. Cardinality(S \cup F) = Cardinality(S) + Cardinality(F) - Cardinality(S \cap F)
    BY <2>2, FS_Union
  <2>5. Cardinality(S \cap F) = 0
    BY <2>1, FS_EmptySet
  <2>6. Cardinality(S \cup F) = Cardinality(logs)
    BY <2>1, Zenon
  <2>7. Cardinality(logs) = Cardinality(S) + Cardinality(F)
    BY <2>3, <2>4, <2>5, <2>6
  <2> QED
    BY <2>7 DEF S, F
<1> QED
  BY <1>1, <1>2, TypesAddUp, TopUsersAreFirst DEF logs

\* The dashboard's figures agree with each other, whatever has been logged and
\* however long its lists are.
THEOREM DashboardAlwaysAddsUp == ReportSpec => []DashboardAddsUp
<1>1. ReportSpec => []ReportTypeOK
  BY ReportTypesStart, ReportTypesStay, PTL DEF ReportSpec
<1> QED
  BY <1>1, DashboardAddsUpAlways, PTL

-----------------------------------------------------------------------------
(* The types of all components. *)

\* UserInv says what of the rows' and records' form its argument needs; the rest of
\* UserTypeOK needs that a login compares with a row, and that a creation found room.
UserTyped ==
  /\ UserTypeOK
  /\ \A a \in LoginAttempt : attempts[a].step = "compare" => attempts[a].user \in Ids
  /\ creating.step = "hash" => Len(users) < MaxUsers

LEMMA UserTypesStart == UserInit => UserTyped
<1> SUFFICES ASSUME UserInit PROVE UserTyped
  OBVIOUS
<1> USE DEF UserInit
<1>1. << >> \in Seq(User) /\ Len(<< >>) = 0
  OBVIOUS
<1>2. /\ NoCreation \in [step : {"idle", "hash"}, email : Email, clientId : UserClient,
                         password : Password]
      /\ NoReset \in [step : {"idle", "hash"}, user : UserId \cup {NoUser},
                      password : Password]
      /\ NoRemoval \in [step : {"idle", "inactive"}, user : UserId \cup {NoUser}]
  BY UserValuesAssumption DEF NoCreation, NoReset, NoRemoval
<1>3. /\ IdleAttempt \in [step : {"idle", "compare", "granted", "refused"},
                          user : UserId \cup {NoUser}, valid : BOOLEAN, after : SUBSET UserId]
      /\ IdleGuarded \in [step : {"idle", "guard", "accepted", "refused"},
                          user : UserId \cup {NoUser}, after : SUBSET UserId]
  BY DEF IdleAttempt, IdleGuarded
<1>4. UserTypeOK
  BY <1>1, <1>2, <1>3, UserBoundsAssumption DEF UserTypeOK
<1> QED
  BY <1>4 DEF UserTyped, IdleAttempt, NoCreation

LEMMA UserIdsTyped ==
  ASSUME UserTypeOK
  PROVE  /\ Ids = 1 .. Len(users) /\ Len(users) \in Nat /\ Ids \subseteq UserId
<1>1. users \in Seq(User) /\ Len(users) <= MaxUsers
  BY DEF UserTypeOK
<1>2. Ids = 1 .. Len(users) /\ Len(users) \in Nat
  BY <1>1, LenProperties DEF Ids
<1> QED
  BY <1>1, <1>2, UserBoundsAssumption DEF UserId

\* A step that writes rows, leaves the records of logins and requests, and ends or
\* starts an operation.
LEMMA WriteKeepsTypes ==
  ASSUME UserInv, UserTyped, UserInv',
         Len(users') \in {Len(users), Len(users) + 1}, Len(users') <= MaxUsers,
         UNCHANGED <<attempts, guarded, tokens>>,
         userFaults' \in 0 .. MaxUserFaults,
         creating' \in [step : {"idle", "hash"}, email : Email, clientId : UserClient,
                        password : Password],
         creating'.step = "hash" => Len(users') < MaxUsers,
         removing' \in [step : {"idle", "inactive"}, user : UserId \cup {NoUser}],
         resetting' \in [step : {"idle", "hash"}, user : UserId \cup {NoUser},
                         password : Password]
  PROVE  UserTyped'
<1>1. /\ Ids = 1 .. Len(users) /\ Len(users) \in Nat
  BY UserIdsTyped DEF UserTyped
<1>2. users' \in Seq(User)
  BY DEF UserInv, UserRowsOK
<1>3. Ids' = 1 .. Len(users')
  BY <1>2, LenProperties DEF Ids
<1>4. Ids \subseteq Ids'
  BY <1>1, <1>3
<1>5. gone' \in SUBSET Ids' /\ tokens' \in SUBSET Ids'
  BY <1>4 DEF UserInv, GoneAreMarked, Marked, UserTyped, UserTypeOK
<1>6. UserTypeOK'
  BY <1>2, <1>5 DEF UserTyped, UserTypeOK
<1>7. \A a \in LoginAttempt : attempts'[a].step = "compare" => attempts'[a].user \in Ids'
  BY <1>4 DEF UserTyped
<1> QED
  BY <1>6, <1>7 DEF UserTyped

LEMMA UserTypesStay ==
  ASSUME UserInv, UserTyped, UserInv', [UserNext]_userVars
  PROVE  UserTyped'
<1>0. /\ Ids = 1 .. Len(users) /\ Len(users) \in Nat /\ Ids \subseteq UserId
      /\ Len(users) <= MaxUsers /\ userFaults \in 0 .. MaxUserFaults
      /\ users \in Seq(User)
  BY UserIdsTyped DEF UserTyped, UserTypeOK
<1>a. /\ creating \in [step : {"idle", "hash"}, email : Email, clientId : UserClient,
                       password : Password]
      /\ removing \in [step : {"idle", "inactive"}, user : UserId \cup {NoUser}]
      /\ resetting \in [step : {"idle", "hash"}, user : UserId \cup {NoUser},
                        password : Password]
      /\ creating.step = "hash" => Len(users) < MaxUsers
  BY DEF UserTyped, UserTypeOK
<1>b. /\ NoCreation \in [step : {"idle", "hash"}, email : Email, clientId : UserClient,
                         password : Password]
      /\ NoReset \in [step : {"idle", "hash"}, user : UserId \cup {NoUser},
                      password : Password]
      /\ NoRemoval \in [step : {"idle", "inactive"}, user : UserId \cup {NoUser}]
      /\ NoCreation.step = "idle"
  BY UserValuesAssumption DEF NoCreation, NoReset, NoRemoval
<1>1. CASE CheckNewUser
  BY <1>0, <1>a, <1>1, WriteKeepsTypes DEF CheckNewUser
<1>2. CASE InsertUser
  <2> DEFINE row == [email |-> creating.email, clientId |-> creating.clientId,
                     password |-> creating.password, status |-> "ACTIVE",
                     deleted |-> FALSE]
  <2>1. /\ creating.step = "hash" /\ creating' = NoCreation
        /\ UNCHANGED <<attempts, tokens, guarded, removing, resetting, gone, userFaults>>
        /\ users' = users \/ users' = Append(users, row)
    BY <1>2 DEF InsertUser
  <2>2. Len(users') \in {Len(users), Len(users) + 1}
    BY <1>0, <2>1
  <2>3. Len(users') <= MaxUsers
    BY <1>0, <1>a, <2>1, <2>2, UserBoundsAssumption
  <2> QED
    BY <1>0, <1>a, <1>b, <2>1, <2>2, <2>3, WriteKeepsTypes
<1>3. ASSUME NEW id \in Ids, NEW actor, Deactivate(actor, id) PROVE UserTyped'
  <2>1. /\ users' = [users EXCEPT ![id].status = "INACTIVE"]
        /\ removing' = [step |-> "inactive", user |-> id]
        /\ UNCHANGED <<attempts, tokens, guarded, creating, resetting, gone, userFaults>>
    BY <1>3 DEF Deactivate
  <2>2. Len(users') = Len(users)
    BY <1>0, <2>1
  <2>3. removing' \in [step : {"idle", "inactive"}, user : UserId \cup {NoUser}]
    BY <1>0, <2>1
  <2> QED
    BY <1>0, <1>a, <2>1, <2>2, <2>3, WriteKeepsTypes
<1>4. CASE SoftDelete
  <2>1. /\ users' = [users EXCEPT ![removing.user].deleted = TRUE]
        /\ removing' = NoRemoval
        /\ UNCHANGED <<attempts, tokens, guarded, creating, resetting, userFaults>>
    BY <1>4 DEF SoftDelete
  <2>2. Len(users') = Len(users)
    BY <1>0, <2>1
  <2> QED
    BY <1>0, <1>a, <1>b, <2>1, <2>2, WriteKeepsTypes
<1>5. CASE RemovalFails
  <2>1. /\ removing' = NoRemoval /\ userFaults' = userFaults + 1
        /\ userFaults < MaxUserFaults
        /\ UNCHANGED <<users, attempts, tokens, guarded, creating, resetting, gone>>
    BY <1>5 DEF RemovalFails
  <2>2. userFaults' \in 0 .. MaxUserFaults
    BY <1>0, <2>1, UserBoundsAssumption
  <2> QED
    BY <1>0, <1>a, <1>b, <2>1, <2>2, WriteKeepsTypes
<1>6. CASE CheckSecretAnswer
  <2>1. PICK id \in Ids, password \in Password :
          resetting' = [step |-> "hash", user |-> id, password |-> password]
    BY <1>6 DEF CheckSecretAnswer
  <2>2. resetting' \in [step : {"idle", "hash"}, user : UserId \cup {NoUser},
                        password : Password]
    BY <1>0, <2>1
  <2> QED
    BY <1>0, <1>a, <1>6, <2>2, WriteKeepsTypes DEF CheckSecretAnswer
<1>7. CASE UpdatePassword
  <2>1. /\ users' = [users EXCEPT ![resetting.user].password = resetting.password]
        /\ resetting' = NoReset
        /\ UNCHANGED <<attempts, tokens, guarded, creating, removing, gone, userFaults>>
    BY <1>7 DEF UpdatePassword
  <2>2. Len(users') = Len(users)
    BY <1>0, <2>1
  <2> QED
    BY <1>0, <1>a, <1>b, <2>1, <2>2, WriteKeepsTypes
<1> DEFINE attemptType == [step : {"idle", "compare", "granted", "refused"},
                           user : UserId \cup {NoUser}, valid : BOOLEAN,
                           after : SUBSET UserId]
           guardedType == [step : {"idle", "guard", "accepted", "refused"},
                           user : UserId \cup {NoUser}, after : SUBSET UserId]
<1>c. attempts \in [LoginAttempt -> attemptType] /\ guarded \in [GuardedCall -> guardedType]
      /\ tokens \in SUBSET Ids /\ gone \in SUBSET Ids
  BY DEF UserTyped, UserTypeOK
<1>8. ASSUME NEW a \in LoginAttempt, StartAttempt(a) PROVE UserTyped'
  <2>1. UNCHANGED <<users, tokens, guarded, creating, removing, resetting, gone, userFaults>>
    BY <1>8 DEF StartAttempt
  <2>2. ASSUME NEW record \in attemptType, attempts' = [attempts EXCEPT ![a] = record],
               record.step = "compare" => record.user \in Ids
        PROVE  UserTyped'
    <3>1. attempts' \in [LoginAttempt -> attemptType]
      BY <1>c, <2>2
    <3>2. UserTypeOK'
      BY <2>1, <3>1 DEF UserTyped, UserTypeOK, Ids
    <3>3. \A b \in LoginAttempt : attempts'[b] = IF b = a THEN record ELSE attempts[b]
      BY <1>c, <2>2
    <3>4. \A b \in LoginAttempt : attempts'[b].step = "compare" => attempts'[b].user \in Ids'
      BY <2>1, <2>2, <3>3 DEF UserTyped, Ids
    <3> QED
      BY <2>1, <3>2, <3>4 DEF UserTyped
  <2>3. CASE attempts' = [attempts EXCEPT ![a].step = "refused"]
    <3> DEFINE record == [attempts[a] EXCEPT !.step = "refused"]
    <3>1. attempts[a] \in attemptType
      BY <1>c
    <3>2. record \in attemptType /\ record.step = "refused"
      BY <3>1
    <3>3. attempts' = [attempts EXCEPT ![a] = record]
      BY <2>3
    <3> HIDE DEF record
    <3> QED
      BY <2>2, <3>2, <3>3
  <2>4. ASSUME NEW email \in Email, NEW clientId \in UserClient, NEW password \in Password,
               NEW id \in FindByEmailAndClientId(email, clientId),
               attempts' = [attempts EXCEPT
                 ![a] = [step |-> "compare", user |-> id, after |-> gone,
                         valid |-> users[id].password = password]]
        PROVE  UserTyped'
    <3> DEFINE record == [step |-> "compare", user |-> id, after |-> gone,
                          valid |-> users[id].password = password]
    <3>1. id \in Ids
      BY DEF FindByEmailAndClientId
    <3>2. record \in attemptType
      BY <1>0, <1>c, <3>1
    <3>3. attempts' = [attempts EXCEPT ![a] = record] /\ record.user = id
      BY <2>4
    <3> HIDE DEF record
    <3> QED
      BY <2>2, <3>1, <3>2, <3>3
  <2> QED
    BY <1>8, <2>3, <2>4 DEF StartAttempt
<1>9. ASSUME NEW a \in LoginAttempt, CompareAndSign(a) PROVE UserTyped'
  <2> DEFINE verdict == IF attempts[a].valid THEN "granted" ELSE "refused"
             record == [attempts[a] EXCEPT !.step = verdict]
  <2>1. /\ UNCHANGED <<users, guarded, creating, removing, resetting, gone, userFaults>>
        /\ attempts' = [attempts EXCEPT ![a] = record] /\ attempts[a].step = "compare"
        /\ tokens' = IF attempts[a].valid THEN tokens \cup {attempts[a].user} ELSE tokens
    BY <1>9 DEF CompareAndSign
  <2>2. attempts[a] \in attemptType
    BY <1>c
  <2>3. record \in attemptType /\ record.step # "compare"
    BY <2>2
  <2> HIDE DEF record
  <2>4. attempts' \in [LoginAttempt -> attemptType]
        /\ \A b \in LoginAttempt : attempts'[b] = IF b = a THEN record ELSE attempts[b]
    BY <1>c, <2>1, <2>3
  <2>5. tokens' \in SUBSET Ids
    BY <1>c, <2>1 DEF UserTyped
  <2>6. UserTypeOK'
    BY <2>1, <2>4, <2>5 DEF UserTyped, UserTypeOK, Ids
  <2>7. \A b \in LoginAttempt : attempts'[b].step = "compare" => attempts'[b].user \in Ids'
    BY <2>1, <2>3, <2>4 DEF UserTyped, Ids
  <2> QED
    BY <2>1, <2>6, <2>7 DEF UserTyped
<1>10. ASSUME NEW g \in GuardedCall, RequestArrives(g) PROVE UserTyped'
  <2>1. PICK user \in tokens : guarded' = [guarded EXCEPT
                 ![g] = [step |-> "guard", user |-> user, after |-> gone]]
    BY <1>10 DEF RequestArrives
  <2> DEFINE record == [step |-> "guard", user |-> user, after |-> gone]
  <2>2. record \in guardedType
    BY <1>0, <1>c
  <2>3. guarded' = [guarded EXCEPT ![g] = record]
    BY <2>1
  <2> HIDE DEF record
  <2>4. guarded' \in [GuardedCall -> guardedType]
    BY <1>c, <2>2, <2>3
  <2>5. UNCHANGED <<users, attempts, tokens, creating, removing, resetting, gone, userFaults>>
    BY <1>10 DEF RequestArrives
  <2> QED
    BY <2>4, <2>5 DEF UserTyped, UserTypeOK, Ids
<1>11. ASSUME NEW g \in GuardedCall, ValidateToken(g) PROVE UserTyped'
  <2> DEFINE verdict == IF users[guarded[g].user].deleted THEN "refused" ELSE "accepted"
             record == [guarded[g] EXCEPT !.step = verdict]
  <2>1. guarded[g] \in guardedType
    BY <1>c
  <2>2. record \in guardedType
    BY <2>1
  <2>3. guarded' = [guarded EXCEPT ![g] = record]
    BY <1>11 DEF ValidateToken
  <2> HIDE DEF record
  <2>4. guarded' \in [GuardedCall -> guardedType]
    BY <1>c, <2>2, <2>3
  <2>5. UNCHANGED <<users, attempts, tokens, creating, removing, resetting, gone, userFaults>>
    BY <1>11 DEF ValidateToken
  <2> QED
    BY <2>4, <2>5 DEF UserTyped, UserTypeOK, Ids
<1>12. CASE UNCHANGED userVars
  BY <1>12 DEF userVars, UserTyped, UserTypeOK, Ids
<1> QED
  BY <1>1, <1>2, <1>3, <1>4, <1>5, <1>6, <1>7, <1>8, <1>9, <1>10, <1>11, <1>12 DEF UserNext

\* A behaviour of MCSpec is one of every component: one of them moves, the others
\* stand still.
LEMMA ComponentsStep ==
  ASSUME [MCNext]_mcVars
  PROVE  /\ [PermissionNext]_permissionVars /\ [AuditNext]_auditVars
         /\ [ListingNext]_listingVars /\ [ReportNext]_reportVars /\ [UserNext]_userVars
         /\ [IntakeNext]_intakeVars /\ [ApplicationNext]_applicationVars
         /\ [QrNext]_qrVars /\ [DatesNext]_draft
<1>1. CASE UNCHANGED mcVars
  BY <1>1 DEF mcVars
<1>2. CASE MCNext
  <2>1. /\ \/ scenario = "permissions" /\ PermissionNext
           \/ scenario = "audit" /\ AuditNext
           \/ scenario = "listing" /\ ListingNext
           \/ scenario = "reports" /\ ReportNext
           \/ scenario = "users" /\ UserNext
           \/ scenario = "intake" /\ IntakeNext
           \/ scenario = "log" /\ ApplicationNext
           \/ scenario = "qr" /\ QrNext
           \/ scenario = "dates" /\ DatesNext
        /\ scenario # "permissions" => UNCHANGED permissionVars
        /\ scenario # "audit" => UNCHANGED auditVars
        /\ scenario # "listing" => UNCHANGED listingVars
        /\ scenario # "reports" => UNCHANGED reportVars
        /\ scenario # "users" => UNCHANGED userVars
        /\ scenario # "intake" => UNCHANGED intakeVars
        /\ scenario # "log" => UNCHANGED applicationVars
        /\ scenario # "qr" => UNCHANGED qrVars
        /\ scenario # "dates" => UNCHANGED draft
    BY <1>2 DEF MCNext, StillUnless
  <2> QED
    BY <2>1
<1> QED
  BY <1>1, <1>2

\* The state of every component is well-formed, whatever its operations, failures and
\* restarts have left in it.
THEOREM PlatformTypesCorrect == MCSpec => []PlatformTypeOK
<1>1. MCInit => /\ PermissionInit /\ AuditInit /\ ListingInit /\ ReportInit /\ UserInit
                /\ IntakeInit /\ ApplicationInit /\ QrInit /\ DatesInit
  BY DEF MCInit
<1>2. [MCNext]_mcVars =>
        /\ [PermissionNext]_permissionVars /\ [AuditNext]_auditVars
        /\ [ListingNext]_listingVars /\ [ReportNext]_reportVars /\ [UserNext]_userVars
        /\ [IntakeNext]_intakeVars /\ [ApplicationNext]_applicationVars
        /\ [QrNext]_qrVars
  BY ComponentsStep
<1>3. MCSpec => []PermissionTypeOK
  BY <1>1, <1>2, PermissionTypesCorrect, PTL DEF MCSpec, PermissionSpec
<1>4. MCSpec => []AuditTypeOK
  <2>1. AuditInv => AuditTypeOK
    BY DEF AuditInv
  <2> QED
    BY <1>1, <1>2, <2>1, AuditStarts, AuditPreserved, PTL DEF MCSpec
<1>5. MCSpec => []ListingTypeOK
  <2>1. ListingInv => ListingTypeOK
    BY DEF ListingInv
  <2> QED
    BY <1>1, <1>2, <2>1, ListingStarts, ListingPreserved, PTL DEF MCSpec
<1>6. MCSpec => []ReportTypeOK
  BY <1>1, <1>2, ReportTypesStart, ReportTypesStay, PTL DEF MCSpec
<1>7. MCSpec => []UserTypeOK
  <2>1. MCSpec => [](UserInv /\ TokensOK)
    BY <1>1, <1>2, UserInvariance, PTL DEF MCSpec, UserSpec
  <2>2. UserTyped => UserTypeOK
    BY DEF UserTyped
  <2>3. UserInv /\ UserInv' /\ UserTyped /\ [UserNext]_userVars => UserTyped'
    BY UserTypesStay
  <2> QED
    BY <1>1, <1>2, <2>1, <2>2, <2>3, UserTypesStart, PTL DEF MCSpec
<1>8. MCSpec => []IntakeTypeOK
  <2>1. IntakeInv => IntakeTypeOK
    BY DEF IntakeInv
  <2> QED
    BY <1>1, <1>2, <2>1, IntakeStarts, IntakePreserved, PTL DEF MCSpec
<1>9. MCSpec => []ApplicationTypeOK
  <2>1. LogInv => ApplicationTypeOK
    BY DEF LogInv
  <2> QED
    BY <1>1, <1>2, <2>1, LogStarts, LogPreserved, PTL DEF MCSpec
<1>10. MCSpec => []QrTypeOK
  <2>1. QrInv => QrTypeOK
    BY DEF QrInv
  <2> QED
    BY <1>1, <1>2, <2>1, QrInitInv, QrNextInv, PTL DEF MCSpec
<1>11. PermissionTypeOK /\ AuditTypeOK /\ ListingTypeOK /\ ReportTypeOK /\ UserTypeOK
         /\ IntakeTypeOK /\ ApplicationTypeOK /\ QrTypeOK => PlatformTypeOK
  BY DEF PlatformTypeOK
<1> QED
  BY <1>3, <1>4, <1>5, <1>6, <1>7, <1>8, <1>9, <1>10, <1>11, PTL

-----------------------------------------------------------------------------
(* All components together. *)

\* MCSpec is a behaviour of each component: with the steps of the others it stutters.
LEMMA BehaviourOfEach ==
  MCSpec => /\ PermissionSpec /\ AuditSpec /\ ListingSpec /\ ReportSpec /\ UserSpec
            /\ IntakeSpec /\ ApplicationSpec /\ QrSpec /\ DatesSpec
<1>1. MCInit => /\ PermissionInit /\ AuditInit /\ ListingInit /\ ReportInit /\ UserInit
                /\ IntakeInit /\ ApplicationInit /\ QrInit /\ DatesInit
  BY DEF MCInit
<1>2. [MCNext]_mcVars =>
        /\ [PermissionNext]_permissionVars /\ [AuditNext]_auditVars
        /\ [ListingNext]_listingVars /\ [ReportNext]_reportVars /\ [UserNext]_userVars
        /\ [IntakeNext]_intakeVars /\ [ApplicationNext]_applicationVars
        /\ [QrNext]_qrVars /\ [DatesNext]_draft
  BY ComponentsStep
<1> QED
  BY <1>1, <1>2, PTL
  DEF MCSpec, PermissionSpec, AuditSpec, ListingSpec, ReportSpec, UserSpec, IntakeSpec,
      ApplicationSpec, QrSpec, DatesSpec

\* All that the components' own theorems establish, of the system they are parts of.
PlatformInvariants ==
  /\ PlatformTypeOK
  /\ OutOfDateOnlyByOverlap
  /\ OutOfDateForTwoLifetimes
  /\ EntriesTellWhatHappened
  /\ ListingsMissNothing
  /\ BurstsAreReported
  /\ DashboardAddsUp
  /\ RemovedUsersStayOut
  /\ ReceivedEventsAreHandled
  /\ AnswersAreLoggedOnce
  /\ EntriesReachTheCloud
  /\ OneRowPerQrCode
  /\ PaidQrCodesAreMarked
  /\ IssuedBoletosCanBeSaved

\* Everything the platform run checks holds of the components side by side, for every
\* value of the constants: no step of one breaks what another keeps.
THEOREM PlatformCorrect == MCSpec => []PlatformInvariants
<1>1. PlatformTypeOK /\ OutOfDateOnlyByOverlap /\ OutOfDateForTwoLifetimes
        /\ EntriesTellWhatHappened /\ ListingsMissNothing /\ BurstsAreReported
        /\ DashboardAddsUp /\ RemovedUsersStayOut /\ ReceivedEventsAreHandled
        /\ AnswersAreLoggedOnce /\ EntriesReachTheCloud /\ OneRowPerQrCode
        /\ PaidQrCodesAreMarked /\ IssuedBoletosCanBeSaved => PlatformInvariants
  BY DEF PlatformInvariants
<1>2. MCSpec => /\ []OutOfDateOnlyByOverlap /\ []OutOfDateForTwoLifetimes
                /\ []EntriesTellWhatHappened /\ []ListingsMissNothing
  BY BehaviourOfEach, WrongOnlyByOverlap, WrongForTwoLifetimes, EntriesAreTrue,
     PagesMissNothing, PTL
<1>3. MCSpec => /\ []BurstsAreReported /\ []DashboardAddsUp /\ []RemovedUsersStayOut
                /\ []ReceivedEventsAreHandled
  BY BehaviourOfEach, BurstsAlwaysReported, DashboardAlwaysAddsUp, RemovalsLast,
     NoReceivedEventIsDropped, PTL
<1>4. MCSpec => /\ []AnswersAreLoggedOnce /\ []EntriesReachTheCloud /\ []OneRowPerQrCode
                /\ []PaidQrCodesAreMarked /\ []IssuedBoletosCanBeSaved
  BY BehaviourOfEach, OneEntryPerAnswer, EntriesPutOnce, OneRowEach, PaymentsMarkCodes,
     IssuedCanBeSaved, PTL
<1> QED
  BY <1>1, <1>2, <1>3, <1>4, PlatformTypesCorrect, PTL
=============================================================================
