---------------------------- MODULE BoletoDates ----------------------------
(***************************************************************************)
(* The dates of a boleto that a client asks for: which requests            *)
(* validateBoletoDates lets through to the provider, and which of those    *)
(* createBoleto can then turn into a row (boleto-validation.helper.ts,     *)
(* date.helpers.ts, boleto.service.ts).                                    *)
(*                                                                         *)
(* The DTO's @IsDateString admits a day (2025-09-20) and an instant of a   *)
(* day (2025-09-20T10:00:00Z); parseDateOnly only the former.  Instants of *)
(* the process are counted in half days: a parsed day is its midnight, and *)
(* the clock stands at noon.  One request is a state; nothing moves.       *)
(***************************************************************************)
EXTENDS Integers

CONSTANTS
  LastDay,   \* days are 0 .. LastDay
  Today

ASSUME BoletoDatesAssumption == LastDay \in Nat /\ Today \in 0 .. LastDay

VARIABLE draft

DateText == [day : 0 .. LastDay, form : {"day", "instant"}]
NoDate == [day |-> -1, form |-> "absent"]

CreateBoletoDto ==
  [dueDate : DateText, closePayment : DateText \cup {NoDate},
   interest : DateText \cup {NoDate}, fine : DateText \cup {NoDate}, discount : DateText \cup {NoDate}]

Given(date) == date # NoDate

-----------------------------------------------------------------------------
CanParse(date) == date.form = "day"
ParseDateOnly(date) == 2 * date.day
GetCurrentDate == 2 * Today + 1

IsSameDay(a, b) == a \div 2 = b \div 2
DifferenceInDays(a, b) == IF a >= b THEN (a - b) \div 2 ELSE -((b - a) \div 2)

ValidateDueDate(dueDate) ==
  /\ CanParse(dueDate)
  /\ ParseDateOnly(dueDate) >= GetCurrentDate
  /\ ~IsSameDay(ParseDateOnly(dueDate), GetCurrentDate)

\* variant: the due date is late enough
ValidateClosePaymentOnDueDate(dueDate, closePayment) ==
  /\ CanParse(closePayment)
  /\ DifferenceInDays(ParseDateOnly(closePayment), ParseDateOnly(dueDate)) >= 0

ValidateClosePayment(dueDate, closePayment) ==
  /\ CanParse(closePayment)
  /\ DifferenceInDays(ParseDateOnly(closePayment), ParseDateOnly(dueDate)) >= 1

ValidateInterestFineDates(dueDate, startDate, closePayment) ==
  /\ CanParse(startDate)
  /\ LET due == ParseDateOnly(dueDate)
         begin == ParseDateOnly(startDate)
         close == ParseDateOnly(closePayment)
     IN  /\ begin >= due /\ ~IsSameDay(begin, due)
         /\ begin <= close /\ ~IsSameDay(begin, close)
         /\ DifferenceInDays(close, begin) >= 1

ValidateDiscountDate(dueDate, limitDate, closePayment) ==
  /\ CanParse(limitDate)
  /\ LET due == ParseDateOnly(dueDate)
         limit == ParseDateOnly(limitDate)
     IN  /\ limit <= due /\ ~IsSameDay(limit, due)
         /\ DifferenceInDays(due, limit) >= 1
         /\ Given(closePayment) => limit <= ParseDateOnly(closePayment)

\* Without a closePayment nobody looks at the dates of interest and fine.
ValidateBoletoDates(dto) ==
  /\ ValidateDueDate(dto.dueDate)
  /\ Given(dto.closePayment) =>
       /\ ValidateClosePayment(dto.dueDate, dto.closePayment)
       /\ \A startDate \in {dto.interest, dto.fine} \ {NoDate} :
            ValidateInterestFineDates(dto.dueDate, startDate, dto.closePayment)
  /\ Given(dto.discount) =>
       ValidateDiscountDate(dto.dueDate, dto.discount, dto.closePayment)

\* createBoleto parses every date again, after the provider has issued the boleto.
CanSaveEmitted(dto) ==
  \A date \in {dto.dueDate, dto.closePayment, dto.interest, dto.fine, dto.discount} \ {NoDate} :
    CanParse(date)

DatesInit == draft \in CreateBoletoDto
DatesNext == UNCHANGED draft
DatesSpec == DatesInit /\ [][DatesNext]_draft

-----------------------------------------------------------------------------
(* Correctness. *)

\* The days of a request are in order: the discount ends before the due date, which
\* is to come, and what comes after it (interest, fine) starts before the boleto can
\* no longer be paid.
InOrder(dto) ==
  LET day(date) == date.day
      starts == {dto.interest, dto.fine} \ {NoDate}
  IN  /\ Today < day(dto.dueDate)
      /\ Given(dto.discount) => day(dto.discount) < day(dto.dueDate)
      /\ Given(dto.closePayment) =>
           /\ day(dto.dueDate) < day(dto.closePayment)
           /\ \A date \in starts : day(dto.dueDate) < day(date) /\ day(date) < day(dto.closePayment)

\* The checks let a request through to the provider exactly if its days are in order
\* and it can be saved once the boleto is issued; except that, without a
\* closePayment, interest and fine may start at any time, and be written in a way that
\* leaves a boleto at the provider that has no row.
IssuedBoletosCanBeSaved ==
  LET unchecked == ~Given(draft.closePayment)
      checked == IF unchecked THEN [draft EXCEPT !.interest = NoDate, !.fine = NoDate] ELSE draft
  IN  ValidateBoletoDates(draft) <=> InOrder(checked) /\ CanSaveEmitted(checked)
=============================================================================
