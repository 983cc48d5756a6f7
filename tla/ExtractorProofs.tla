-------------------------- MODULE ExtractorProofs --------------------------
(***************************************************************************)
(* Proofs about Extractor: what of one upload's extraction is true of any  *)
(* number of workers, of every answer they may give, of every list of      *)
(* brands and keywords, and of every date.                                 *)
(*                                                                         *)
(* The invariant of a request says that a slot holds what its worker made  *)
(* of an answer, that a deadline leads to a reviewer, and that what is     *)
(* agreed is the consensus of the slots, with what is derived of it once   *)
(* the request goes on.  The rest is about that consensus: what each of    *)
(* its fields comes from, and that it is the same in any order.            *)
(***************************************************************************)
EXTENDS Extractor, RanksProofs, SequenceTheorems

-----------------------------------------------------------------------------
(* Dates.                                                                  *)
Leap(year) == IF IsLeap(year) THEN 1 ELSE 0

(* Every number of months is so many years and a rest.                     *)
LEMMA Twelfths ==
    ASSUME NEW a \in Nat
    PROVE  a \div 12 \in Nat /\ (a % 12) \in 0 .. 11 /\ a = (a \div 12) * 12 + (a % 12)
OBVIOUS

DayOf(year, month, day) == DayNumber(<<year, month, day>>)

YearStart(year) == DayOf(year, 1, 1)

LeapDays(past) == past \div 4 - past \div 100 + past \div 400

(* A year adds one leap day when it is a leap year.                        *)
LEMMA LeapYears ==
    ASSUME NEW y \in Nat, y >= 1
    PROVE  LeapDays(y) = LeapDays(y - 1) + Leap(y) /\ LeapDays(y - 1) \in Int
<1>1. /\ y \div 4 = (y - 1) \div 4 + IF y % 4 = 0 THEN 1 ELSE 0
      /\ y \div 100 = (y - 1) \div 100 + IF y % 100 = 0 THEN 1 ELSE 0
      /\ y \div 400 = (y - 1) \div 400 + IF y % 400 = 0 THEN 1 ELSE 0
      /\ y % 400 = 0 => y % 100 = 0
      /\ y % 100 = 0 => y % 4 = 0
  OBVIOUS
<1>2. (y - 1) \div 4 \in Int /\ (y - 1) \div 100 \in Int /\ (y - 1) \div 400 \in Int
  OBVIOUS
<1> QED BY <1>1, <1>2 DEF LeapDays, Leap, IsLeap

(* The days of the year before a month.                                    *)
MonthStart(y, m) == DaysBefore[m] + (IF m > 2 THEN Leap(y) ELSE 0)

(* The number of a day: those of its year and month and the days of those. *)
LEMMA DayOfIs ==
    ASSUME NEW y \in Nat, NEW m \in 1 .. 12, NEW d \in Nat
    PROVE  DayOf(y, m, d) = 365 * (y - 1) + LeapDays(y - 1) + MonthStart(y, m) + d
<1> DEFINE date == <<y, m, d>>
<1>1. date[1] = y /\ date[2] = m /\ date[3] = d
  OBVIOUS
<1>2. DaysBefore[m] \in Int
  BY DEF DaysBefore
<1>3. (y - 1) \div 4 \in Int /\ (y - 1) \div 100 \in Int /\ (y - 1) \div 400 \in Int
  OBVIOUS
<1> HIDE DEF date
<1>4. (IF m > 2 /\ IsLeap(y) THEN 1 ELSE 0) = IF m > 2 THEN Leap(y) ELSE 0
  BY DEF Leap
<1>5. DayNumber(date) = 365 * (y - 1) + (y - 1) \div 4 - (y - 1) \div 100 + (y - 1) \div 400 + DaysBefore[m]
      + (IF m > 2 /\ IsLeap(y) THEN 1 ELSE 0) + d
  BY <1>1 DEF DayNumber
<1>6. (IF m > 2 THEN Leap(y) ELSE 0) \in Int
  BY DEF Leap
<1>7. DayNumber(date) = 365 * (y - 1) + LeapDays(y - 1) + MonthStart(y, m) + d
  BY <1>2, <1>3, <1>4, <1>5, <1>6 DEF LeapDays, MonthStart
<1> QED BY <1>7 DEF date, DayOf

(* A year is as long as its 365 days and its leap day, and a day lies in   *)
(* it by the days of the months before.                                    *)
LEMMA DayNumberIs ==
    ASSUME NEW y \in Nat, y >= 1
    PROVE  /\ YearStart(y) \in Int /\ YearStart(y + 1) = YearStart(y) + 365 + Leap(y)
           /\ \A m \in 1 .. 12, d \in Nat : DayOf(y, m, d) = YearStart(y) + MonthStart(y, m) + d - 1
<1>1. LeapDays(y - 1) \in Int /\ Leap(y) \in Int /\ LeapDays(y) = LeapDays(y - 1) + Leap(y)
  BY LeapYears DEF Leap
<1>2. \A z \in Nat : MonthStart(z, 1) = 0
  BY DEF MonthStart, DaysBefore
<1>3. \A z \in Nat, m \in 1 .. 12 : MonthStart(z, m) \in Int
  BY DEF MonthStart, DaysBefore, Leap
<1>4. YearStart(y) = 365 * (y - 1) + LeapDays(y - 1) + 1
  BY <1>1, <1>2, DayOfIs DEF YearStart
<1>5. YearStart(y + 1) = 365 * y + LeapDays(y) + 1
  <2>1. y + 1 \in Nat /\ (y + 1) - 1 = y
    OBVIOUS
  <2>2. YearStart(y + 1) = 365 * y + LeapDays(y) + 0 + 1
    BY <1>2, <2>1, DayOfIs DEF YearStart
  <2> QED BY <1>1, <2>2
<1>6. YearStart(y + 1) = YearStart(y) + 365 + Leap(y)
  BY <1>1, <1>4, <1>5
<1>7. ASSUME NEW m \in 1 .. 12, NEW d \in Nat
      PROVE  DayOf(y, m, d) = YearStart(y) + MonthStart(y, m) + d - 1
  <2>1. DayOf(y, m, d) = 365 * (y - 1) + LeapDays(y - 1) + MonthStart(y, m) + d
    BY DayOfIs
  <2> QED BY <1>1, <1>3, <1>4, <2>1
<1> QED BY <1>1, <1>4, <1>6, <1>7

(* The months of a year follow one another.                                *)
LEMMA MonthsFollow ==
    ASSUME NEW y \in Nat, NEW m \in 1 .. 12
    PROVE  /\ MonthStart(y, m) \in Nat /\ lastDayOfMonth(y, m) \in 28 .. 31
           /\ MonthStart(y, m) + lastDayOfMonth(y, m) <= 365 + Leap(y)
           /\ \A n \in 1 .. 12 : m < n => MonthStart(y, m) + lastDayOfMonth(y, m) <= MonthStart(y, n)
<1>1. /\ DaysBefore[1] = 0 /\ DaysBefore[2] = 31 /\ DaysBefore[3] = 59 /\ DaysBefore[4] = 90
      /\ DaysBefore[5] = 120 /\ DaysBefore[6] = 151 /\ DaysBefore[7] = 181 /\ DaysBefore[8] = 212
      /\ DaysBefore[9] = 243 /\ DaysBefore[10] = 273 /\ DaysBefore[11] = 304 /\ DaysBefore[12] = 334
  BY DEF DaysBefore
<1>2. /\ lastDayOfMonth(y, 2) = 28 + Leap(y)
      /\ \A n \in {4, 6, 9, 11} : lastDayOfMonth(y, n) = 30
      /\ \A n \in {1, 3, 5, 7, 8, 10, 12} : lastDayOfMonth(y, n) = 31
  <2>1. lastDayOfMonth(y, 2) = 28 + Leap(y)
    BY DEF lastDayOfMonth, Leap
  <2>2. \A n \in {4, 6, 9, 11} : lastDayOfMonth(y, n) = 30
    BY DEF lastDayOfMonth
  <2>3. \A n \in {1, 3, 5, 7, 8, 10, 12} : lastDayOfMonth(y, n) = 31
    BY DEF lastDayOfMonth
  <2> QED BY <2>1, <2>2, <2>3
<1>3. Leap(y) \in {0, 1}
  BY DEF Leap
<1>4. m \in {1, 2, 3, 4, 5, 6, 7, 8, 9, 10, 11, 12}
  OBVIOUS
<1>5. \A n \in 1 .. 12 : MonthStart(y, n) = IF n > 2 THEN DaysBefore[n] + Leap(y) ELSE DaysBefore[n]
  BY <1>1, <1>3 DEF MonthStart
<1> QED BY <1>1, <1>2, <1>3, <1>4, <1>5

(* A date is the only one with its number.                                 *)
LEMMA NoDaysLater ==
    ASSUME NEW date, IsDate(date)
    PROVE  AddDays(date, 0) = date
<1>1. PICK y \in Nat, m \in 1 .. 12, d \in 1 .. 31 : date = <<y, m, d>> /\ y >= 1 /\ d <= lastDayOfMonth(y, m)
  <2>1. /\ date \in Nat \X (1 .. 12) \X (1 .. 31)
        /\ date[1] >= 1 /\ date[3] <= lastDayOfMonth(date[1], date[2])
    BY DEF IsDate
  <2>2. PICK y \in Nat, m \in 1 .. 12, d \in 1 .. 31 : date = <<y, m, d>>
    BY <2>1
  <2>3. date[1] = y /\ date[2] = m /\ date[3] = d
    BY <2>2
  <2> QED BY <2>1, <2>2, <2>3
<1> DEFINE target == DayNumber(date) + 0
<1>2. YearStart(y) \in Int /\ YearStart(y + 1) = YearStart(y) + 365 + Leap(y)
      /\ MonthStart(y, m) \in Nat /\ lastDayOfMonth(y, m) \in 28 .. 31 /\ Leap(y) \in {0, 1}
  <2>1. YearStart(y) \in Int /\ YearStart(y + 1) = YearStart(y) + 365 + Leap(y)
    BY <1>1, DayNumberIs
  <2>2. MonthStart(y, m) \in Nat /\ lastDayOfMonth(y, m) \in 28 .. 31
    BY <1>1, MonthsFollow
  <2>3. Leap(y) \in {0, 1}
    BY DEF Leap
  <2> QED BY <2>1, <2>2, <2>3
<1>3. target = YearStart(y) + MonthStart(y, m) + d - 1
  <2>1. DayNumber(date) = DayOf(y, m, d)
    BY <1>1 DEF DayOf
  <2>2. d \in Nat
    OBVIOUS
  <2>3. DayOf(y, m, d) = YearStart(y) + MonthStart(y, m) + d - 1
    BY <1>1, <2>2, DayNumberIs
  <2> QED BY <1>2, <2>1, <2>3
<1>4. \A z \in Nat, n \in 1 .. 12 : DayNumber(<<z, n, 1>>) = DayOf(z, n, 1)
  BY DEF DayOf
<1>5. AddDays(date, 0) =
        LET year  == CHOOSE z \in y .. y + (0 \div 365) + 1 :
                        target \in DayOf(z, 1, 1) .. DayOf(z + 1, 1, 1) - 1
            month == CHOOSE n \in 1 .. 12 :
                        target \in DayOf(year, n, 1) .. DayOf(year, n, 1) + lastDayOfMonth(year, n) - 1
        IN  <<year, month, target - DayOf(year, month, 1) + 1>>
  BY <1>1 DEF AddDays, DayOf
<1> HIDE DEF target
<1>6. 0 \div 365 = 0
  OBVIOUS
<1> DEFINE InYear(z) == target \in DayOf(z, 1, 1) .. DayOf(z + 1, 1, 1) - 1
           InMonth(n) == target \in DayOf(y, n, 1) .. DayOf(y, n, 1) + lastDayOfMonth(y, n) - 1
<1>7. InYear(y)
  <2>1. MonthStart(y, m) + lastDayOfMonth(y, m) <= 365 + Leap(y)
    BY <1>1, MonthsFollow
  <2>2. /\ YearStart(y) <= YearStart(y) + MonthStart(y, m) + d - 1
        /\ YearStart(y) + MonthStart(y, m) + d - 1 <= YearStart(y + 1) - 1
    BY <1>1, <1>2, <2>1
  <2>3. target \in Int /\ YearStart(y) <= target /\ target <= YearStart(y + 1) - 1
    BY <1>1, <1>2, <1>3, <2>2
  <2>4. YearStart(y + 1) \in Int
    BY <1>2
  <2> QED BY <1>2, <2>3, <2>4 DEF YearStart
<1>8. \A z \in y .. y + (0 \div 365) + 1 : InYear(z) => z = y
  <2>1. SUFFICES ASSUME InYear(y + 1) PROVE FALSE
    BY <1>6
  <2>2. /\ y + 1 \in Nat /\ y + 1 >= 1 
    OBVIOUS
  <2>3. YearStart(y + 1) \in Int /\ YearStart((y + 1) + 1) \in Int
    <3>1. YearStart((y + 1) + 1) = YearStart(y + 1) + 365 + Leap(y + 1) /\ YearStart(y + 1) \in Int
      BY <2>2, DayNumberIs
    <3> QED BY <3>1 DEF Leap
  <2>4. target >= YearStart(y + 1)
    BY <2>1, <2>3 DEF YearStart
  <2>5. MonthStart(y, m) + lastDayOfMonth(y, m) <= 365 + Leap(y)
    BY <1>1, MonthsFollow
  <2> QED BY <1>1, <1>2, <1>3, <2>4, <2>5
<1>9. \A n \in 1 .. 12 : DayOf(y, n, 1) = YearStart(y) + MonthStart(y, n)
  <2> SUFFICES ASSUME NEW n \in 1 .. 12 PROVE DayOf(y, n, 1) = YearStart(y) + MonthStart(y, n)
    OBVIOUS
  <2>1. DayOf(y, n, 1) = YearStart(y) + MonthStart(y, n) + 1 - 1
    BY <1>1, DayNumberIs
  <2>2. MonthStart(y, n) \in Nat
    BY MonthsFollow
  <2> QED BY <1>2, <2>1, <2>2
<1>10. InMonth(m)
  BY <1>1, <1>2, <1>3, <1>9
<1>11. ASSUME NEW n \in 1 .. 12, InMonth(n) PROVE n = m
  <2>1. /\ MonthStart(y, n) \in Nat /\ lastDayOfMonth(y, n) \in 28 .. 31
        /\ n < m => MonthStart(y, n) + lastDayOfMonth(y, n) <= MonthStart(y, m)
        /\ m < n => MonthStart(y, m) + lastDayOfMonth(y, m) <= MonthStart(y, n)
    BY MonthsFollow
  <2>2. /\ YearStart(y) + MonthStart(y, n) <= target
        /\ target <= YearStart(y) + MonthStart(y, n) + lastDayOfMonth(y, n) - 1
    BY <1>2, <1>9, <1>11, <2>1
  <2>3. ~(n < m)
    BY <1>1, <1>2, <1>3, <2>1, <2>2
  <2>4. ~(m < n)
    BY <1>1, <1>2, <1>3, <2>1, <2>2
  <2> QED BY <2>3, <2>4
<1> HIDE DEF InYear, InMonth
<1>12. (CHOOSE z \in y .. y + (0 \div 365) + 1 : InYear(z)) = y
  <2>1. y \in y .. y + (0 \div 365) + 1
    BY <1>6
  <2> QED BY <1>7, <1>8, <2>1
<1>13. (CHOOSE n \in 1 .. 12 : InMonth(n)) = m
  BY <1>10, <1>11
<1>14. AddDays(date, 0) = <<y, m, target - DayOf(y, m, 1) + 1>>
  <2> DEFINE year == CHOOSE z \in y .. y + (0 \div 365) + 1 : InYear(z)
             month == CHOOSE n \in 1 .. 12 :
                        target \in DayOf(year, n, 1) .. DayOf(year, n, 1) + lastDayOfMonth(year, n) - 1
  <2>1. AddDays(date, 0) = <<year, month, target - DayOf(year, month, 1) + 1>>
    BY <1>5 DEF InYear
  <2>2. year = y
    BY <1>12
  <2> HIDE DEF year
  <2>3. month = m
    BY <1>13, <2>2 DEF InMonth
  <2> HIDE DEF month
  <2> QED BY <2>1, <2>2, <2>3
<1>15. target - DayOf(y, m, 1) + 1 = d
  BY <1>1, <1>2, <1>3, <1>9
<1> QED BY <1>1, <1>14, <1>15

(* As many months lie between two dates, on the same day or on the last of *)
(* a month that has no such day.                                           *)
MonthsFrom(date, end, months) ==
    /\ (end[1] - date[1]) * 12 + end[2] - date[2] = months
    /\ \/ end[3] = date[3]
       \/ end[3] < date[3] /\ end[3] = lastDayOfMonth(end[1], end[2])

(* Years and months later: in exactly that month, on that day or its last. *)
LEMMA MonthsLater ==
    ASSUME NEW date, IsDate(date), NEW months \in Nat, NEW end, end = AddMonths(date, months)
    PROVE  IsDate(end) /\ MonthsFrom(date, end, months)
<1>1. PICK y \in Nat, m \in 1 .. 12, d \in 1 .. 31 : date = <<y, m, d>> /\ y >= 1
  BY DEF IsDate
<1> DEFINE total == y * 12 + m - 1 + months
           year == total \div 12
           month == (total % 12) + 1
           last == lastDayOfMonth(year, month)
           day == IF d > last THEN last ELSE d
<1>2. total \in Nat
  OBVIOUS
<1>3. end = <<year, month, day>>
  <2>1. MonthAfter(date, months) = <<year, month>>
    BY <1>1 DEF MonthAfter
  <2> HIDE DEF year, month
  <2> QED BY <1>1, <2>1 DEF AddMonths
<1>4. total >= 12 /\ total = y * 12 + m - 1 + months
  BY <1>1
<1> HIDE DEF total
<1>5. year \in Nat /\ month \in 1 .. 12 /\ total = year * 12 + month - 1 /\ year >= 1
  <2>1. total \div 12 \in Nat /\ (total % 12) \in 0 .. 11 /\ total = (total \div 12) * 12 + (total % 12)
    BY <1>2, Twelfths
  <2>2. total \div 12 >= 1
    BY <1>2, <1>4
  <2> QED BY <2>1, <2>2
<1> HIDE DEF year, month
<1>6. last \in 28 .. 31
  BY <1>5, MonthsFollow
<1> HIDE DEF last
<1>7. day \in 1 .. 31 /\ day <= last /\ (day = d \/ (day < d /\ day = last))
  BY <1>6
<1> HIDE DEF day
<1>8. end[1] = year /\ end[2] = month /\ end[3] = day /\ date[1] = y /\ date[2] = m /\ date[3] = d
  BY <1>1, <1>3
<1>9. (year - y) * 12 + month - m = months
  BY <1>4, <1>5
<1>10. IsDate(end)
  <2>1. end \in Nat \X (1 .. 12) \X (1 .. 31)
    BY <1>3, <1>5, <1>7
  <2> QED BY <1>5, <1>7, <1>8, <2>1 DEF IsDate, last
<1> QED BY <1>7, <1>8, <1>9, <1>10 DEF last, MonthsFrom

-----------------------------------------------------------------------------
(* What a worker reads, and what becomes of it.                            *)
(* What a text is made of.                                                 *)
Tokens == Words \cup White

(* Every field of an extraction: it has no others.                         *)
AllFields(e) ==
    [err |-> e.err, serial |-> e.serial, brand |-> e.brand, model |-> e.model, name |-> e.name,
     bought |-> e.bought, ends |-> e.ends, lasts |-> e.lasts, category |-> e.category,
     categoryConfidence |-> e.categoryConfidence, class |-> e.class]

(* An answer as a worker reads it.                                         *)
IsRead(e) ==
    /\ e = AllFields(e)
    /\ e.err = "none"
    /\ e.brand \in Seq(Tokens) /\ e.model \in Seq(Tokens) /\ e.name \in Seq(Tokens)
    /\ e.bought = <<>> \/ IsDate(e.bought)
    /\ e.lasts = <<>> \/ e.lasts \in Nat \X Nat \X Nat
    /\ e.category = <<>> \/ e.category \in Categories
    /\ e.categoryConfidence = 0

(* An absent text is a text.                                               *)
LEMMA NothingIsText == <<>> \in Seq(Tokens)
OBVIOUS

(* What nothing but spaces give is a date.                                 *)
LEMMA ZeroIsADate == IsDate(ZeroDate)
<1>1. ZeroDate \in Nat \X (1 .. 12) \X (1 .. 31)
  BY DEF ZeroDate
<1>2. lastDayOfMonth(ZeroDate[1], ZeroDate[2]) = 31
  BY DEF lastDayOfMonth, ZeroDate
<1>3. ZeroDate[1] = 1 /\ ZeroDate[3] = 1
  BY DEF ZeroDate
<1> QED BY <1>1, <1>2, <1>3 DEF IsDate

(* Whatever the provider answers.                                          *)
LEMMA ExtractionsAreRead == ASSUME NEW e \in Extractions PROVE IsRead(e)
<1>1. PICK answer \in Answers : e = ParseExtraction(answer) /\ e.err = "none"
  BY DEF Extractions, Succeeded
<1>2. IsOneObject(answer)
  <2>1. ASSUME ~IsOneObject(answer) PROVE FALSE
    <3>1. e = [err |-> "parse"]
      BY <1>1, <2>1 DEF ParseExtraction
    <3> QED BY <1>1, <3>1
  <2> QED BY <2>1
<1>3. FieldsOK(answer)
  BY ExtractorAssumption DEF ExtractorAssumption
<1>4. e = [err |-> "none", serial |-> strPtr(answer.serial), brand |-> strPtr(answer.brand),
          model |-> strPtr(answer.model), name |-> strPtr(answer.name),
          bought |-> datePtr(answer.bought), ends |-> datePtr(answer.ends),
          lasts |-> warrantyDurationStr(answer.lasts),
          category |-> assetCategoryPtr(answer.category), categoryConfidence |-> 0,
          class |-> IF answer.class \in DocTypes THEN answer.class ELSE "other"]
  BY <1>1, <1>2 DEF ParseExtraction
<1>5. /\ strPtr(answer.brand) \in Seq(Tokens) /\ strPtr(answer.model) \in Seq(Tokens)
      /\ strPtr(answer.name) \in Seq(Tokens)
  BY <1>3, NothingIsText DEF FieldsOK, strPtr, IsText, Tokens
<1>6. datePtr(answer.bought) = <<>> \/ IsDate(datePtr(answer.bought))
  <2> HIDE DEF IsDate
  <2> QED BY <1>3, ZeroIsADate DEF FieldsOK, datePtr, ParseDate
<1>7. warrantyDurationStr(answer.lasts) = <<>> \/ warrantyDurationStr(answer.lasts) \in Nat \X Nat \X Nat
  BY <1>3 DEF FieldsOK, warrantyDurationStr
<1>8. assetCategoryPtr(answer.category) = <<>> \/ assetCategoryPtr(answer.category) \in Categories
  BY DEF assetCategoryPtr
<1>9. e = AllFields(e)
  BY <1>4 DEF AllFields
<1>10. /\ e.brand = strPtr(answer.brand) /\ e.model = strPtr(answer.model) /\ e.name = strPtr(answer.name)
       /\ e.bought = datePtr(answer.bought) /\ e.lasts = warrantyDurationStr(answer.lasts)
       /\ e.category = assetCategoryPtr(answer.category) /\ e.categoryConfidence = 0
  BY <1>4
<1> QED BY <1>1, <1>5, <1>6, <1>7, <1>8, <1>9, <1>10 DEF IsRead

(* The table of the readings is the reconciliation of each.                *)
LEMMA ReconciledIs == ASSUME NEW e \in Extractions PROVE Reconciled(e) = reconcileIdentity(e)
<1>1. [raw |-> e, ext |-> reconcileIdentity(e)] \in Readings
  BY DEF Readings
<1>2. \A r \in Readings : r.raw = e => r.ext = reconcileIdentity(e)
  BY DEF Readings
<1>3. \E r \in Readings : r.raw = e
  BY <1>1
<1>4. PICK r \in Readings : r = CHOOSE q \in Readings : q.raw = e
  BY <1>3
<1>5. r.raw = e
  BY <1>3, <1>4
<1> QED BY <1>2, <1>4, <1>5 DEF Reconciled

(* Of an extraction only the identity texts are reconciled.                *)
LEMMA OnlyTextsChange ==
    ASSUME NEW e, IsRead(e)
    PROVE  LET r == reconcileIdentity(e)
           IN  /\ r = AllFields(r) /\ r.err = "none" /\ r.serial = e.serial
               /\ r.bought = e.bought /\ r.lasts = e.lasts /\ r.ends = e.ends
               /\ r.category = e.category /\ r.categoryConfidence = 0 /\ r.class = e.class
               /\ r.model = Resplit(e).model
<1> DEFINE Same(r) == /\ r = AllFields(r) /\ r.err = "none" /\ r.serial = e.serial
                      /\ r.bought = e.bought /\ r.lasts = e.lasts /\ r.ends = e.ends
                      /\ r.category = e.category /\ r.categoryConfidence = 0 /\ r.class = e.class
<1>1. ASSUME NEW r, Same(r), NEW b
      PROVE  /\ Same([r EXCEPT !.brand = b]) /\ [r EXCEPT !.brand = b].model = r.model
             /\ Same([r EXCEPT !.model = b]) /\ Same([r EXCEPT !.name = b])
  BY <1>1 DEF AllFields
<1>2. ASSUME NEW r, Same(r), NEW b, NEW m, NEW n
      PROVE  Same([r EXCEPT !.brand = b, !.model = m, !.name = n])
  <2>1. [r EXCEPT !.brand = b, !.model = m, !.name = n]
           = [[[r EXCEPT !.brand = b] EXCEPT !.model = m] EXCEPT !.name = n]
    OBVIOUS
  <2>2. Same([[[r EXCEPT !.brand = b] EXCEPT !.model = m] EXCEPT !.name = n])
    <3> HIDE DEF Same
    <3> QED BY <1>1, <1>2
  <2> HIDE DEF Same
  <2> QED BY <2>1, <2>2
<1>3. Same(e)
  BY DEF IsRead
<1> HIDE DEF Same
<1>4. \A parts : Same(Merged(e, parts))
  BY <1>2, <1>3 DEF Merged
<1>5. Same(Resplit(e))
  BY <1>3, <1>4 DEF Resplit
<1>6. Same(reconcileIdentity(e)) /\ reconcileIdentity(e).model = Resplit(e).model
  BY <1>1, <1>5 DEF reconcileIdentity, Corrected
<1> QED BY <1>6 DEF Same

(* The least of some numbers is one of them.                               *)
LEMMA MinIsLeast ==
    ASSUME NEW S \in SUBSET Nat, S # {}
    PROVE  Min(S) \in S /\ \A n \in S : Min(S) <= n
<1>1. \E m \in S : \A n \in S : m <= n
  BY LeastNumber
<1> QED BY <1>1 DEF Min

-----------------------------------------------------------------------------
(* Descriptions.                                                           *)
(* A brand that is found is one of the list.                               *)
LEMMA BrandIsListed ==
    ASSUME NEW text
    PROVE  FindBrand(text) = <<>> \/ (FindBrand(text) \in Range(Lexicon) /\ FindBrand(text) \in Seq(Tokens))
<1> DEFINE found == {i \in DOMAIN Lexicon : brandAtWordBoundary(text, Lexicon[i])}
<1>1. CASE found = {}
  BY <1>1 DEF FindBrand
<1>2. CASE found # {}
  <2>1. found \in SUBSET Nat
    BY DescriptionAssumption DEF DescriptionAssumption
  <2>2. Min(found) \in DOMAIN Lexicon
    BY <1>2, <2>1, MinIsLeast
  <2>3. FindBrand(text) = Lexicon[Min(found)]
    BY <1>2 DEF FindBrand
  <2> HIDE DEF found
  <2>4. Lexicon[Min(found)] \in Range(Lexicon)
    BY <2>2 DEF Range
  <2>5. Lexicon[Min(found)] \in Seq(Tokens)
    BY <2>2, DescriptionAssumption, ElementOfSeq DEF DescriptionAssumption, Tokens
  <2> QED BY <2>3, <2>4, <2>5
<1> QED BY <1>1, <1>2

(* The words of a text are its words, in a list of their own.              *)
LEMMA FieldsAreWords ==
    ASSUME NEW text \in Seq(Tokens)
    PROVE  /\ Fields(text) \in Seq(Words)
           /\ \A k \in DOMAIN Fields(text) : \E i \in DOMAIN text : Fields(text)[k] = text[i]
           /\ \A i \in DOMAIN text : text[i] \in Words => \E k \in DOMAIN Fields(text) : Fields(text)[k] = text[i]
<1> DEFINE S == {i \in DOMAIN text : text[i] \notin White}
           n == Cardinality(S)
<1>1. S \in SUBSET Nat /\ IsFiniteSet(S) /\ n \in Nat
  <2>1. IsFiniteSet(1 .. Len(text)) /\ S \in SUBSET (1 .. Len(text))
    BY FS_Interval
  <2>2. \A i \in 1 .. Len(text) : i \in Nat
    OBVIOUS
  <2> HIDE DEF S
  <2>3. S \in SUBSET Nat /\ IsFiniteSet(S)
    BY <2>1, <2>2, FS_Subset
  <2> QED BY <2>3, FS_CardinalityType
<1>2. Fields(text) = [k \in 1 .. n |-> text[Nth(S, k)]]
  BY DEF Fields, Kept
<1>3. \A i \in S : i \in DOMAIN text /\ text[i] \in Words
  BY DEF Tokens
<1>4. \A i \in DOMAIN text : text[i] \in Words => i \in S
  BY DescriptionAssumption DEF DescriptionAssumption
<1> HIDE DEF S, n
<1>5. \A k \in 1 .. n : Nth(S, k) \in S
  BY <1>1, NthProperties DEF n
<1>6. \A i \in S : \E k \in 1 .. n : Nth(S, k) = i
  <2> SUFFICES ASSUME NEW i \in S PROVE \E k \in 1 .. n : Nth(S, k) = i
    OBVIOUS
  <2>1. Rank(S, i) \in 1 .. n
    BY <1>1, RankProperties DEF n
  <2>2. Nth(S, Rank(S, i)) = i
    BY <1>1, NthProperties
  <2> QED BY <2>1, <2>2
<1>7. Fields(text) \in Seq(Words)
  <2>1. Fields(text) \in [1 .. n -> Words]
    BY <1>2, <1>3, <1>5
  <2> QED BY <1>1, <2>1, SeqDef
<1>8. DOMAIN Fields(text) = 1 .. n /\ \A k \in 1 .. n : Fields(text)[k] = text[Nth(S, k)]
  BY <1>2
<1> QED BY <1>3, <1>4, <1>5, <1>6, <1>7, <1>8

(* A word whose lower case is no word of the brand stays when the brand is *)
(* taken out.                                                              *)
LEMMA BrandLeavesOthers ==
    ASSUME NEW words \in Seq(Words), NEW brand \in Seq(Words)
    PROVE  /\ removeBrand(words, brand) \in Seq(Words)
           /\ \A j \in DOMAIN words :
                 (\A k \in DOMAIN brand : Lower[brand[k]] # Lower[words[j]]) =>
                    \E k \in DOMAIN removeBrand(words, brand) : removeBrand(words, brand)[k] = words[j]
<1> DEFINE at == Places(words, brand)
           i == Min(at)
           n == Len(brand)
           before == SubSeq(words, 1, i - 1)
           after == SubSeq(words, i + n, Len(words))
<1>1. CASE brand = <<>> \/ at = {}
  BY <1>1 DEF removeBrand
<1>2. CASE brand # <<>> /\ at # {}
  <2>1. n \in Nat
    OBVIOUS
  <2>2. at \in SUBSET Nat
    BY DEF Places
  <2>3. i \in at
    <3> HIDE DEF at
    <3> QED BY <1>2, <2>2, MinIsLeast
  <2>4. removeBrand(words, brand) = before \o after
    BY <1>2 DEF removeBrand
  <2>5. /\ i \in 1 .. Len(words) /\ i + n - 1 <= Len(words)
        /\ SubSeq(LowerText(words), i, i + n - 1) = LowerText(brand)
    BY <2>3 DEF Places
  <2> HIDE DEF i
  <2>6. Len(words) \in Nat /\ DOMAIN words = 1 .. Len(words) /\ i \in Nat
    BY <2>5
  <2>7. ASSUME NEW k \in 1 .. n PROVE Lower[words[i + k - 1]] = Lower[brand[k]]
    <3>1. \A l \in i .. i + n - 1 : l \in DOMAIN words /\ LowerText(words)[l] = Lower[words[l]]
      BY <2>5, <2>6 DEF LowerText
    <3>2. \A l \in i .. i + n - 1 : LowerText(words)[l] \in {Lower[words[m]] : m \in DOMAIN words}
      BY <3>1
    <3>3. i \in Int /\ i + n - 1 \in Int
      BY <2>1, <2>6
    <3>4. \A l \in 1 .. (i + n - 1) - i + 1 :
             SubSeq(LowerText(words), i, i + n - 1)[l] = LowerText(words)[i + l - 1]
      BY <3>2, <3>3, SubSeqProperties
    <3>5. k \in 1 .. (i + n - 1) - i + 1 /\ i + k - 1 \in i .. i + n - 1
      BY <2>1, <2>6
    <3>6. LowerText(brand)[k] = Lower[brand[k]]
      BY <2>1 DEF LowerText
    <3> QED BY <2>5, <3>1, <3>4, <3>5, <3>6
  <2>8. /\ before \in Seq(Words) /\ Len(before) = i - 1 /\ \A k \in 1 .. i - 1 : before[k] = words[k]
    <3>1. \A k \in 1 .. i - 1 : words[k] \in Words
      BY <2>5, <2>6
    <3>2. /\ before \in Seq(Words) /\ Len(before) = IF 1 <= i - 1 THEN (i - 1) - 1 + 1 ELSE 0
          /\ \A k \in 1 .. (i - 1) - 1 + 1 : before[k] = words[1 + k - 1]
      BY <2>6, <3>1, SubSeqProperties
    <3>3. (i - 1) - 1 + 1 = i - 1 /\ i >= 1 /\ \A k \in Int : 1 + k - 1 = k
      BY <2>5, <2>6
    <3> HIDE DEF before
    <3>4. \A k \in 1 .. i - 1 : k \in Int /\ before[k] = words[1 + k - 1]
      BY <3>2, <3>3
    <3>5. \A k \in 1 .. i - 1 : before[k] = words[k]
      BY <3>3, <3>4
    <3>6. Len(before) = i - 1
      BY <2>6, <3>2, <3>3
    <3> QED BY <3>2, <3>5, <3>6
  <2>9. /\ after \in Seq(Words) /\ Len(after) = Len(words) - (i + n) + 1
        /\ \A k \in 1 .. Len(words) - (i + n) + 1 : after[k] = words[(i + n) + k - 1]
    <3>1. \A k \in i + n .. Len(words) : words[k] \in Words
      BY <2>1, <2>5, <2>6
    <3>2. /\ after \in Seq(Words) /\ Len(after) = IF i + n <= Len(words) THEN Len(words) - (i + n) + 1 ELSE 0
          /\ \A k \in 1 .. Len(words) - (i + n) + 1 : after[k] = words[(i + n) + k - 1]
      BY <2>1, <2>6, <3>1, SubSeqProperties
    <3>3. ~(i + n <= Len(words)) => Len(words) - (i + n) + 1 = 0
      <4>1. i + n - 1 <= Len(words)
        BY <2>5
      <4> HIDE DEF n
      <4> QED BY <2>1, <2>6, <4>1
    <3> HIDE DEF after
    <3>4. Len(after) = Len(words) - (i + n) + 1
      BY <3>2, <3>3
    <3> QED BY <3>2, <3>4
  <2> HIDE DEF before, after
  <2>10. ASSUME NEW j \in DOMAIN words, \A k \in DOMAIN brand : Lower[brand[k]] # Lower[words[j]]
         PROVE  \E k \in DOMAIN (before \o after) : (before \o after)[k] = words[j]
    <3>1. j \in Nat /\ j >= 1 /\ j <= Len(words)
      BY <2>6
    <3>2. j < i \/ j >= i + n
      <4> SUFFICES ASSUME ~(j < i), ~(j >= i + n) PROVE FALSE
        BY <2>1, <2>6, <3>1
      <4> DEFINE k == j - i + 1
      <4>1. k \in 1 .. n /\ i + k - 1 = j
        BY <2>1, <2>6, <3>1
      <4> HIDE DEF k
      <4>2. Lower[brand[k]] = Lower[words[j]]
        BY <2>7, <4>1
      <4>3. k \in DOMAIN brand
        BY <2>1, <4>1
      <4> QED BY <2>10, <4>2, <4>3
    <3>3. CASE j < i
      <4>1. j \in 1 .. Len(before) /\ before[j] = words[j]
        BY <2>6, <2>8, <3>1, <3>3
      <4> QED BY <2>8, <2>9, <4>1
    <3>4. CASE j >= i + n
      <4> DEFINE k == j - (i + n) + 1
      <4>1. k \in 1 .. Len(words) - (i + n) + 1 /\ (i + n) + k - 1 = j
        BY <2>1, <2>6, <3>1, <3>4
      <4> HIDE DEF k
      <4>2. k \in 1 .. Len(after) /\ after[k] = words[j]
        BY <2>9, <4>1
      <4>3. /\ Len(before) + k \in DOMAIN (before \o after)
            /\ (before \o after)[Len(before) + k] = after[k]
        BY <2>8, <2>9, <4>2
      <4> QED BY <4>2, <4>3
    <3> QED BY <3>2, <3>3, <3>4
  <2>11. before \o after \in Seq(Words)
    BY <2>8, <2>9
  <2> QED BY <2>4, <2>10, <2>11
<1> QED BY <1>1, <1>2

(* The greatest of the numbers up to n is one of them.                     *)
LEMMA MaxIsOne ==
    ASSUME NEW n \in Nat, NEW S \in SUBSET (1 .. n), S # {}
    PROVE  Max(S) \in S
<1> DEFINE T == {n - m : m \in S}
<1>1. T \in SUBSET Nat /\ T # {}
  <2>1. \A m \in 1 .. n : n - m \in Nat
    OBVIOUS
  <2>2. PICK m : m \in S
    OBVIOUS
  <2>3. n - m \in T
    BY <2>2
  <2>4. \A k \in S : n - k \in Nat
    BY <2>1
  <2> QED BY <2>3, <2>4
<1>2. PICK t \in T : \A u \in T : t <= u
  BY <1>1, LeastNumber
<1>3. PICK m \in S : t = n - m
  OBVIOUS
<1>4. \A k \in S : m >= k
  <2> SUFFICES ASSUME NEW k \in S PROVE m >= k
    OBVIOUS
  <2>1. n - m <= n - k
    BY <1>2, <1>3
  <2>2. m \in Int /\ k \in Int
    OBVIOUS
  <2> QED BY <2>1, <2>2
<1> QED BY <1>4 DEF Max

(* The model of a description is one word with a digit, and there is one   *)
(* if the description has a word with a digit.                             *)
LEMMA ModelOfDescription ==
    ASSUME PlainLexicon, NEW text \in Seq(Tokens), NEW model, model = SplitDescription(text).model
    PROVE  /\ model = <<>> \/ \E w \in WithDigit : model = <<w>>
           /\ containsDigit(text) => model # <<>>
<1> DEFINE whole == FindBrand(Joined(Fields(text)))
           brand == Fields(whole)
           words == removeBrand(Fields(text), brand)
           digits == {i \in DOMAIN words : words[i] \in WithDigit}
<1>1. model = IF digits = {} THEN <<>> ELSE <<words[Max(digits)]>>
  BY DEF SplitDescription, WithoutBrand, SplitWords, Split
<1>2. whole \in Seq(Tokens) /\ (whole = <<>> \/ whole \in Range(Lexicon))
  <2>1. <<>> \in Seq(Tokens)
    OBVIOUS
  <2> QED BY <2>1, BrandIsListed
<1>3. brand \in Seq(Words) /\ \A k \in DOMAIN brand : \E i \in DOMAIN whole : brand[k] = whole[i]
  <2> HIDE DEF whole
  <2> QED BY <1>2, FieldsAreWords
<1>4. \A k \in DOMAIN brand, w \in WithDigit : Lower[brand[k]] # Lower[w]
  <2> HIDE DEF whole, brand
  <2>1. whole = <<>> => \A i : i \notin DOMAIN whole
    OBVIOUS
  <2> QED BY <1>2, <1>3, <2>1 DEF PlainLexicon
<1>5. Fields(text) \in Seq(Words)
  BY FieldsAreWords
<1>6. /\ words \in Seq(Words)
      /\ \A j \in DOMAIN Fields(text) :
            (\A k \in DOMAIN brand : Lower[brand[k]] # Lower[Fields(text)[j]]) =>
               \E k \in DOMAIN words : words[k] = Fields(text)[j]
  <2> HIDE DEF brand
  <2> QED BY <1>3, <1>5, BrandLeavesOthers
<1> HIDE DEF brand, words
<1>7. digits # {} => Max(digits) \in digits
  <2>1. Len(words) \in Nat /\ digits \in SUBSET (1 .. Len(words))
    BY <1>6
  <2> HIDE DEF digits
  <2> QED BY <2>1, MaxIsOne
<1>8. containsDigit(text) => digits # {}
  <2> SUFFICES ASSUME NEW i \in DOMAIN text, text[i] \in WithDigit PROVE digits # {}
    BY DEF containsDigit
  <2>1. text[i] \in Words
    BY DescriptionAssumption DEF DescriptionAssumption
  <2>2. PICK j \in DOMAIN Fields(text) : Fields(text)[j] = text[i]
    BY <2>1, FieldsAreWords
  <2>3. \E k \in DOMAIN words : words[k] = Fields(text)[j]
    BY <1>4, <1>6, <2>2
  <2> QED BY <2>2, <2>3
<1>9. CASE digits = {}
  BY <1>1, <1>8, <1>9
<1>10. CASE digits # {}
  <2>1. words[Max(digits)] \in WithDigit
    BY <1>7, <1>10
  <2> HIDE DEF digits
  <2>2. model = <<words[Max(digits)]>>
    BY <1>1, <1>10
  <2> QED BY <2>1, <2>2
<1> QED BY <1>9, <1>10

(* Not a description with a space and a word with a digit.                 *)
IsModel(text) == ~(hasSpace(text) /\ containsDigit(text))

(* Neither nothing nor one word is.                                        *)
LEMMA WordsAreModels == IsModel(<<>>) /\ \A w \in WithDigit : IsModel(<<w>>)
<1>1. \A w \in WithDigit : w # Space
  BY DescriptionAssumption DEF DescriptionAssumption
<1> QED BY <1>1 DEF IsModel, hasSpace, containsDigit

(* A model after reconciliation is one word, or has no word with a digit   *)
(* or no space: it was split off, or there was nothing with a digit to     *)
(* split off.                                                              *)
LEMMA ReconciledModel ==
    ASSUME PlainLexicon, NEW e, IsRead(e)
    PROVE  IsModel(Resplit(e).model)
<1>1. e.model \in Seq(Tokens) /\ e.name \in Seq(Tokens)
  BY DEF IsRead
<1>2. \A parts : Merged(e, parts).model = Or(parts.model, e.model)
  BY DEF Merged, IsRead, AllFields
<1>3. CASE InModel(e)
  <2>1. PICK parts, model : parts = SplitDescription(e.model) /\ model = parts.model
    OBVIOUS
  <2>2. Resplit(e).model = Or(model, e.model)
    BY <1>2, <1>3, <2>1 DEF Resplit
  <2>3. /\ model = <<>> \/ \E w \in WithDigit : model = <<w>>
        /\ containsDigit(e.model) => model # <<>>
    BY <1>1, <2>1, ModelOfDescription
  <2>4. CASE model = <<>>
    BY <2>2, <2>3, <2>4 DEF Or, IsModel
  <2>5. CASE model # <<>>
    BY <2>2, <2>3, <2>5, WordsAreModels DEF Or
  <2> QED BY <2>4, <2>5
<1>4. CASE ~InModel(e) /\ InName(e)
  <2>1. PICK parts, model : parts = SplitDescription(e.name) /\ model = parts.model
    OBVIOUS
  <2>2. Resplit(e).model = Or(model, <<>>)
    BY <1>2, <1>4, <2>1 DEF Resplit, InName
  <2>3. model = <<>> \/ \E w \in WithDigit : model = <<w>>
    BY <1>1, <2>1, ModelOfDescription
  <2> QED BY <2>2, <2>3, WordsAreModels DEF Or
<1>5. CASE ~InModel(e) /\ ~InName(e)
  BY <1>5 DEF Resplit, InModel, IsModel
<1> QED BY <1>3, <1>4, <1>5

-----------------------------------------------------------------------------
(* The answers that are compared: those of the workers that succeeded.     *)
(* Every answer that counts as one is one of the extractions.              *)
Complete(results) == \A w \in Workers : Succeeded(results[w]) => results[w] \in Extractions

(* No answer says how sure its category is.                                *)
Readable(exts) == \A i \in DOMAIN exts : exts[i] = AllFields(exts[i]) /\ exts[i].categoryConfidence = 0

(* How many are heard is a number.                                         *)
LEMMA HeardAreFinite ==
    ASSUME NEW results
    PROVE  /\ Heard(results) \in SUBSET Nat /\ IsFiniteSet(Heard(results))
           /\ Cardinality(Heard(results)) \in Nat
<1>1. Heard(results) \in SUBSET Workers /\ NWorkers \in Nat
  BY ExtractorAssumption DEF Heard, ExtractorAssumption
<1>2. IsFiniteSet(Workers) /\ Workers \in SUBSET Nat
  BY <1>1, FS_Interval DEF Workers
<1> QED BY <1>1, <1>2, FS_Subset, FS_CardinalityType

(* The list of the answers has each of them once reconciled, and no other. *)
LEMMA HeardInOrder ==
    ASSUME NEW results, Complete(results), NEW exts, exts = Successful(results)
    PROVE  /\ exts \in Seq(Range(exts))
           /\ Len(exts) = Cardinality(Heard(results)) /\ DOMAIN exts = 1 .. Cardinality(Heard(results))
           /\ \A i \in DOMAIN exts : \E w \in Heard(results) :
                 results[w] \in Extractions /\ exts[i] = reconcileIdentity(results[w])
           /\ \A w \in Heard(results) : \E i \in DOMAIN exts : exts[i] = reconcileIdentity(results[w])
           /\ Readable(exts)
<1> DEFINE H == Heard(results)
           list == [w \in H |-> Reconciled(results[w])]
           n == Cardinality(H)
<1>1. H \in SUBSET Nat /\ IsFiniteSet(H) /\ n \in Nat
  BY HeardAreFinite
<1>2. \A w \in H : results[w] \in Extractions /\ list[w] = reconcileIdentity(results[w])
  BY ReconciledIs DEF Complete, Heard
<1>3. exts = [i \in 1 .. n |-> list[Nth(H, i)]]
  BY DEF Successful, Kept
<1> HIDE DEF H, list
<1>4. \A i \in 1 .. n : Nth(H, i) \in H
  BY <1>1, NthProperties
<1>5. \A w \in H : \E i \in 1 .. n : Nth(H, i) = w
  <2> SUFFICES ASSUME NEW w \in H PROVE \E i \in 1 .. n : Nth(H, i) = w
    OBVIOUS
  <2>1. Rank(H, w) \in 1 .. n
    BY <1>1, RankProperties
  <2>2. Nth(H, Rank(H, w)) = w
    BY <1>1, NthProperties
  <2> QED BY <2>1, <2>2
<1>6. DOMAIN exts = 1 .. n /\ \A i \in 1 .. n : exts[i] = list[Nth(H, i)]
  BY <1>3
<1>7. exts \in Seq(Range(exts)) /\ Len(exts) = n
  <2>1. exts \in [1 .. n -> Range(exts)]
    BY <1>3 DEF Range
  <2>2. exts \in Seq(Range(exts))
    BY <1>1, <2>1, SeqDef
  <2>3. DOMAIN exts = 1 .. Len(exts) /\ Len(exts) \in Nat
    BY <2>2
  <2> QED BY <1>1, <1>6, <2>2, <2>3
<1>8. \A i \in DOMAIN exts : \E w \in H :
         results[w] \in Extractions /\ exts[i] = reconcileIdentity(results[w])
  BY <1>2, <1>4, <1>6
<1>9. \A w \in H : \E i \in DOMAIN exts : exts[i] = reconcileIdentity(results[w])
  BY <1>2, <1>5, <1>6
<1>10. Readable(exts)
  <2> SUFFICES ASSUME NEW i \in DOMAIN exts
               PROVE  exts[i] = AllFields(exts[i]) /\ exts[i].categoryConfidence = 0
    BY DEF Readable
  <2>1. PICK w \in H : results[w] \in Extractions /\ exts[i] = reconcileIdentity(results[w])
    BY <1>8
  <2> QED BY <2>1, ExtractionsAreRead, OnlyTextsChange
<1> QED BY <1>6, <1>7, <1>8, <1>9, <1>10 DEF H

(* The first value that is given is one of the values.                     *)
LEMMA FirstIsGiven ==
    ASSUME NEW exts, DOMAIN exts \in SUBSET Nat, NEW f
    PROVE  /\ firstNonEmpty(exts, f) = <<>> => \A i \in DOMAIN exts : exts[i][f] = <<>>
           /\ firstNonEmpty(exts, f) # <<>> => \E i \in DOMAIN exts : firstNonEmpty(exts, f) = exts[i][f]
<1> DEFINE given == {i \in DOMAIN exts : exts[i][f] # <<>>}
<1>1. firstNonEmpty(exts, f) = IF given = {} THEN <<>> ELSE exts[Min(given)][f]
  BY DEF firstNonEmpty
<1>2. given # {} => Min(given) \in given
  <2>1. given \in SUBSET Nat
    OBVIOUS
  <2> HIDE DEF given
  <2> QED BY <2>1, MinIsLeast
<1>3. CASE given = {}
  BY <1>1, <1>3
<1>4. CASE given # {}
  BY <1>1, <1>2, <1>4
<1> QED BY <1>3, <1>4

(* The value of an identity field depends on the values that are given and *)
(* on nothing else.                                                        *)
LEMMA IdentityIsOfTheGiven ==
    ASSUME NEW exts, DOMAIN exts \in SUBSET Nat, NEW f
    PROVE  /\ \A v : Given(exts, f) = {v} => identityValue(exts, f) = v
           /\ ~(\E v : Given(exts, f) = {v}) => identityValue(exts, f) = <<>>
<1> DEFINE G == Given(exts, f)
<1>1. G = {exts[i][f] : i \in DOMAIN exts} \ {<<>>}
  BY DEF Given
<1>2. identityConflict(exts, f) <=> \E v, w \in G : v # w
  BY DEF identityConflict
<1>3. G = {} => firstNonEmpty(exts, f) = <<>>
  BY <1>1, FirstIsGiven
<1>4. G # {} => firstNonEmpty(exts, f) \in G
  BY <1>1, FirstIsGiven
<1>5. identityValue(exts, f) = IF identityConflict(exts, f) THEN <<>> ELSE firstNonEmpty(exts, f)
  BY DEF identityValue
<1> HIDE DEF G
<1>6. ASSUME NEW v, G = {v} PROVE identityValue(exts, f) = v
  BY <1>2, <1>4, <1>5, <1>6
<1>7. ASSUME ~(\E v : G = {v}) PROVE identityValue(exts, f) = <<>>
  <2>1. CASE G = {}
    BY <1>2, <1>3, <1>5, <2>1
  <2>2. CASE G # {}
    <3>1. PICK v : v \in G
      BY <2>2
    <3>2. \E w \in G : w # v
      BY <1>7, <3>1
    <3> QED BY <1>2, <1>5, <3>1, <3>2
  <2> QED BY <2>1, <2>2
<1> QED BY <1>6, <1>7 DEF G

(* The fields on which the answers disagree, and what they agree on.       *)
Unresolved(exts) == {f \in IdentityFields : identityConflict(exts, f)}

Agreed(exts) ==
    [err    |-> "none",
     serial |-> identityValue(exts, "serial"),
     brand  |-> identityValue(exts, "brand"),
     model  |-> identityValue(exts, "model"),
     name   |-> firstNonEmpty(exts, "name"),
     bought |-> firstNonEmpty(exts, "bought"),
     lasts  |-> firstNonEmpty(exts, "lasts"),
     ends   |-> firstNonEmpty(exts, "ends"),
     category |-> firstNonEmpty(exts, "category"),
     categoryConfidence |-> 0,
     class  |-> exts[1].class]

(* No answer, one, and several.                                            *)
LEMMA ConsensusCases ==
    ASSUME NEW T, NEW exts \in Seq(T)
    PROVE  /\ Len(exts) = 0 => ConsensusOf(exts) = Nobody
           /\ Len(exts) = 1 => ConsensusOf(exts) = [ext |-> exts[1], conf |-> 6, unresolved |-> {}]
           /\ Len(exts) > 1 =>
                 ConsensusOf(exts) = [ext |-> Agreed(exts),
                                      conf |-> IF Unresolved(exts) = {} THEN 9 ELSE 5,
                                      unresolved |-> Unresolved(exts)]
<1>1. Len(exts) = 0 <=> exts = <<>>
  OBVIOUS
<1>2. Len(exts) \in Nat
  OBVIOUS
<1>3. ConsensusOf(exts) =
        CASE exts = <<>>   -> Nobody
          [] Len(exts) = 1 -> [ext |-> exts[1], conf |-> 6, unresolved |-> {}]
          [] OTHER         -> [ext |-> Agreed(exts),
                               conf |-> IF Unresolved(exts) = {} THEN 9 ELSE 5,
                               unresolved |-> Unresolved(exts)]
  BY DEF ConsensusOf, Agreed, Unresolved
<1> DEFINE one  == [ext |-> exts[1], conf |-> 6, unresolved |-> {}]
           many == [ext |-> Agreed(exts), conf |-> IF Unresolved(exts) = {} THEN 9 ELSE 5,
                    unresolved |-> Unresolved(exts)]
<1>4. ConsensusOf(exts) =
        CASE exts = <<>> -> Nobody [] Len(exts) = 1 -> one [] OTHER -> many
  BY <1>3
<1> HIDE DEF one, many
<1>5. Len(exts) = 0 => ConsensusOf(exts) = Nobody
  BY <1>1, <1>4
<1>6. Len(exts) = 1 => ConsensusOf(exts) = one
  BY <1>1, <1>4
<1>7. Len(exts) > 1 => ConsensusOf(exts) = many
  <2>1. \A n \in Nat : n > 1 => n # 0 /\ n # 1
    OBVIOUS
  <2> QED BY <1>1, <1>2, <1>4, <2>1
<1>8. Len(exts) = 1 => ConsensusOf(exts) = [ext |-> exts[1], conf |-> 6, unresolved |-> {}]
  BY <1>6 DEF one
<1>9. Len(exts) > 1 =>
        ConsensusOf(exts) = [ext |-> Agreed(exts),
                             conf |-> IF Unresolved(exts) = {} THEN 9 ELSE 5,
                             unresolved |-> Unresolved(exts)]
  BY <1>7 DEF many
<1> QED BY <1>5, <1>8, <1>9

-----------------------------------------------------------------------------
(* The consensus of the answers heard.                                     *)
(* The values given for a field are those of the workers heard.            *)
LEMMA GivenByHeard ==
    ASSUME NEW results, Complete(results), NEW f
    PROVE  Given(Successful(results), f)
             = {reconcileIdentity(results[w])[f] : w \in Heard(results)} \ {<<>>}
<1> DEFINE exts == Successful(results)
<1>1. /\ \A i \in DOMAIN exts : \E w \in Heard(results) : exts[i] = reconcileIdentity(results[w])
      /\ \A w \in Heard(results) : \E i \in DOMAIN exts : exts[i] = reconcileIdentity(results[w])
  BY HeardInOrder
<1> HIDE DEF exts
<1>2. {exts[i][f] : i \in DOMAIN exts} = {reconcileIdentity(results[w])[f] : w \in Heard(results)}
  BY <1>1
<1>3. Given(exts, f) = {exts[i][f] : i \in DOMAIN exts} \ {<<>>}
  BY DEF Given
<1> QED BY <1>2, <1>3 DEF exts

(* By how many were heard.                                                 *)
LEMMA Verdicts ==
    ASSUME NEW results, Complete(results),
           NEW exts, exts = Successful(results),
           NEW n, n = Cardinality(Heard(results))
    PROVE  /\ n \in Nat
           /\ n = 0 => Consensus(results) = Nobody
           /\ n = 1 => Consensus(results) = [ext |-> exts[1], conf |-> 6, unresolved |-> {}]
           /\ n > 1 => Consensus(results) = [ext |-> Agreed(exts),
                                             conf |-> IF Unresolved(exts) = {} THEN 9 ELSE 5,
                                             unresolved |-> Unresolved(exts)]
<1>1. n \in Nat
  BY HeardAreFinite
<1>2. exts \in Seq(Range(exts)) /\ Len(exts) = n
  BY HeardInOrder
<1>3. Consensus(results) = ConsensusOf(exts)
  BY DEF Consensus
<1>4. /\ Len(exts) = 0 => ConsensusOf(exts) = Nobody
      /\ Len(exts) = 1 => ConsensusOf(exts) = [ext |-> exts[1], conf |-> 6, unresolved |-> {}]
      /\ Len(exts) > 1 =>
            ConsensusOf(exts) = [ext |-> Agreed(exts),
                                 conf |-> IF Unresolved(exts) = {} THEN 9 ELSE 5,
                                 unresolved |-> Unresolved(exts)]
  BY <1>2, ConsensusCases
<1> QED BY <1>1, <1>2, <1>3, <1>4

(* The confidence of two is never given to one, nor against one.           *)
LEMMA ConfidenceHasWitnesses ==
    ASSUME NEW results, Complete(results), Consensus(results).conf > 6
    PROVE  /\ Cardinality(Heard(results)) > 1
           /\ \A v, w \in Heard(results), f \in IdentityFields :
                 \/ Reconciled(results[v])[f] = Reconciled(results[w])[f]
                 \/ Reconciled(results[v])[f] = <<>>
                 \/ Reconciled(results[w])[f] = <<>>
<1> DEFINE exts == Successful(results)
           n == Cardinality(Heard(results))
<1>1. /\ n \in Nat
      /\ n = 0 => Consensus(results) = Nobody
      /\ n = 1 => Consensus(results) = [ext |-> exts[1], conf |-> 6, unresolved |-> {}]
      /\ n > 1 => Consensus(results) = [ext |-> Agreed(exts),
                                        conf |-> IF Unresolved(exts) = {} THEN 9 ELSE 5,
                                        unresolved |-> Unresolved(exts)]
  BY Verdicts
<1> HIDE DEF exts, n
<1>2. n # 0
  BY <1>1 DEF Nobody
<1>3. n # 1
  BY <1>1
<1>4. n > 1
  BY <1>1, <1>2, <1>3
<1>5. Unresolved(exts) = {}
  BY <1>1, <1>4
<1>6. ASSUME NEW v \in Heard(results), NEW w \in Heard(results), NEW f \in IdentityFields
      PROVE  \/ Reconciled(results[v])[f] = Reconciled(results[w])[f]
             \/ Reconciled(results[v])[f] = <<>>
             \/ Reconciled(results[w])[f] = <<>>
  <2>1. ~identityConflict(exts, f)
    BY <1>5 DEF Unresolved
  <2>2. \A a, b \in Given(exts, f) : a = b
    BY <2>1 DEF identityConflict
  <2>3. Given(exts, f) = {reconcileIdentity(results[u])[f] : u \in Heard(results)} \ {<<>>}
    BY GivenByHeard DEF exts
  <2>4. /\ Reconciled(results[v]) = reconcileIdentity(results[v])
        /\ Reconciled(results[w]) = reconcileIdentity(results[w])
    BY ReconciledIs DEF Complete, Heard
  <2> QED BY <2>2, <2>3, <2>4
<1> QED BY <1>4, <1>6 DEF n

(* What is not compared is copied from one of the answers.                 *)
Copied == {"bought", "lasts", "ends", "category"}

(* A field that is not compared is one of those read, and absent only when *)
(* it is absent in all; no description passes for a model; and the texts   *)
(* are among those that are classified.                                    *)
LEMMA AgreedIsCopied ==
    ASSUME NEW results, Complete(results), Heard(results) # {}, NEW ext, ext = Consensus(results).ext
    PROVE  /\ ext = AllFields(ext) /\ ext.categoryConfidence = 0
           /\ \A f \in Copied :
                 \/ ext[f] = <<>> /\ \A w \in Heard(results) : results[w][f] = <<>>
                 \/ ext[f] # <<>> /\ \E w \in Heard(results) : ext[f] = results[w][f]
           /\ PlainLexicon => IsModel(ext.model)
           /\ ext.name \in Texts("name") /\ ext.brand \in Texts("brand")
<1> DEFINE exts == Successful(results)
           n == Cardinality(Heard(results))
<1>1. /\ n \in Nat
      /\ n = 1 => Consensus(results) = [ext |-> exts[1], conf |-> 6, unresolved |-> {}]
      /\ n > 1 => Consensus(results) = [ext |-> Agreed(exts),
                                        conf |-> IF Unresolved(exts) = {} THEN 9 ELSE 5,
                                        unresolved |-> Unresolved(exts)]
  BY Verdicts
<1>2. n # 0
  BY HeardAreFinite, FS_EmptySet
<1>3. /\ DOMAIN exts = 1 .. n
      /\ \A i \in DOMAIN exts : \E w \in Heard(results) :
            results[w] \in Extractions /\ exts[i] = reconcileIdentity(results[w])
      /\ \A w \in Heard(results) : \E i \in DOMAIN exts : exts[i] = reconcileIdentity(results[w])
      /\ Readable(exts)
  BY HeardInOrder
<1> HIDE DEF exts, n
<1>4. ASSUME NEW w \in Heard(results), NEW f \in Copied
      PROVE  reconcileIdentity(results[w])[f] = results[w][f]
  <2>1. IsRead(results[w])
    BY ExtractionsAreRead DEF Complete, Heard
  <2> QED BY <2>1, OnlyTextsChange DEF Copied
<1>5. \A i \in DOMAIN exts : PlainLexicon => IsModel(exts[i].model)
  <2> SUFFICES ASSUME NEW i \in DOMAIN exts, PlainLexicon
               PROVE  IsModel(exts[i].model)
    OBVIOUS
  <2>1. PICK w \in Heard(results) : results[w] \in Extractions /\ exts[i] = reconcileIdentity(results[w])
    BY <1>3
  <2>2. exts[i].model = Resplit(results[w]).model
    BY <2>1, ExtractionsAreRead, OnlyTextsChange
  <2> QED BY <2>1, <2>2, ExtractionsAreRead, ReconciledModel
<1>8. ASSUME NEW i \in DOMAIN exts, NEW f PROVE exts[i][f] \in Texts(f)
  <2>1. PICK w \in Heard(results) : results[w] \in Extractions /\ exts[i] = reconcileIdentity(results[w])
    BY <1>3
  <2>2. [raw |-> results[w], ext |-> reconcileIdentity(results[w])] \in Readings
    BY <2>1 DEF Readings
  <2>3. \E r \in Readings : r.ext = reconcileIdentity(results[w])
    BY <2>2
  <2> QED BY <2>1, <2>3 DEF Texts
<1>9. \A f : <<>> \in Texts(f)
  BY DEF Texts
<1>6. CASE n = 1
  <2>1. ext = exts[1] /\ 1 \in DOMAIN exts
    BY <1>1, <1>3, <1>6
  <2>5. ext.name \in Texts("name") /\ ext.brand \in Texts("brand")
    BY <1>8, <2>1
  <2>2. Heard(results) # {} /\ \A w \in Heard(results) : ext = reconcileIdentity(results[w])
    BY <1>3, <1>6, <2>1
  <2>3. \A f \in Copied, w \in Heard(results) : ext[f] = results[w][f]
    BY <1>4, <2>2
  <2>4. ext = AllFields(ext) /\ ext.categoryConfidence = 0
    BY <1>3, <2>1 DEF Readable
  <2> QED BY <1>5, <2>1, <2>2, <2>3, <2>4, <2>5
<1>7. CASE n > 1
  <2>1. ext = Agreed(exts)
    BY <1>1, <1>7
  <2>2. ext = AllFields(ext) /\ ext.categoryConfidence = 0
    BY <2>1 DEF Agreed, AllFields
  <2>3. DOMAIN exts \in SUBSET Nat
    BY <1>1, <1>3
  <2>4. ASSUME NEW f \in Copied
        PROVE  \/ ext[f] = <<>> /\ \A w \in Heard(results) : results[w][f] = <<>>
               \/ ext[f] # <<>> /\ \E w \in Heard(results) : ext[f] = results[w][f]
    <3>1. ext[f] = firstNonEmpty(exts, f)
      BY <2>1 DEF Agreed, Copied
    <3>2. CASE firstNonEmpty(exts, f) = <<>>
      <4>1. \A i \in DOMAIN exts : exts[i][f] = <<>>
        BY <2>3, <3>2, FirstIsGiven
      <4> QED BY <1>3, <1>4, <3>1, <3>2, <4>1
    <3>3. CASE firstNonEmpty(exts, f) # <<>>
      <4>1. PICK i \in DOMAIN exts : firstNonEmpty(exts, f) = exts[i][f]
        BY <2>3, <3>3, FirstIsGiven
      <4>2. PICK w \in Heard(results) : exts[i] = reconcileIdentity(results[w])
        BY <1>3
      <4> QED BY <1>4, <3>1, <3>3, <4>1, <4>2
    <3> QED BY <3>2, <3>3
  <2>5. ASSUME PlainLexicon PROVE IsModel(ext.model)
    <3>1. ext.model = identityValue(exts, "model")
      BY <2>1 DEF Agreed
    <3>2. ext.model = <<>> \/ ext.model = firstNonEmpty(exts, "model")
      BY <3>1 DEF identityValue
    <3>3. CASE ext.model = <<>>
      BY <3>3, WordsAreModels
    <3>4. CASE ext.model # <<>>
      <4>1. \E i \in DOMAIN exts : ext.model = exts[i]["model"]
        BY <2>3, <3>2, <3>4, FirstIsGiven
      <4> QED BY <1>5, <2>5, <4>1
    <3> QED BY <3>3, <3>4
  <2>6. ASSUME NEW f PROVE firstNonEmpty(exts, f) \in Texts(f)
    <3>1. CASE firstNonEmpty(exts, f) = <<>>
      BY <1>9, <3>1
    <3>2. CASE firstNonEmpty(exts, f) # <<>>
      BY <1>8, <2>3, <3>2, FirstIsGiven
    <3> QED BY <3>1, <3>2
  <2>7. ext.name = firstNonEmpty(exts, "name") /\ ext.brand = identityValue(exts, "brand")
    BY <2>1 DEF Agreed
  <2>8. ext.brand = <<>> \/ ext.brand = firstNonEmpty(exts, "brand")
    BY <2>7 DEF identityValue
  <2> QED BY <1>9, <2>2, <2>4, <2>5, <2>6, <2>7, <2>8
<1> QED BY <1>1, <1>2, <1>6, <1>7

-----------------------------------------------------------------------------
(* The order of the workers.                                               *)
(* An order leaves nobody out.                                             *)
LEMMA OrdersAreOnto ==
    ASSUME NEW order \in Orders PROVE \A w \in Workers : \E v \in Workers : order[v] = w
<1>1. order \in Injection(Workers, Workers) /\ order \in [Workers -> Workers]
  BY DEF Orders, Injection
<1>2. IsFiniteSet(Workers)
  BY ExtractorAssumption, FS_Interval DEF ExtractorAssumption, Workers
<1>3. order \in Surjection(Workers, Workers)
  BY <1>1, <1>2, FS_Injection
<1> QED BY <1>3 DEF Surjection

(* What the verdict rests on is the same whoever gave it.                  *)
LEMMA AnyOrderHears ==
    ASSUME NEW results, Complete(results), NEW order \in Orders,
           NEW turned, turned = [w \in Workers |-> results[order[w]]]
    PROVE  /\ Complete(turned)
           /\ Cardinality(Heard(turned)) = Cardinality(Heard(results))
           /\ \A f : Given(Successful(turned), f) = Given(Successful(results), f)
<1>1. order \in [Workers -> Workers] /\ \A v, w \in Workers : order[v] = order[w] => v = w
  BY DEF Orders, IsInjective
<1>2. \A w \in Workers : turned[w] = results[order[w]]
  OBVIOUS
<1>3. Heard(turned) = {w \in Workers : order[w] \in Heard(results)}
  BY <1>1, <1>2 DEF Heard
<1>4. Complete(turned)
  BY <1>1, <1>2 DEF Complete
<1>5. \A w \in Heard(results) : \E v \in Heard(turned) : order[v] = w
  BY <1>3, OrdersAreOnto DEF Heard
<1>6. Cardinality(Heard(turned)) = Cardinality(Heard(results))
  <2> DEFINE map == [w \in Heard(turned) |-> order[w]]
  <2>1. map \in [Heard(turned) -> Heard(results)]
    BY <1>3
  <2>2. IsInjective(map)
    BY <1>1, <1>3 DEF IsInjective
  <2>3. \A w \in Heard(results) : \E v \in Heard(turned) : map[v] = w
    BY <1>5
  <2>4. map \in Bijection(Heard(turned), Heard(results))
    BY <2>1, <2>2, <2>3 DEF Bijection, Injection, Surjection
  <2>5. ExistsBijection(Heard(turned), Heard(results))
    BY <2>4 DEF ExistsBijection
  <2> QED BY <2>5, HeardAreFinite, FS_Bijection
<1>7. ASSUME NEW f PROVE Given(Successful(turned), f) = Given(Successful(results), f)
  <2>1. {reconcileIdentity(turned[w])[f] : w \in Heard(turned)}
          = {reconcileIdentity(results[w])[f] : w \in Heard(results)}
    <3>1. \A w \in Heard(turned) : turned[w] = results[order[w]] /\ order[w] \in Heard(results)
      BY <1>2, <1>3
    <3> QED BY <1>5, <3>1
  <2>2. Given(Successful(turned), f)
          = {reconcileIdentity(turned[w])[f] : w \in Heard(turned)} \ {<<>>}
    BY <1>4, GivenByHeard
  <2>3. Given(Successful(results), f)
          = {reconcileIdentity(results[w])[f] : w \in Heard(results)} \ {<<>>}
    BY GivenByHeard
  <2> QED BY <2>1, <2>2, <2>3
<1> QED BY <1>4, <1>6, <1>7

(* The same values give the same identity.                                 *)
LEMMA SameGivenDecides ==
    ASSUME NEW exts, NEW others, NEW n \in Nat, DOMAIN exts = 1 .. n, DOMAIN others = 1 .. n,
           \A f : Given(others, f) = Given(exts, f), NEW f
    PROVE  /\ n = 1 => exts[1][f] = others[1][f]
           /\ identityConflict(exts, f) <=> identityConflict(others, f)
           /\ identityValue(exts, f) = identityValue(others, f)
<1>1. ASSUME n = 1 PROVE exts[1][f] = others[1][f]
  <2>1. DOMAIN exts = {1} /\ DOMAIN others = {1}
    BY <1>1
  <2> DEFINE a == exts[1][f]
             b == others[1][f]
  <2>2. {exts[i][f] : i \in DOMAIN exts} = {a} /\ {others[i][f] : i \in DOMAIN others} = {b}
    BY <2>1
  <2>3. Given(exts, f) = {a} \ {<<>>} /\ Given(others, f) = {b} \ {<<>>}
    BY <2>2 DEF Given
  <2>4. {a} \ {<<>>} = {b} \ {<<>>}
    BY <2>3
  <2> HIDE DEF a, b
  <2>5. a = b
    BY <2>4
  <2> QED BY <2>5 DEF a, b
<1>2. identityConflict(exts, f) <=> identityConflict(others, f)
  BY DEF identityConflict
<1>3. DOMAIN exts \in SUBSET Nat /\ DOMAIN others \in SUBSET Nat
  OBVIOUS
<1>4. CASE \E v : Given(exts, f) = {v}
  <2>1. PICK v : Given(exts, f) = {v}
    BY <1>4
  <2>2. identityValue(exts, f) = v
    BY <1>3, <2>1, IdentityIsOfTheGiven
  <2>3. Given(others, f) = {v}
    BY <2>1
  <2>4. identityValue(others, f) = v
    BY <1>3, <2>3, IdentityIsOfTheGiven
  <2> QED BY <1>1, <1>2, <2>2, <2>4
<1>5. CASE ~(\E v : Given(exts, f) = {v})
  <2>1. ~(\E v : Given(others, f) = {v})
    BY <1>5
  <2>2. identityValue(exts, f) = <<>> /\ identityValue(others, f) = <<>>
    BY <1>3, <1>5, <2>1, IdentityIsOfTheGiven
  <2> QED BY <1>1, <1>2, <2>2
<1> QED BY <1>4, <1>5

(* The verdict is the same in every order.                                 *)
LEMMA AnyOrderDecides ==
    ASSUME NEW results, Complete(results), NEW order \in Orders,
           NEW turned, turned = [w \in Workers |-> results[order[w]]],
           NEW c, c = Consensus(results), NEW d, d = Consensus(turned)
    PROVE  SameVerdict(c, d)
<1>1. PICK exts, others, n : /\ exts = Successful(results) /\ others = Successful(turned)
                             /\ n = Cardinality(Heard(results))
  OBVIOUS
<1>2. /\ Complete(turned) /\ Cardinality(Heard(turned)) = n
      /\ \A f : Given(others, f) = Given(exts, f)
  BY <1>1, AnyOrderHears
<1>3. DOMAIN exts = 1 .. n /\ DOMAIN others = 1 .. n /\ n \in Nat
  BY <1>1, <1>2, HeardInOrder, HeardAreFinite
<1>4. /\ n = 0 => c = Nobody
      /\ n = 1 => c = [ext |-> exts[1], conf |-> 6, unresolved |-> {}]
      /\ n > 1 => c = [ext |-> Agreed(exts), conf |-> IF Unresolved(exts) = {} THEN 9 ELSE 5,
                       unresolved |-> Unresolved(exts)]
  BY <1>1, Verdicts
<1>5. /\ n = 0 => d = Nobody
      /\ n = 1 => d = [ext |-> others[1], conf |-> 6, unresolved |-> {}]
      /\ n > 1 => d = [ext |-> Agreed(others), conf |-> IF Unresolved(others) = {} THEN 9 ELSE 5,
                       unresolved |-> Unresolved(others)]
  BY <1>1, <1>2, Verdicts
<1>6. \A f : /\ n = 1 => exts[1][f] = others[1][f]
             /\ identityConflict(exts, f) <=> identityConflict(others, f)
             /\ identityValue(exts, f) = identityValue(others, f)
  BY <1>2, <1>3, SameGivenDecides
<1>7. CASE n = 0
  BY <1>4, <1>5, <1>7 DEF SameVerdict
<1>8. CASE n = 1
  <2>1. /\ c.conf = 6 /\ c.unresolved = {} /\ c.ext = exts[1]
        /\ d.conf = 6 /\ d.unresolved = {} /\ d.ext = others[1]
    BY <1>4, <1>5, <1>8
  <2> QED BY <1>6, <1>8, <2>1 DEF SameVerdict
<1>9. CASE n > 1
  <2>1. Unresolved(exts) = Unresolved(others)
    BY <1>6 DEF Unresolved
  <2>2. \A f \in IdentityFields : Agreed(exts)[f] = identityValue(exts, f)
                                  /\ Agreed(others)[f] = identityValue(others, f)
    BY DEF Agreed, IdentityFields
  <2>3. c.conf = d.conf /\ c.unresolved = d.unresolved /\ c.ext = Agreed(exts) /\ d.ext = Agreed(others)
    BY <1>4, <1>5, <1>9, <2>1
  <2> QED BY <1>6, <2>2, <2>3 DEF SameVerdict
<1> QED BY <1>3, <1>7, <1>8, <1>9

-----------------------------------------------------------------------------
(* What is derived of the product.                                         *)
Derived(ext) == WithCategory(WithWarranty(ext))

(* The category that is inferred, and how sure that is.                    *)
Kind(ext)     == InferCategory(ext.category, classifyCategory(<<ext.name, ext.brand>>))[1]
Sureness(ext) == InferCategory(ext.category, classifyCategory(<<ext.name, ext.brand>>))[2]

(* Only the end of the warranty and the category are derived.              *)
LEMMA DerivedIs ==
    ASSUME NEW ext, ext = AllFields(ext), NEW derived, derived = Derived(ext)
    PROVE  /\ derived.serial = ext.serial
           /\ derived.model = ext.model /\ derived.name = ext.name /\ derived.brand = ext.brand
           /\ derived.ends = WarrantyEnd(<<ext.bought, ext.lasts, ext.ends>>)
           /\ derived.category = Kind(ext) /\ derived.categoryConfidence = Sureness(ext)
<1> DEFINE end == WarrantyEnd(<<ext.bought, ext.lasts, ext.ends>>)
           dated == WithWarranty(ext)
<1>1. dated = [ext EXCEPT !.ends = end]
  BY DEF WithWarranty
<1> HIDE DEF end, dated
<1>2. /\ dated.ends = end /\ dated = AllFields(dated) /\ dated.serial = ext.serial
      /\ dated.model = ext.model /\ dated.name = ext.name /\ dated.brand = ext.brand
      /\ dated.category = ext.category
  BY <1>1 DEF AllFields
<1>3. derived = [dated EXCEPT !.category = Kind(ext), !.categoryConfidence = Sureness(ext)]
  BY <1>2 DEF Derived, WithCategory, Kind, Sureness, dated
<1>4. derived = [[dated EXCEPT !.category = Kind(ext)] EXCEPT !.categoryConfidence = Sureness(ext)]
  BY <1>3
<1>5. PICK filed : filed = [dated EXCEPT !.category = Kind(ext)]
  OBVIOUS
<1>6. /\ filed.category = Kind(ext) /\ filed = AllFields(filed) /\ filed.ends = end
      /\ filed.serial = ext.serial
      /\ filed.model = ext.model /\ filed.name = ext.name /\ filed.brand = ext.brand
  BY <1>2, <1>5 DEF AllFields
<1>7. derived = [filed EXCEPT !.categoryConfidence = Sureness(ext)]
  BY <1>4, <1>5
<1>8. /\ derived.serial = ext.serial
      /\ derived.model = ext.model /\ derived.name = ext.name /\ derived.brand = ext.brand
      /\ derived.ends = end
      /\ derived.category = Kind(ext) /\ derived.categoryConfidence = Sureness(ext)
  BY <1>6, <1>7 DEF AllFields
<1> QED BY <1>8 DEF end

(* The table of the warranties is the end of each.                         *)
LEMMA WarrantyEndIs ==
    ASSUME NEW a \in Read("bought"), NEW b \in Read("lasts"), NEW c \in Read("ends")
    PROVE  WarrantyEnd(<<a, b, c>>) = AddWarrantyEnd(a, b, c)
<1> DEFINE terms == <<a, b, c>>
           S == Read("bought") \X Read("lasts") \X Read("ends")
<1>1. terms \in S /\ terms[1] = a /\ terms[2] = b /\ terms[3] = c
  OBVIOUS
<1> HIDE DEF terms, S
<1>2. Warranties = {[terms |-> t, end |-> AddWarrantyEnd(t[1], t[2], t[3])] : t \in S}
  BY DEF Warranties, S
<1>3. [terms |-> terms, end |-> AddWarrantyEnd(a, b, c)] \in Warranties
  BY <1>1, <1>2
<1>4. \A w \in Warranties : w.terms = terms => w.end = AddWarrantyEnd(a, b, c)
  BY <1>1, <1>2
<1>5. \E w \in Warranties : w.terms = terms
  BY <1>3
<1>6. WarrantyEnd(terms) = AddWarrantyEnd(a, b, c)
  BY <1>4, <1>5 DEF WarrantyEnd
<1> QED BY <1>6 DEF terms

(* The end of a warranty is one that was read or is counted from what was. *)
EndsOnTime(read, ends) ==
    \/ ends \in {r.ends : r \in read}
    \/ \E sale, terms \in read :
          /\ sale.bought # <<>> /\ terms.lasts # <<>>
          /\ (ends[1] - sale.bought[1]) * 12 + ends[2] - sale.bought[2]
                = terms.lasts[1] * 12 + terms.lasts[2]
          /\ \/ ends[3] = sale.bought[3]
             \/ ends[3] < sale.bought[3] /\ ends[3] = lastDayOfMonth(ends[1], ends[2])
    \/ \E terms \in read : terms.lasts # <<>> /\ terms.lasts[3] > 0

(* So is the one that is derived of the consensus.                         *)
LEMMA DerivedEndsOnTime ==
    ASSUME NEW results, Complete(results), Heard(results) # {},
           NEW ext, ext = Consensus(results).ext, NEW derived, derived = Derived(ext),
           NEW read, read = {results[w] : w \in Heard(results)},
           NEW ends, ends = derived.ends, ends # <<>>
    PROVE  EndsOnTime(read, ends)
<1>1. /\ ext = AllFields(ext)
      /\ \A f \in Copied : ext[f] = <<>> \/ \E w \in Heard(results) : ext[f] = results[w][f]
  BY AgreedIsCopied
<1>2. \A w \in Heard(results) : results[w] \in Extractions /\ IsRead(results[w])
  BY ExtractionsAreRead DEF Complete, Heard
<1>3. /\ ext.bought = <<>> \/ \E r \in read : ext.bought = r.bought
      /\ ext.lasts = <<>> \/ \E r \in read : ext.lasts = r.lasts
      /\ ext.ends = <<>> \/ \E r \in read : ext.ends = r.ends
  BY <1>1 DEF Copied
<1>4. read \in SUBSET Extractions /\ \A r \in read : IsRead(r)
  BY <1>2
<1>5. ext.bought \in Read("bought") /\ ext.lasts \in Read("lasts") /\ ext.ends \in Read("ends")
  BY <1>3, <1>4 DEF Read
<1>6. ends = AddWarrantyEnd(ext.bought, ext.lasts, ext.ends)
  <2>1. ends = WarrantyEnd(<<ext.bought, ext.lasts, ext.ends>>)
    BY <1>1, DerivedIs
  <2> QED BY <1>5, <2>1, WarrantyEndIs
<1>7. ends # <<>>
  OBVIOUS
<1>8. CASE ext.ends # <<>>
  BY <1>3, <1>6, <1>8 DEF AddWarrantyEnd, EndsOnTime
<1>9. CASE ext.ends = <<>>
  <2>1. /\ ext.bought # <<>> /\ parseWarrantyDuration(ext.lasts)
        /\ ends = addWarranty(ext.bought, ext.lasts)
    BY <1>6, <1>7, <1>9 DEF AddWarrantyEnd
  <2>2. PICK sale \in read : ext.bought = sale.bought
    BY <1>3, <2>1
  <2>3. ext.lasts # <<>>
    BY <2>1 DEF parseWarrantyDuration
  <2>4. PICK terms \in read : ext.lasts = terms.lasts
    BY <1>3, <2>3
  <2>5. IsDate(sale.bought) /\ terms.lasts \in Nat \X Nat \X Nat
    BY <1>4, <2>1, <2>2, <2>3, <2>4 DEF IsRead
  <2>6. PICK years, months, days \in Nat : terms.lasts = <<years, months, days>>
    BY <2>5
  <2>7. terms.lasts[1] = years /\ terms.lasts[2] = months /\ terms.lasts[3] = days
    BY <2>6
  <2>8. CASE days > 0
    BY <2>3, <2>4, <2>7, <2>8 DEF EndsOnTime
  <2>9. CASE ~(days > 0)
    <3>1. terms.lasts[3] = 0
      BY <2>7, <2>9
    <3>2. PICK span, end, date : /\ span = years * 12 + months /\ date = sale.bought
                                 /\ end = AddMonths(date, span)
      OBVIOUS
    <3>3. Months(terms.lasts) = span /\ span \in Nat
      BY <2>7, <3>2 DEF Months
    <3> HIDE DEF IsDate
    <3>4. IsDate(end) /\ MonthsFrom(date, end, span)
      BY <2>5, <3>2, <3>3, MonthsLater
    <3>5. addWarranty(ext.bought, ext.lasts) = AddDays(end, 0)
      BY <2>2, <2>4, <3>1, <3>2, <3>3 DEF addWarranty
    <3>6. ends = end
      BY <2>1, <3>4, <3>5, NoDaysLater
    <3> QED BY <2>1, <2>2, <2>3, <2>4, <2>7, <3>2, <3>4, <3>6 DEF EndsOnTime, MonthsFrom
  <2> QED BY <2>8, <2>9
<1> QED BY <1>8, <1>9

-----------------------------------------------------------------------------
(* The table of the labels has the entries for each.                       *)
LEMMA MatchesAre ==
    ASSUME NEW name \in Texts("name"), NEW brand \in Texts("brand")
    PROVE  Matches(<<name, brand>>) = Matching(CategoryText(name, brand))
<1> DEFINE label == <<name, brand>>
           S == Texts("name") \X Texts("brand")
<1>1. label \in S /\ label[1] = name /\ label[2] = brand
  OBVIOUS
<1> HIDE DEF label, S
<1>2. Labels = {[label |-> l, entries |-> Matching(CategoryText(l[1], l[2]))] : l \in S}
  BY DEF Labels, S
<1>3. [label |-> label, entries |-> Matching(CategoryText(name, brand))] \in Labels
  BY <1>1, <1>2
<1>4. \A l \in Labels : l.label = label => l.entries = Matching(CategoryText(name, brand))
  BY <1>1, <1>2
<1>5. \E l \in Labels : l.label = label
  BY <1>3
<1>6. Matches(label) = Matching(CategoryText(name, brand))
  BY <1>4, <1>5 DEF Matches
<1> QED BY <1>6 DEF label

(* The categories with a keyword in the text.                              *)
Known(text) == {Keywords[i][1] : i \in Matching(text)}

(* The classifier names a category it has a keyword for in the text, and   *)
(* none only when it has no keyword of any category.                       *)
LEMMA Classified ==
    ASSUME NEW name \in Texts("name"), NEW brand \in Texts("brand"),
           NEW text, text = CategoryText(name, brand),
           NEW classified, classified = classifyCategory(<<name, brand>>)
    PROVE  \/ classified = <<>> /\ Known(text) = {}
           \/ classified \in Categories /\ classified \in Known(text)
<1> DEFINE matching == Matching(text)
<1>1. /\ classified = IF matching = {} THEN <<>> ELSE Keywords[Min(matching)][1]
      /\ Known(text) = {Keywords[i][1] : i \in matching}
  BY MatchesAre DEF classifyCategory, Known
<1>2. matching \in SUBSET (DOMAIN Keywords) /\ DOMAIN Keywords \in SUBSET Nat
  BY ExtractorAssumption DEF Matching, ExtractorAssumption
<1> HIDE DEF matching
<1>3. CASE matching = {}
  BY <1>1, <1>3
<1>4. CASE matching # {}
  <2>1. PICK i \in matching : i = Min(matching)
    BY <1>2, <1>4, MinIsLeast
  <2>2. Keywords[i] \in Range(Keywords)
    BY <1>2 DEF Range
  <2>3. Keywords[i][1] \in Categories
    BY <2>2, ExtractorAssumption DEF ExtractorAssumption
  <2> QED BY <1>1, <1>4, <2>1, <2>3
<1> QED BY <1>3, <1>4

(* The category read wins, and nothing is lost.                            *)
LEMMA Inferred ==
    ASSUME NEW a, NEW b
    PROVE  /\ a # <<>> => InferCategory(a, b) = <<a, IF a = b THEN 9 ELSE 6>>
           /\ a = <<>> /\ b # <<>> => InferCategory(a, b) = <<b, 6>>
           /\ a = <<>> /\ b = <<>> => InferCategory(a, b) = << <<"other">>, 5>>
<1>1. CASE a # <<>> /\ a = b
  BY <1>1 DEF InferCategory
<1>2. CASE a # <<>> /\ a # b
  BY <1>2 DEF InferCategory
<1>3. CASE a = <<>> /\ b # <<>>
  BY <1>3 DEF InferCategory
<1>4. CASE a = <<>> /\ b = <<>>
  BY <1>4 DEF InferCategory
<1> QED BY <1>1, <1>2, <1>3, <1>4

(* What the category of an extraction owes to those who read one.          *)
IsHeard(results, ext) ==
    LET heard == {results[w].category : w \in Heard(results)} \intersect Categories
        known == {Keywords[i][1] : i \in Matching(CategoryText(ext.name, ext.brand))}
    IN  /\ ext.category \in Categories
        /\ heard # {} => ext.category \in heard
        /\ ext.categoryConfidence = 9 => ext.category \in heard \intersect known
        /\ ext.categoryConfidence = 5 => heard = {} /\ known = {} /\ ext.category = <<"other">>

(* The category that is derived of the consensus owes it.                  *)
LEMMA DerivedIsHeard ==
    ASSUME NEW results, Complete(results), Heard(results) # {},
           NEW ext, ext = Consensus(results).ext, NEW derived, derived = Derived(ext)
    PROVE  IsHeard(results, derived)
<1> DEFINE heard == {results[w].category : w \in Heard(results)} \intersect Categories
           known == Known(CategoryText(ext.name, ext.brand))
<1>1. PICK read, classified : read = ext.category /\ classified = classifyCategory(<<ext.name, ext.brand>>)
  OBVIOUS
<1>2. /\ ext = AllFields(ext)
      /\ \/ read = <<>> /\ \A w \in Heard(results) : results[w].category = <<>>
         \/ read # <<>> /\ \E w \in Heard(results) : read = results[w].category
  <2>1. \/ ext["category"] = <<>> /\ \A w \in Heard(results) : results[w]["category"] = <<>>
        \/ ext["category"] # <<>> /\ \E w \in Heard(results) : ext["category"] = results[w]["category"]
    BY AgreedIsCopied DEF Copied
  <2> QED BY <1>1, <2>1, AgreedIsCopied
<1>3. \A w \in Heard(results) : results[w].category = <<>> \/ results[w].category \in Categories
  BY ExtractionsAreRead DEF Complete, Heard, IsRead
<1>4. /\ derived.name = ext.name /\ derived.brand = ext.brand
      /\ derived.category = InferCategory(read, classified)[1]
      /\ derived.categoryConfidence = InferCategory(read, classified)[2]
  <2>1. /\ derived.name = ext.name /\ derived.brand = ext.brand
        /\ derived.category = Kind(ext) /\ derived.categoryConfidence = Sureness(ext)
    BY <1>2, DerivedIs
  <2> QED BY <1>1, <2>1 DEF Kind, Sureness
<1>5. \/ classified = <<>> /\ known = {}
      \/ classified \in Categories /\ classified \in known
  <2>1. ext.name \in Texts("name") /\ ext.brand \in Texts("brand")
    BY AgreedIsCopied
  <2> QED BY <1>1, <2>1, Classified
<1>6. <<>> \notin Categories /\ <<"other">> \in Categories
  BY ExtractorAssumption DEF ExtractorAssumption
<1> HIDE DEF known
<1> SUFFICES /\ derived.category \in Categories
             /\ heard # {} => derived.category \in heard
             /\ derived.categoryConfidence = 9 => derived.category \in heard /\ derived.category \in known
             /\ derived.categoryConfidence = 5 => heard = {} /\ known = {} /\ derived.category = <<"other">>
  BY <1>4 DEF IsHeard, known, Known
<1>7. CASE read # <<>>
  <2>1. read \in heard
    BY <1>2, <1>3, <1>7
  <2>2. derived.category = read /\ derived.categoryConfidence = IF read = classified THEN 9 ELSE 6
    BY <1>4, <1>7, Inferred
  <2> HIDE DEF heard
  <2>3. read \in Categories
    BY <2>1 DEF heard
  <2>4. derived.categoryConfidence = 9 => read \in known
    BY <1>5, <1>7, <2>2
  <2>5. derived.categoryConfidence # 5
    BY <2>2
  <2> QED BY <2>1, <2>2, <2>3, <2>4, <2>5
<1>8. CASE read = <<>>
  <2>1. heard = {}
    <3>1. \A w \in Heard(results) : results[w].category = <<>>
      BY <1>2, <1>3, <1>6, <1>8
    <3> QED BY <1>6, <3>1
  <2> HIDE DEF heard
  <2>2. CASE classified # <<>>
    <3>1. derived.category = classified /\ derived.categoryConfidence = 6
      BY <1>4, <1>8, <2>2, Inferred
    <3> QED BY <1>5, <2>1, <2>2, <3>1
  <2>3. CASE classified = <<>>
    <3>1. derived.category = <<"other">> /\ derived.categoryConfidence = 5
      BY <1>4, <1>8, <2>3, Inferred
    <3> QED BY <1>5, <1>6, <2>1, <2>3, <3>1
  <2> QED BY <2>2, <2>3
<1> QED BY <1>7, <1>8

-----------------------------------------------------------------------------
(* The invariant of a request.                                             *)
(* What a worker may leave in its slot.                                    *)
Slots == {ParseExtraction(answer) : answer \in Answers}
           \cup {[err |-> "transport"], [err |-> "timeout"]}

(* A slot is empty or holds what its worker made of it.                    *)
SlotsOK(ph, results) ==
    /\ results \in [Workers -> Slots \cup {None}]
    /\ ph # "extract" => \A w \in Workers : results[w] # None

(* Past the deadline a request is on its way to a reviewer.                *)
DeadlineOK(ph, context, answer) ==
    /\ ph \in {"extract", "consensus", "commit", "hold", "done"}
    /\ answer # "none" => ph = "done"
    /\ context = "deadline" =>
          ph \in {"extract", "consensus", "hold"} \/ answer \in {"held", "error"}

(* A consensus with what is derived of it.                                 *)
WithDerived(c) == [c EXCEPT !.ext = Derived(@)]

(* What is agreed is the consensus c of the slots, with what is derived of *)
(* it once it is to be committed or was.                                   *)
AgreedOK(ph, some, c, verdict, answer) ==
    /\ ph = "extract" => verdict = Nobody
    /\ ph = "consensus" => verdict = c
    /\ ph \in {"commit", "hold", "done"} => verdict = c \/ (some /\ verdict = WithDerived(c))
    /\ ph = "commit" \/ answer = "committed" =>
          verdict = WithDerived(c) /\ some /\ c.conf >= Threshold

IInv ==
    /\ SlotsOK(phase, result)
    /\ DeadlineOK(phase, ctx, outcome)
    /\ AgreedOK(phase, Heard(result) # {}, Consensus(result), agreed, outcome)

(* The first request.                                                      *)
LEMMA Starts == ASSUME Init PROVE IInv
BY DEF Init, IInv, SlotsOK, DeadlineOK, AgreedOK

(* A slot is filled.                                                       *)
LEMMA FillsSlot ==
    ASSUME IInv, NEW w \in Workers, NEW r \in Slots, Open(w), result' = [result EXCEPT ![w] = r]
    PROVE  IInv'
<1>1. /\ phase = "extract" /\ phase' = phase /\ late' = late /\ ctx' = ctx
      /\ outcome' = outcome /\ agreed' = agreed
  BY DEF Open
<1>2. SlotsOK(phase', result')
  BY <1>1 DEF IInv, SlotsOK
<1>3. DeadlineOK(phase', ctx', outcome')
  BY <1>1 DEF IInv
<1>4. AgreedOK(phase', Heard(result') # {}, Consensus(result'), agreed', outcome')
  BY <1>1 DEF IInv, AgreedOK, DeadlineOK
<1> QED BY <1>2, <1>3, <1>4 DEF IInv

(* What a worker leaves is one of the slots.                               *)
LEMMA SlotsOfWorkers ==
    /\ \A answer \in Answers : ParseExtraction(answer) \in Slots
    /\ [err |-> "transport"] \in Slots /\ [err |-> "timeout"] \in Slots
BY DEF Slots

(* While the slots stay as they are.                                       *)
LEMMA SlotsStay ==
    ASSUME IInv, result' = result,
           SlotsOK(phase', result),
           DeadlineOK(phase', ctx', outcome'),
           AgreedOK(phase', Heard(result) # {}, Consensus(result), agreed', outcome')
    PROVE  IInv'
BY DEF IInv

(* Every step keeps the invariant.                                         *)
LEMMA Moves == ASSUME IInv, Next PROVE IInv'
<1>1. ASSUME NEW w \in Workers, Worker(w) PROVE IInv'
  <2>1. ASSUME NEW answer \in Answers, Answered(w, answer) PROVE IInv'
    BY <2>1, SlotsOfWorkers, FillsSlot DEF Answered
  <2>2. CASE ChatFails(w)
    BY <2>2, SlotsOfWorkers, FillsSlot DEF ChatFails
  <2>3. CASE ChatTimesOut(w)
    BY <2>3, SlotsOfWorkers, FillsSlot DEF ChatTimesOut
  <2>4. CASE WorkerDeadline(w)
    BY <2>4, SlotsStay DEF WorkerDeadline, IInv, SlotsOK
  <2> QED BY <1>1, <2>1, <2>2, <2>3, <2>4 DEF Worker
<1>2. CASE ProcessDeadline
  <2>1. SlotsOK(phase', result)
    BY <1>2 DEF ProcessDeadline, IInv, SlotsOK
  <2>2. DeadlineOK(phase', ctx', outcome')
    BY <1>2 DEF ProcessDeadline, IInv, DeadlineOK
  <2> QED BY <1>2, <2>1, <2>2, SlotsStay DEF ProcessDeadline, IInv
<1>3. CASE ClientLeaves
  <2>1. SlotsOK(phase', result)
    BY <1>3 DEF ClientLeaves, IInv, SlotsOK
  <2>2. DeadlineOK(phase', ctx', outcome')
    BY <1>3 DEF ClientLeaves, IInv, DeadlineOK
  <2> QED BY <1>3, <2>1, <2>2, SlotsStay DEF ClientLeaves, IInv
<1>4. CASE Gather
  <2>1. SlotsOK(phase', result)
    BY <1>4 DEF Gather, IInv, SlotsOK
  <2>2. DeadlineOK(phase', ctx', outcome')
    BY <1>4 DEF Gather, IInv, DeadlineOK
  <2>3. outcome' = "none"
    BY <1>4 DEF Gather, IInv, DeadlineOK
  <2>4. AgreedOK(phase', Heard(result) # {}, Consensus(result), agreed', outcome')
    BY <1>4, <2>3 DEF Gather, AgreedOK
  <2> QED BY <1>4, <2>1, <2>2, <2>4, SlotsStay DEF Gather
<1>5. CASE Decide
  <2>1. phase = "consensus" /\ result' = result /\ late' = late /\ ctx' = ctx
    BY <1>5 DEF Decide
  <2>2. agreed = Consensus(result) /\ outcome = "none"
    BY <2>1 DEF IInv, AgreedOK, DeadlineOK
  <2>3. \/ ctx = "deadline" /\ GoTo("hold") /\ agreed' = agreed
        \/ ctx # "deadline" /\ Leave("failed")
        \/ ctx # "deadline" /\ Leave("statement")
        \/ ctx # "deadline" /\ ~allFailed /\ agreed.conf >= Threshold /\ Derive("commit")
        \/ ctx # "deadline" /\ ~allFailed /\ Derive("hold")
    BY <1>5 DEF Decide, Decision
  <2>4. ASSUME NEW next \in {"commit", "hold"}, ctx # "deadline", ~allFailed, Derive(next),
               next = "commit" => agreed.conf >= Threshold
        PROVE  IInv'
    <3>1. phase' = next /\ outcome' = "none" /\ agreed' = WithDerived(Consensus(result))
      BY <2>2, <2>4 DEF Derive, GoTo, WithDerived, Derived
    <3>2. SlotsOK(phase', result)
      BY <2>1, <2>4, <3>1 DEF IInv, SlotsOK
    <3>3. DeadlineOK(phase', ctx', outcome')
      BY <2>1, <2>4, <3>1 DEF IInv, DeadlineOK
    <3>4. AgreedOK(phase', Heard(result) # {}, Consensus(result), agreed', outcome')
      BY <2>2, <2>4, <3>1 DEF AgreedOK, allFailed
    <3> QED BY <2>1, <3>2, <3>3, <3>4, SlotsStay
  <2>5. ASSUME NEW kind \in {"failed", "statement"}, ctx # "deadline", Leave(kind) PROVE IInv'
    <3>1. phase' = "done" /\ outcome' = kind /\ agreed' = Consensus(result)
      BY <2>2, <2>5 DEF Leave, Answer
    <3>2. SlotsOK(phase', result)
      BY <2>1, <3>1 DEF IInv, SlotsOK
    <3>3. DeadlineOK(phase', ctx', outcome')
      BY <2>1, <2>5, <3>1 DEF IInv, DeadlineOK
    <3>4. AgreedOK(phase', Heard(result) # {}, Consensus(result), agreed', outcome')
      BY <2>5, <3>1 DEF AgreedOK
    <3> QED BY <2>1, <3>2, <3>3, <3>4, SlotsStay
  <2>6. CASE ctx = "deadline" /\ GoTo("hold") /\ agreed' = agreed
    <3>1. phase' = "hold" /\ outcome' = "none" /\ agreed' = Consensus(result)
      BY <2>2, <2>6 DEF GoTo
    <3>2. SlotsOK(phase', result)
      BY <2>1, <3>1 DEF IInv, SlotsOK
    <3>3. DeadlineOK(phase', ctx', outcome')
      BY <2>1, <3>1 DEF IInv, DeadlineOK
    <3>4. AgreedOK(phase', Heard(result) # {}, Consensus(result), agreed', outcome')
      BY <3>1 DEF AgreedOK
    <3> QED BY <2>1, <3>2, <3>3, <3>4, SlotsStay
  <2> QED BY <2>3, <2>4, <2>5, <2>6
<1>6. CASE Commit
  <2>1. phase = "commit" /\ result' = result /\ late' = late /\ ctx' = ctx /\ agreed' = agreed
    BY <1>6 DEF Commit
  <2>2. \/ phase' = "done" /\ outcome' \in {"committed", "error"}
        \/ phase' = "hold" /\ outcome' = outcome
    BY <1>6 DEF Commit, Answer, GoTo
  <2>3. outcome = "none" /\ ctx # "deadline"
    BY <2>1 DEF IInv, DeadlineOK
  <2>4. SlotsOK(phase', result)
    BY <2>1, <2>2 DEF IInv, SlotsOK
  <2>5. DeadlineOK(phase', ctx', outcome')
    BY <2>1, <2>2, <2>3 DEF IInv, DeadlineOK
  <2>6. AgreedOK(phase', Heard(result) # {}, Consensus(result), agreed', outcome')
    BY <2>1, <2>2, <2>3 DEF IInv, AgreedOK
  <2> QED BY <2>1, <2>4, <2>5, <2>6, SlotsStay
<1>7. CASE Hold
  <2>1. phase = "hold" /\ result' = result /\ late' = late /\ ctx' = ctx /\ agreed' = agreed
    BY <1>7 DEF Hold
  <2>2. phase' = "done" /\ outcome' \in {"held", "error"}
    BY <1>7 DEF Hold, Answer
  <2>3. SlotsOK(phase', result)
    BY <2>1, <2>2 DEF IInv, SlotsOK
  <2>4. DeadlineOK(phase', ctx', outcome')
    BY <2>1, <2>2 DEF IInv, DeadlineOK
  <2>5. AgreedOK(phase', Heard(result) # {}, Consensus(result), agreed', outcome')
    BY <2>1, <2>2 DEF IInv, AgreedOK
  <2> QED BY <2>1, <2>3, <2>4, <2>5, SlotsStay
<1>8. CASE Receive
  BY <1>8 DEF Receive, IInv, SlotsOK, DeadlineOK, AgreedOK
<1> QED BY <1>1, <1>2, <1>3, <1>4, <1>5, <1>6, <1>7, <1>8 DEF Next

(* So does none.                                                           *)
LEMMA Stutters == ASSUME IInv, UNCHANGED vars PROVE IInv'
BY DEF vars, IInv

(* It holds of every request.                                              *)
LEMMA RequestInvariant == Spec => []IInv
<1>1. IInv /\ [Next]_vars => IInv'
  BY Moves, Stutters
<1> QED BY <1>1, Starts, PTL DEF Spec

(* Once the workers have returned every answer is there.                   *)
LEMMA SlotsAreComplete ==
    ASSUME IInv, phase # "extract" PROVE Complete(result)
<1> SUFFICES ASSUME NEW w \in Workers, result[w].err = "none" PROVE result[w] \in Extractions
  BY DEF Complete, Succeeded
<1>1. result[w] \in Slots
  BY DEF IInv, SlotsOK
<1>2. result[w] # [err |-> "transport"] /\ result[w] # [err |-> "timeout"]
  OBVIOUS
<1>3. result[w] \in {ParseExtraction(answer) : answer \in Answers}
  BY <1>1, <1>2 DEF Slots
<1> QED BY <1>3 DEF Extractions, Succeeded

-----------------------------------------------------------------------------
(* What follows of a request.                                              *)

(* What is past its deadline is never committed (Process, step 7).         *)
THEOREM TheLateAreHeld == Spec => []LateIsHeld
<1>1. IInv => LateIsHeld
  BY DEF IInv, DeadlineOK, LateIsHeld
<1> QED BY <1>1, RequestInvariant, PTL

(* Two answers at least that agree stand behind every commit (consensus).  *)
THEOREM NobodyCommitsAlone == Spec => []CommitHasTwoWitnesses
<1>1. ASSUME IInv PROVE CommitHasTwoWitnesses
  <2> SUFFICES ASSUME Threshold > 6, phase = "commit" \/ outcome = "committed"
               PROVE  /\ Cardinality(Heard(result)) > 1
                      /\ \A v, w \in Heard(result), f \in IdentityFields :
                            \/ Reconciled(result[v])[f] = Reconciled(result[w])[f]
                            \/ Reconciled(result[v])[f] = <<>>
                            \/ Reconciled(result[w])[f] = <<>>
    BY DEF CommitHasTwoWitnesses
  <2>1. phase # "extract" /\ Consensus(result).conf >= Threshold
    BY <1>1 DEF IInv, DeadlineOK, AgreedOK
  <2>2. Complete(result)
    BY <1>1, <2>1, SlotsAreComplete
  <2>3. Threshold \in 0 .. 10
    BY ExtractorAssumption DEF ExtractorAssumption
  <2>4. Consensus(result).conf \in Int
    BY <2>2, Verdicts DEF Nobody
  <2>5. Consensus(result).conf > 6
    BY <2>1, <2>3, <2>4
  <2> QED BY <2>2, <2>5, ConfidenceHasWitnesses
<1> QED BY <1>1, RequestInvariant, PTL

(* The list of the workers may be in any order (consensus).                *)
THEOREM OrderIsIrrelevant == Spec => []OrderDoesNotDecide
<1>1. ASSUME IInv PROVE OrderDoesNotDecide
  <2> SUFFICES ASSUME phase = "consensus", NEW order \in Orders
               PROVE  SameVerdict(agreed, Consensus([w \in Workers |-> result[order[w]]]))
    BY DEF OrderDoesNotDecide
  <2>1. agreed = Consensus(result) /\ Complete(result)
    BY <1>1, SlotsAreComplete DEF IInv, AgreedOK
  <2> QED BY <2>1, AnyOrderDecides
<1> QED BY <1>1, RequestInvariant, PTL

(* A product's verdict: of the consensus, or derived of it.                *)
LEMMA VerdictIs ==
    ASSUME IInv, phase # "extract", Heard(result) # {}
    PROVE  /\ Consensus(result).ext = AllFields(Consensus(result).ext)
           /\ Consensus(result).ext.categoryConfidence = 0
           /\ agreed.ext \in {Consensus(result).ext, Derived(Consensus(result).ext)}
           /\ phase = "commit" => agreed.ext = Derived(Consensus(result).ext)
<1>1. Complete(result)
  BY SlotsAreComplete
<1> DEFINE n == Cardinality(Heard(result))
<1>2. n \in Nat /\ n # 0
  BY HeardAreFinite, FS_EmptySet
<1>3. \E e, k, u : Consensus(result) = [ext |-> e, conf |-> k, unresolved |-> u]
  BY <1>1, <1>2, Verdicts
<1>4. WithDerived(Consensus(result)).ext = Derived(Consensus(result).ext)
  BY <1>3 DEF WithDerived
<1>5. agreed = Consensus(result) \/ agreed = WithDerived(Consensus(result))
  BY DEF IInv, DeadlineOK, AgreedOK
<1>6. phase = "commit" => agreed = WithDerived(Consensus(result))
  BY DEF IInv, AgreedOK
<1> QED BY <1>1, <1>4, <1>5, <1>6, AgreedIsCopied

(* When nobody was heard there is no extraction.                           *)
LEMMA NobodyIsAgreed ==
    ASSUME IInv, phase = "extract" \/ Heard(result) = {} PROVE agreed = Nobody
<1>1. CASE phase = "extract"
  BY <1>1 DEF IInv, AgreedOK
<1>2. CASE phase # "extract" /\ Heard(result) = {}
  <2>1. Consensus(result) = Nobody
    BY <1>2, SlotsAreComplete, Verdicts, FS_EmptySet
  <2> QED BY <1>2, <2>1 DEF IInv, DeadlineOK, AgreedOK
<1> QED BY <1>1, <1>2

(* What the workers read of a field.                                       *)
HeardOf(results, f) == {Reconciled(results[w])[f] : w \in Heard(results)} \ {<<>>}

(* The vote takes in everything that was heard of the identity, and leaves *)
(* a field open only when it was heard differently.                        *)
LEMMA VerdictHears ==
    ASSUME NEW results, Complete(results), NEW c, c = Consensus(results), NEW f \in IdentityFields,
           NEW heard, heard = HeardOf(results, f)
    PROVE  /\ \A v \in heard : c.conf > 0 /\ (c.ext[f] = v \/ f \in c.unresolved)
           /\ f \in c.unresolved => \E v, w \in heard : v # w
<1> DEFINE exts == Successful(results)
           n == Cardinality(Heard(results))
<1>1. /\ n \in Nat
      /\ n = 0 => c = Nobody
      /\ n = 1 => c = [ext |-> exts[1], conf |-> 6, unresolved |-> {}]
      /\ n > 1 => c = [ext |-> Agreed(exts),
                       conf |-> IF Unresolved(exts) = {} THEN 9 ELSE 5,
                       unresolved |-> Unresolved(exts)]
  BY Verdicts
<1>2. heard = Given(exts, f)
  <2>1. \A w \in Heard(results) : Reconciled(results[w]) = reconcileIdentity(results[w])
    BY ReconciledIs DEF Complete, Heard
  <2> QED BY <2>1, GivenByHeard DEF HeardOf
<1>3. DOMAIN exts = 1 .. n
  BY HeardInOrder
<1>4. n = 0 => Heard(results) = {}
  BY HeardAreFinite, FS_EmptySet
<1> HIDE DEF exts, n
<1>5. CASE n = 0
  <2>1. c.unresolved = {}
    BY <1>1, <1>5 DEF Nobody
  <2>2. heard = {}
    BY <1>4, <1>5 DEF HeardOf
  <2> QED BY <2>1, <2>2
<1>6. CASE n = 1
  <2>1. c.conf = 6 /\ c.unresolved = {} /\ c.ext = exts[1] /\ DOMAIN exts = {1}
    BY <1>1, <1>3, <1>6
  <2>2. \A v \in heard : v = exts[1][f]
    BY <1>2, <2>1 DEF Given
  <2> QED BY <2>1, <2>2
<1>7. CASE n > 1
  <2>1. c.conf \in {5, 9} /\ c.unresolved = Unresolved(exts) /\ c.ext = Agreed(exts)
    BY <1>1, <1>7
  <2>2. Agreed(exts)[f] = identityValue(exts, f)
    BY DEF Agreed, IdentityFields
  <2>3. f \in c.unresolved <=> \E v, w \in heard : v # w
    <3>1. f \in Unresolved(exts) <=> identityConflict(exts, f)
      BY DEF Unresolved
    <3>2. identityConflict(exts, f) <=> \E v, w \in heard : v # w
      BY <1>2 DEF identityConflict
    <3> QED BY <2>1, <3>1, <3>2
  <2>4. ASSUME NEW v \in heard, f \notin c.unresolved PROVE c.ext[f] = v
    <3>1. Given(exts, f) = {v}
      BY <1>2, <2>3, <2>4
    <3>2. DOMAIN exts \in SUBSET Nat
      BY <1>1, <1>3
    <3>3. identityValue(exts, f) = v
      BY <3>1, <3>2, IdentityIsOfTheGiven
    <3> QED BY <2>1, <2>2, <3>3
  <2>5. c.conf > 0
    BY <2>1
  <2>6. \A v \in heard : c.ext[f] = v \/ f \in c.unresolved
    BY <2>4
  <2> QED BY <2>3, <2>5, <2>6
<1> QED BY <1>1, <1>5, <1>6, <1>7

(* Nothing that a worker read of the identity is lost, whichever of the    *)
(* others failed (Run, Consensus).                                         *)
THEOREM NothingIsLost == Spec => []NothingHeardIsLost
<1>1. ASSUME IInv PROVE NothingHeardIsLost
  <2> SUFFICES ASSUME phase # "extract", NEW f \in IdentityFields,
                      NEW heard, heard = HeardOf(result, f)
               PROVE  /\ \A v \in heard : agreed.conf > 0 /\ (agreed.ext[f] = v \/ f \in agreed.unresolved)
                      /\ f \in agreed.unresolved => \E v, w \in heard : v # w
    BY DEF NothingHeardIsLost, HeardOf
  <2>1. Complete(result)
    BY <1>1, SlotsAreComplete
  <2>2. PICK c : c = Consensus(result)
    OBVIOUS
  <2>3. /\ \A v \in heard : c.conf > 0 /\ (c.ext[f] = v \/ f \in c.unresolved)
        /\ f \in c.unresolved => \E v, w \in heard : v # w
    BY <2>1, <2>2, VerdictHears
  <2>4. CASE agreed = c
    BY <2>3, <2>4
  <2>5. CASE agreed = WithDerived(c) /\ Heard(result) # {}
    <3>1. c.ext = AllFields(c.ext)
      BY <2>1, <2>2, <2>5, AgreedIsCopied
    <3>2. Derived(c.ext)[f] = c.ext[f]
      <4>1. PICK ext, derived : ext = c.ext /\ derived = Derived(ext)
        OBVIOUS
      <4>2. derived.serial = ext.serial /\ derived.brand = ext.brand /\ derived.model = ext.model
        BY <3>1, <4>1, DerivedIs
      <4> QED BY <4>1, <4>2 DEF IdentityFields
    <3>3. \E e, k, u : c = [ext |-> e, conf |-> k, unresolved |-> u]
      BY <2>1, <2>2, Verdicts DEF Nobody
    <3>4. agreed.ext = Derived(c.ext) /\ agreed.conf = c.conf /\ agreed.unresolved = c.unresolved
      BY <2>5, <3>3 DEF WithDerived
    <3> QED BY <2>3, <3>2, <3>4
  <2> QED BY <1>1, <2>2, <2>4, <2>5 DEF IInv, AgreedOK, DeadlineOK
<1> QED BY <1>1, RequestInvariant, PTL

(* No description is stored as a model (reconcileIdentity).                *)
THEOREM NoDescriptionIsAModel == Spec => []ModelIsNoDescription
<1>1. ASSUME IInv PROVE ModelIsNoDescription
  <2> SUFFICES ASSUME PlainLexicon, agreed.ext # None
               PROVE  IsModel(agreed.ext.model)
    BY DEF ModelIsNoDescription, IsModel
  <2>1. phase # "extract" /\ Heard(result) # {}
    BY <1>1, NobodyIsAgreed DEF Nobody
  <2>2. PICK ext : ext = Consensus(result).ext
    OBVIOUS
  <2>3. agreed.ext.model = ext.model
    BY <1>1, <2>1, <2>2, VerdictIs, DerivedIs
  <2> QED BY <1>1, <2>1, <2>2, <2>3, SlotsAreComplete, AgreedIsCopied
<1> QED BY <1>1, RequestInvariant, PTL

(* The end of a warranty is what the documents say (AddWarrantyEnd).       *)
THEOREM WarrantiesEndOnTime == Spec => []WarrantyEndsOnTime
<1>1. ASSUME IInv PROVE WarrantyEndsOnTime
  <2> SUFFICES ASSUME phase = "commit", agreed.ext.ends # <<>>
               PROVE  EndsOnTime({result[w] : w \in Heard(result)}, agreed.ext.ends)
    BY DEF WarrantyEndsOnTime, EndsOnTime
  <2>1. Heard(result) # {} /\ Complete(result)
    BY <1>1, SlotsAreComplete DEF IInv, AgreedOK
  <2>2. agreed.ext = Derived(Consensus(result).ext)
    BY <1>1, <2>1, VerdictIs
  <2>3. PICK ext, derived, ends, read :
           /\ ext = Consensus(result).ext /\ derived = Derived(ext)
           /\ ends = derived.ends /\ read = {result[w] : w \in Heard(result)}
    OBVIOUS
  <2>4. ends # <<>>
    BY <2>2, <2>3
  <2>5. EndsOnTime(read, ends)
    BY <2>1, <2>3, <2>4, DerivedEndsOnTime
  <2> QED BY <2>2, <2>3, <2>5
<1> QED BY <1>1, RequestInvariant, PTL

(* A category that was read is never lost (InferCategory).                 *)
THEOREM CategoriesAreHeard == Spec => []CategoryIsHeard
<1>1. ASSUME IInv PROVE CategoryIsHeard
  <2> SUFFICES ASSUME agreed.ext # None, agreed.ext.categoryConfidence > 0
               PROVE  IsHeard(result, agreed.ext)
    BY DEF CategoryIsHeard, IsHeard
  <2>1. phase # "extract" /\ Heard(result) # {}
    BY <1>1, NobodyIsAgreed DEF Nobody
  <2>2. Complete(result)
    BY <1>1, <2>1, SlotsAreComplete
  <2>3. agreed.ext = Derived(Consensus(result).ext)
    BY <1>1, <2>1, VerdictIs
  <2> QED BY <2>1, <2>2, <2>3, DerivedIsHeard
<1> QED BY <1>1, RequestInvariant, PTL

=============================================================================
