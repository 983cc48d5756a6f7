------------------------------ MODULE Warranty ------------------------------
(***************************************************************************)
(* The end of a warranty (commons/dates.go): a purchase date and a         *)
(* duration of years, months and days, counted in the Gregorian calendar.  *)
(*                                                                         *)
(* A date is <<year, month, day>>, a duration <<years, months, days>>; <<>> *)
(* is one that was not given.  A duration text that cannot be parsed and   *)
(* one that is zero are both <<0, 0, 0>>: neither gives an end.            *)
(***************************************************************************)
EXTENDS Integers

(* The zero of Go's dates.                                                 *)
ZeroDate == <<1, 1, 1>>

IsLeap(year) == year % 4 = 0 /\ (year % 100 # 0 \/ year % 400 = 0)

lastDayOfMonth(year, month) ==
    CASE month = 2                -> IF IsLeap(year) THEN 29 ELSE 28
      [] month \in {4, 6, 9, 11}  -> 30
      [] OTHER                    -> 31

IsDate(date) ==
    /\ date \in Nat \X (1 .. 12) \X (1 .. 31)
    /\ date[1] >= 1 /\ date[3] <= lastDayOfMonth(date[1], date[2])

(* The month that lies months after a date's, as year and month.           *)
MonthAfter(date, months) ==
    LET total == date[1] * 12 + date[2] - 1 + months
    IN  <<total \div 12, (total % 12) + 1>>

DaysBefore == <<0, 31, 59, 90, 120, 151, 181, 212, 243, 273, 304, 334>>

DayNumber(date) ==
    LET past == date[1] - 1
    IN  365 * past + past \div 4 - past \div 100 + past \div 400 + DaysBefore[date[2]]
        + (IF date[2] > 2 /\ IsLeap(date[1]) THEN 1 ELSE 0) + date[3]

(* AddDate and time.Date count days across the ends of months and years.   *)
AddDays(date, days) ==
    LET target      == DayNumber(date) + days
        first(y, m) == DayNumber(<<y, m, 1>>)
        year        == CHOOSE y \in date[1] .. date[1] + (days \div 365) + 1 :
                        target \in first(y, 1) .. first(y + 1, 1) - 1
        month       == CHOOSE m \in 1 .. 12 :
                        target \in first(year, m) .. first(year, m) + lastDayOfMonth(year, m) - 1
    IN  <<year, month, target - first(year, month) + 1>>

Months(duration) == duration[1] * 12 + duration[2]

(* A mutant: the day is not clamped, and time.Date runs into the next month. *)
AddMonthsUnclamped(date, months) ==
    LET target == MonthAfter(date, months)
    IN  AddDays(<<target[1], target[2], 1>>, date[3] - 1)

(* The same day of the target month, or its last one when it has no such.  *)
AddMonths(date, months) ==
    LET target == MonthAfter(date, months)
        last   == lastDayOfMonth(target[1], target[2])
    IN  <<target[1], target[2], IF date[3] > last THEN last ELSE date[3]>>

addWarranty(date, duration) == AddDays(AddMonths(date, Months(duration)), duration[3])

parseWarrantyDuration(duration) == duration # <<>> /\ duration # <<0, 0, 0>>

(* An end the document states wins over one that is computed.              *)
AddWarrantyEnd(purchase, duration, explicitEnd) ==
    IF explicitEnd # <<>> THEN explicitEnd
    ELSE IF purchase # <<>> /\ parseWarrantyDuration(duration)
    THEN addWarranty(purchase, duration)
    ELSE <<>>

=============================================================================
