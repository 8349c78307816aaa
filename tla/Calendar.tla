------------------------------ MODULE Calendar ------------------------------
(***************************************************************************)
(* The billing period of a moment (store.rs): the year and the month, in   *)
(* UTC, of a number of seconds since 1970, by arithmetic on days counted   *)
(* from the first of March of the year zero.                               *)
(***************************************************************************)
EXTENDS Integers

(* The days of four hundred years.                                         *)
Era == 146097

Date(year, month, day) == [year |-> year, month |-> month, day |-> day]

(* The date of a day of those four hundred years. Years begin in March, so *)
(* that the day that leap years have comes last.                           *)
civil_of_era(doe) ==
  LET yoe == (doe - doe \div 1460 + doe \div 36524 - doe \div 146096) \div 365
      doy == doe - (365 * yoe + yoe \div 4 - yoe \div 100)
      mp == (5 * doy + 2) \div 153
      month == IF mp < 10 THEN mp + 3 ELSE mp - 9
  IN  Date(yoe + (IF month <= 2 THEN 1 ELSE 0), month, doy - (153 * mp + 2) \div 5 + 1)

civil_from_days(days) ==
  LET z == days + 719468
      date == civil_of_era(z % Era)
  IN  [date EXCEPT !.year = @ + 400 * (z \div Era)]

(* "YYYY-MM", as the number of those six digits.                           *)
period_of(seconds) ==
  LET date == civil_from_days(seconds \div 86400) IN 100 * date.year + date.month

-----------------------------------------------------------------------------
(* The calendar itself.                                                    *)
IsLeap(y) == y % 4 = 0 /\ (y % 100 = 0 => y % 400 = 0)
DaysIn(y, m) ==
  IF m \in {4, 6, 9, 11} THEN 30 ELSE IF m # 2 THEN 31 ELSE IF IsLeap(y) THEN 29 ELSE 28

NextDay(d) ==
  IF d.day < DaysIn(d.year, d.month) THEN Date(d.year, d.month, d.day + 1)
  ELSE IF d.month < 12 THEN Date(d.year, d.month + 1, 1)
  ELSE Date(d.year + 1, 1, 1)

(* Each day of four hundred years is the one after the day before it, the  *)
(* first being the first of 1970: no month is skipped, repeated or turned  *)
(* early, and periods never go back while the clock does not.              *)
ASSUME CalendarFollows ==
  /\ civil_from_days(0) = Date(1970, 1, 1)
  /\ \A z \in 0..Era : civil_from_days(z + 1) = NextDay(civil_from_days(z))
=============================================================================
