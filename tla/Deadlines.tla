------------------------------ MODULE Deadlines ------------------------------
(***************************************************************************)
(* DeadlineEngine and HolidayCalendarProvider, as CaseService.submit_case  *)
(* uses them: the calendar months, the holidays in force and the days a    *)
(* deadline rolls forward by, one turn of the loop per step.               *)
(*                                                                         *)
(* A date is a record, and Ordinal its number of days since the first of   *)
(* January of year 1, as in Python's date.toordinal.                       *)
(***************************************************************************)
EXTENDS Integers

CONSTANTS Years,          \* years of receipt
          Jurisdictions   \* codes: "IT" has a calendar, any other has none

ASSUME YearsAssumption == Years \subseteq Nat \ {0}

VARIABLES
  received,      \* date of receipt
  jurisdiction,  \* the code the user gave
  holidays,      \* the snapshot: ordinals of the holidays the engine is given
  due            \* ordinals of initial_due_on and extended_due_on so far

vars == <<received, jurisdiction, holidays, due>>

-----------------------------------------------------------------------------
(* Python's datetime.date and calendar.monthrange. *)

LeapYear(year) == year % 4 = 0 /\ (year % 100 # 0 \/ year % 400 = 0)

DaysInMonth(year, month) ==
  IF month = 2 THEN (IF LeapYear(year) THEN 29 ELSE 28)
  ELSE IF month \in {4, 6, 9, 11} THEN 30 ELSE 31

DaysBeforeMonth == <<0, 31, 59, 90, 120, 151, 181, 212, 243, 273, 304, 334>>

Ordinal(d) ==
  LET past == d.year - 1
      leap == IF d.month > 2 /\ LeapYear(d.year) THEN 1 ELSE 0
  IN  365 * past + (past \div 4) - (past \div 100) + (past \div 400)
        + DaysBeforeMonth[d.month] + leap + d.day

Date(year, month, day) == [year |-> year, month |-> month, day |-> day]

(* date.weekday: Monday is 0. *)
Weekday(n) == (n + 6) % 7

DatesOf(year) == {Date(year, month, day) : month \in 1..12, day \in 1..31}

Receipts ==
  {d \in UNION {DatesOf(year) : year \in Years} : d.day =< DaysInMonth(d.year, d.month)}

-----------------------------------------------------------------------------
(* DeadlineEngine._add_months *)

(* Mutant: the 31st of a month that has none. *)
AddMonthsUnclamped(d, months) ==
  LET month_index == d.month - 1 + months
  IN  Date(d.year + (month_index \div 12), (month_index % 12) + 1, d.day)

(* Mutant: no carry into the year. *)
AddMonthsSameYear(d, months) ==
  LET month == ((d.month - 1 + months) % 12) + 1
  IN  Date(d.year, month,
           IF d.day =< DaysInMonth(d.year, month) THEN d.day ELSE DaysInMonth(d.year, month))

AddMonths(d, months) ==
  LET month_index == d.month - 1 + months
      year        == d.year + (month_index \div 12)
      month       == (month_index % 12) + 1
      last        == DaysInMonth(year, month)
  IN  Date(year, month, IF d.day =< last THEN d.day ELSE last)

Months == [initial |-> 1, extended |-> 3]

Periods == DOMAIN Months

-----------------------------------------------------------------------------
(* ItalianHolidayCalendar *)

(* Mutant: the century is not corrected for. *)
EasterSundayJulianMoon(year) ==
  LET a == year % 19
      b == year \div 100
      c == year % 100
      h == (19 * a + b - (b \div 4) + 15) % 30
      l == (32 + 2 * (b % 4) + 2 * (c \div 4) - h - (c % 4)) % 7
      m == (a + 11 * h + 22 * l) \div 451
      n == h + l - 7 * m + 114
  IN  Date(year, n \div 31, (n % 31) + 1)

(* The anonymous Gregorian algorithm of _gregorian_easter_sunday. *)
EasterSunday(year) ==
  LET a == year % 19
      b == year \div 100
      c == year % 100
      g == (b - ((b + 8) \div 25) + 1) \div 3
      h == (19 * a + b - (b \div 4) - g + 15) % 30
      l == (32 + 2 * (b % 4) + 2 * (c \div 4) - h - (c % 4)) % 7
      m == (a + 11 * h + 22 * l) \div 451
      n == h + l - 7 * m + 114
  IN  Date(year, n \div 31, (n % 31) + 1)

FixedHolidays(year) ==
  {<<1, 1>>, <<1, 6>>, <<4, 25>>, <<5, 1>>, <<6, 2>>, <<8, 15>>,
   <<11, 1>>, <<12, 8>>, <<12, 25>>, <<12, 26>>}
  \cup (IF year >= 2026 THEN {<<10, 4>>} ELSE {})

ItalianHolidays(year) ==
  IF year < 2001 THEN {}
  ELSE {Ordinal(EasterSunday(year)) + 1}
       \cup {Ordinal(Date(year, h[1], h[2])) : h \in FixedHolidays(year)}

(* HolidayCalendarProvider.snapshot: no calendar, no holidays. *)
CalendarHolidays(code, year) == IF code = "IT" THEN ItalianHolidays(year) ELSE {}

(* CaseService.submit_case asks for the years of the receipt and of the nominal
   end of the extended period. *)
SnapshotFor(code, d) ==
  UNION {CalendarHolidays(code, year) : year \in d.year..AddMonths(d, 3).year}

-----------------------------------------------------------------------------
(* Mutant: Saturday is a working day. *)
IsWorkingDaySaturday(n) == Weekday(n) # 6 /\ n \notin holidays

(* The condition of the loop of _next_working_day. *)
IsWorkingDay(n) == Weekday(n) < 5 /\ n \notin holidays

Nominal(d) == [period \in Periods |-> Ordinal(AddMonths(d, Months[period]))]

Init ==
  /\ received \in Receipts
  /\ jurisdiction \in Jurisdictions
  /\ holidays = SnapshotFor(jurisdiction, received)
  /\ due = Nominal(received)

RollForward(period) ==
  /\ ~IsWorkingDay(due[period])
  /\ period = "extended" => IsWorkingDay(due["initial"])
  /\ due' = [due EXCEPT ![period] = @ + 1]
  /\ UNCHANGED <<received, jurisdiction, holidays>>

Next == \E period \in Periods : RollForward(period)

Spec == Init /\ [][Next]_vars

(* calculate has returned. *)
Calculated == \A period \in Periods : IsWorkingDay(due[period])

-----------------------------------------------------------------------------
(* The reference calendar: weeks and the months of the year by counting. *)
Sunday(n) == n % 7 = 0
Saturday(n) == n % 7 = 6

(* The nominal end of a period of months is the same day of the month, as many
   months later, or the last day of that month when it has no such day: the
   last date of the month whose day is not beyond the day of receipt. *)
NominalEnd(d, months) ==
  LET total == 12 * d.year + d.month - 1 + months
      days  == {e \in DatesOf(total \div 12) :
                  /\ e.month = (total % 12) + 1
                  /\ e.day =< DaysInMonth(e.year, e.month) /\ e.day =< d.day}
  IN  CHOOSE e \in days : \A other \in days : other.day =< e.day

(* The deadline of a period is the first day on or after its nominal end that
   is neither a Saturday, nor a Sunday, nor a holiday of the snapshot: the loop
   skips no working day and stops at none that is not one. *)
FirstWorkingDay ==
  \A period \in Periods :
    LET nominal == Ordinal(NominalEnd(received, Months[period]))
        Free(n) == Saturday(n) \/ Sunday(n) \/ n \in holidays
    IN  /\ due[period] >= nominal
        /\ \A n \in nominal..(due[period] - 1) : Free(n)
        /\ Calculated => ~Free(due[period])

(* The receipt precedes the initial deadline, which never falls after the
   extended one: what CaseLifecycle assumes of every calendar. *)
DueDatesInOrder ==
  Calculated =>
    /\ Ordinal(received) < due["initial"]
    /\ due["initial"] =< due["extended"]

(* Easter by the golden number, the century's solar and lunar corrections and
   the epact, the algorithm of Clavius. *)
Computus(year) ==
  LET golden  == (year % 19) + 1
      century == (year \div 100) + 1
      solar   == ((3 * century) \div 4) - 12
      lunar   == ((8 * century + 5) \div 25) - 5
      sunday  == ((5 * year) \div 4) - solar - 10
      age     == (11 * golden + 20 + lunar - solar) % 30
      epact   == IF (age = 25 /\ golden > 11) \/ age = 24 THEN age + 1 ELSE age
      moon    == IF 44 - epact < 21 THEN 74 - epact ELSE 44 - epact
      march   == moon + 7 - ((sunday + moon) % 7)
  IN  IF march > 31 THEN Date(year, 4, march - 31) ELSE Date(year, 3, march)

(* Easter Monday, the one holiday that moves, is the Monday after the Sunday
   the computus gives, in the years too in which the algorithms make an
   exception. *)
EasterFollowsComputus ==
  LET easter == EasterSunday(received.year)
  IN  easter = Computus(received.year) /\ Sunday(Ordinal(easter))

-----------------------------------------------------------------------------
(* README: "DeadlineEngine owns ... working-day roll-forward", and the Italian
   provider "encodes verified national statutory holidays from 2001 onward": a
   calculated deadline is not one of them. *)
DeadlinesAreNoHolidays ==
  Calculated =>
    \A period \in Periods :
      due[period] \notin UNION {CalendarHolidays(jurisdiction, year) :
                                  year \in received.year..(received.year + 1)}

=============================================================================
