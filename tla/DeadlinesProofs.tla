---------------------------- MODULE DeadlinesProofs ----------------------------
(***************************************************************************)
(* Proofs about Deadlines, for every date of receipt, every jurisdiction   *)
(* and every turn of the loop: a deadline is the first working day from    *)
(* its nominal end on, the two deadlines of a request are in order, and    *)
(* Easter Monday follows the Sunday of the computus in every year.         *)
(***************************************************************************)
EXTENDS Deadlines, TLAPS

IsDate(d) ==
  /\ d = Date(d.year, d.month, d.day)
  /\ d.year \in Nat \ {0} /\ d.month \in 1..12 /\ d.day \in 1..DaysInMonth(d.year, d.month)

(* The first day of a month, and of the month after. *)
First(year, month) == Ordinal(Date(year, month, 1))

FirstAfter(year, month) ==
  IF month = 12 THEN First(year + 1, 1) ELSE First(year, month + 1)

(* The loop has not skipped a working day. *)
RolledInv ==
  /\ received \in Receipts
  /\ DOMAIN due = Periods
  /\ \A period \in Periods :
       /\ due[period] \in Int /\ due[period] >= Nominal(received)[period]
       /\ \A n \in Nominal(received)[period]..(due[period] - 1) : ~IsWorkingDay(n)

-----------------------------------------------------------------------------
LEMMA ReceiptsAreDates == ASSUME NEW d \in Receipts PROVE IsDate(d)
<1>1. PICK year \in Years, month \in 1..12, day \in 1..31 :
         d = Date(year, month, day) /\ d.day <= DaysInMonth(d.year, d.month)
  BY DEF Receipts, DatesOf
<1>2. d.year = year /\ d.month = month /\ d.day = day
  BY <1>1 DEF Date
<1> QED
  BY <1>1, <1>2, YearsAssumption DEF IsDate, DaysInMonth

LEMMA MonthLength ==
  ASSUME NEW y \in Int, NEW m \in 1..12 PROVE DaysInMonth(y, m) \in 28..31
BY DEF DaysInMonth

LEMMA AddMonthsIsDate ==
  ASSUME NEW d, IsDate(d), NEW k \in 1..3
  PROVE  LET e == AddMonths(d, k)
             month == IF d.month + k > 12 THEN d.month + k - 12 ELSE d.month + k
             year == IF d.month + k > 12 THEN d.year + 1 ELSE d.year
         IN  /\ IsDate(e) /\ e.month = month /\ e.year = year
             /\ e.day = IF d.day <= DaysInMonth(year, month) THEN d.day
                        ELSE DaysInMonth(year, month)
<1> DEFINE i == d.month - 1 + k
           q == i \div 12
           r == i % 12
           y == d.year + q
           m == r + 1
           e == AddMonths(d, k)
<1>1. d.year \in Nat \ {0} /\ d.month \in 1..12 /\ d.day \in 1..31
  BY MonthLength DEF IsDate
<1>a. i \in 0..14 /\ i = d.month + k - 1
  BY <1>1
<1>b. (i > 11 => q = 1 /\ r = i - 12) /\ (i <= 11 => q = 0 /\ r = i)
  <2> HIDE DEF i
  <2> QED
    BY <1>a
<1>2. /\ m = IF d.month + k > 12 THEN d.month + k - 12 ELSE d.month + k
      /\ y = IF d.month + k > 12 THEN d.year + 1 ELSE d.year
      /\ m \in 1..12 /\ y \in Nat \ {0}
  <2> HIDE DEF i, q, r
  <2>1. CASE i > 11
    <3>1. q = 1 /\ r = i - 12 /\ d.month + k > 12
      BY <1>1, <1>a, <1>b, <2>1
    <3> QED
      BY <1>1, <1>a, <3>1
  <2>2. CASE i <= 11
    <3>1. q = 0 /\ r = i /\ ~(d.month + k > 12)
      BY <1>1, <1>a, <1>b, <2>2
    <3> QED
      BY <1>1, <1>a, <3>1
  <2> QED
    BY <1>a, <2>1, <2>2
<1>3. DaysInMonth(y, m) \in 28..31
  BY <1>2, MonthLength
<1>4. e = Date(y, m, IF d.day <= DaysInMonth(y, m) THEN d.day ELSE DaysInMonth(y, m))
  BY DEF AddMonths
<1> HIDE DEF y, m, e, i, q, r
<1>5. /\ e.year = y /\ e.month = m
      /\ e.day = IF d.day <= DaysInMonth(y, m) THEN d.day ELSE DaysInMonth(y, m)
  BY <1>4 DEF Date
<1>6. IsDate(e)
  BY <1>1, <1>2, <1>3, <1>4, <1>5 DEF IsDate
<1> QED
  BY <1>2, <1>5, <1>6 DEF e

LEMMA FirstIsInt == ASSUME NEW y \in Int, NEW m \in 1..12 PROVE First(y, m) \in Int
BY DEF First, Ordinal, Date, DaysBeforeMonth

LEMMA FirstOfDate == ASSUME NEW d, IsDate(d) PROVE First(d.year, d.month) \in Int
<1>1. d.year \in Int /\ d.month \in 1..12
  BY DEF IsDate
<1> QED
  BY <1>1, FirstIsInt, Zenon

LEMMA OrdinalInMonth ==
  ASSUME NEW d, IsDate(d)
  PROVE  /\ Ordinal(d) \in Int
         /\ Ordinal(d) = First(d.year, d.month) + d.day - 1
<1>1. d.year \in Nat \ {0} /\ d.month \in 1..12 /\ d.day \in 1..31
  BY MonthLength DEF IsDate
<1>2. DaysBeforeMonth[d.month] \in Int
  BY <1>1 DEF DaysBeforeMonth
<1> QED
  BY <1>1, <1>2 DEF First, Ordinal, Date

LEMMA NextDecember ==
  ASSUME NEW y \in Nat
  PROVE  First(y + 1, 1) = First(y, 12) + 31
<1>1. First(y, 12) = 365 * (y - 1) + ((y - 1) \div 4) - ((y - 1) \div 100) + ((y - 1) \div 400)
                     + 334 + (IF LeapYear(y) THEN 1 ELSE 0) + 1
  BY DEF First, Ordinal, Date, DaysBeforeMonth
<1>2. First(y + 1, 1) = 365 * y + (y \div 4) - (y \div 100) + (y \div 400) + 1
  BY DEF First, Ordinal, Date, DaysBeforeMonth
<1>3. (y \div 4) - ((y - 1) \div 4) = IF y % 4 = 0 THEN 1 ELSE 0
  OBVIOUS
<1>4. (y \div 100) - ((y - 1) \div 100) = IF y % 100 = 0 THEN 1 ELSE 0
  OBVIOUS
<1>5. (y \div 400) - ((y - 1) \div 400) = IF y % 400 = 0 THEN 1 ELSE 0
  OBVIOUS
<1>6. (y % 100 = 0 => y % 4 = 0) /\ (y % 400 = 0 => y % 100 = 0)
  OBVIOUS
<1> QED
  BY <1>1, <1>2, <1>3, <1>4, <1>5, <1>6 DEF LeapYear

LEMMA MonthsFollow ==
  ASSUME NEW y \in Nat, NEW m \in 1..12
  PROVE  FirstAfter(y, m) = First(y, m) + DaysInMonth(y, m)
<1>1. CASE m = 12
  BY <1>1, NextDecember DEF FirstAfter, DaysInMonth
<1>2. CASE m \in 1..11
  <2>1. \A k \in 1..12 : First(y, k) = First(y, 1) + DaysBeforeMonth[k]
                                        + (IF k > 2 /\ LeapYear(y) THEN 1 ELSE 0)
    BY DEF First, Ordinal, Date, DaysBeforeMonth
  <2>2. FirstAfter(y, m) = First(y, m + 1)
    BY <1>2 DEF FirstAfter
  <2>3. DaysBeforeMonth[m + 1] + (IF m + 1 > 2 /\ LeapYear(y) THEN 1 ELSE 0)
          = DaysBeforeMonth[m] + (IF m > 2 /\ LeapYear(y) THEN 1 ELSE 0) + DaysInMonth(y, m)
    BY <1>2 DEF DaysBeforeMonth, DaysInMonth
  <2>4. /\ First(y, 1) \in Int /\ DaysInMonth(y, m) \in Int
        /\ DaysBeforeMonth[m] \in Int /\ DaysBeforeMonth[m + 1] \in Int
    <3>1. y \in Int /\ 1 \in 1..12
      OBVIOUS
    <3>2. First(y, 1) \in Int
      BY <3>1, FirstIsInt, Zenon
    <3>3. DaysInMonth(y, m) \in Int
      BY DEF DaysInMonth
    <3>4. DaysBeforeMonth[m] \in Int /\ DaysBeforeMonth[m + 1] \in Int
      BY <1>2 DEF DaysBeforeMonth
    <3> QED
      BY <3>2, <3>3, <3>4
  <2> QED
    BY <1>2, <2>1, <2>2, <2>3, <2>4
<1> QED
  BY <1>1, <1>2

(* A date of a month precedes the dates of every later month. *)
LEMMA LaterMonth ==
  ASSUME NEW d, IsDate(d), NEW e, IsDate(e),
         First(e.year, e.month) >= FirstAfter(d.year, d.month)
  PROVE  Ordinal(d) < Ordinal(e)
<1>1. /\ d.year \in Nat /\ d.month \in 1..12 /\ d.day \in 1..DaysInMonth(d.year, d.month)
      /\ e.year \in Nat /\ e.month \in 1..12 /\ e.day >= 1 /\ e.day \in Int
      /\ DaysInMonth(d.year, d.month) \in Int
  BY MonthLength DEF IsDate
<1>2. FirstAfter(d.year, d.month) = First(d.year, d.month) + DaysInMonth(d.year, d.month)
  BY <1>1, MonthsFollow
<1>3. First(d.year, d.month) \in Int /\ First(e.year, e.month) \in Int
  BY FirstOfDate
<1>4. /\ Ordinal(d) = First(d.year, d.month) + d.day - 1
      /\ Ordinal(e) = First(e.year, e.month) + e.day - 1
  BY OrdinalInMonth
<1> QED
  BY <1>1, <1>2, <1>3, <1>4

LEMMA NominalEndsInOrder ==
  ASSUME NEW d, IsDate(d)
  PROVE  /\ Ordinal(d) \in Int /\ Nominal(d)["initial"] \in Int
         /\ Nominal(d)["extended"] \in Int
         /\ Ordinal(d) < Nominal(d)["initial"]
         /\ Nominal(d)["initial"] < Nominal(d)["extended"]
<1> DEFINE one == AddMonths(d, 1)
           two == AddMonths(d, 2)
           three == AddMonths(d, 3)
<1>1. IsDate(one) /\ IsDate(two) /\ IsDate(three)
  BY AddMonthsIsDate
<1>2. d.year \in Nat /\ d.month \in 1..12
  BY DEF IsDate
<1>3. /\ First(one.year, one.month) = FirstAfter(d.year, d.month)
      /\ First(two.year, two.month) = FirstAfter(one.year, one.month)
      /\ First(three.year, three.month) = FirstAfter(two.year, two.month)
  BY <1>2, AddMonthsIsDate DEF FirstAfter
<1> HIDE DEF one, two, three
<1>4. /\ First(one.year, one.month) \in Int /\ First(two.year, two.month) \in Int
      /\ First(three.year, three.month) \in Int
  BY <1>1, FirstOfDate
<1>5. Ordinal(d) < Ordinal(one) /\ Ordinal(one) < Ordinal(two) /\ Ordinal(two) < Ordinal(three)
  BY <1>1, <1>3, <1>4, LaterMonth
<1>6. /\ Ordinal(d) \in Int /\ Ordinal(one) \in Int /\ Ordinal(two) \in Int
      /\ Ordinal(three) \in Int
  BY <1>1, OrdinalInMonth
<1>7. Nominal(d)["initial"] = Ordinal(one) /\ Nominal(d)["extended"] = Ordinal(three)
  BY DEF Nominal, Periods, Months, one, three
<1> QED
  BY <1>5, <1>6, <1>7

-----------------------------------------------------------------------------
LEMMA PeriodsAre == Periods = {"initial", "extended"}
BY DEF Periods, Months

LEMMA NominalIsInt ==
  ASSUME NEW d \in Receipts, NEW period \in Periods
  PROVE  Nominal(d)[period] \in Int
BY ReceiptsAreDates, NominalEndsInOrder, PeriodsAre

LEMMA InitRolled == Init => RolledInv
<1> SUFFICES ASSUME Init PROVE RolledInv
  OBVIOUS
<1>1. received \in Receipts /\ due = Nominal(received)
  BY DEF Init
<1>2. DOMAIN due = Periods
  BY <1>1 DEF Nominal
<1>3. \A period \in Periods : due[period] \in Int
  BY <1>1, NominalIsInt
<1> QED
  BY <1>1, <1>2, <1>3 DEF RolledInv

LEMMA StepRolled == RolledInv /\ [Next]_vars => RolledInv'
<1> SUFFICES ASSUME RolledInv, [Next]_vars PROVE RolledInv'
  OBVIOUS
<1>1. ASSUME NEW p \in Periods, RollForward(p) PROVE RolledInv'
  <2>1. /\ ~IsWorkingDay(due[p]) /\ UNCHANGED <<received, holidays>>
        /\ DOMAIN due' = Periods /\ due'[p] = due[p] + 1
        /\ \A q \in Periods : q # p => due'[q] = due[q]
    BY <1>1 DEF RollForward, RolledInv
  <2>2. \A n : IsWorkingDay(n)' = IsWorkingDay(n)
    BY <2>1 DEF IsWorkingDay
  <2>3. ASSUME NEW q \in Periods
        PROVE  /\ due'[q] \in Int /\ due'[q] >= Nominal(received)[q]
               /\ \A n \in Nominal(received)[q]..(due'[q] - 1) : ~IsWorkingDay(n)
    <3> DEFINE start == Nominal(received)[q]
    <3>1. start \in Int /\ due[q] \in Int /\ due[q] >= start
          /\ \A n \in start..(due[q] - 1) : ~IsWorkingDay(n)
      BY NominalIsInt DEF RolledInv
    <3> HIDE DEF start
    <3>2. CASE q = p
      <4>1. \A n \in start..due[q] : n \in start..(due[q] - 1) \/ n = due[q]
        BY <3>1
      <4>2. due'[q] = due[q] + 1 /\ due'[q] - 1 = due[q]
        BY <2>1, <3>1, <3>2
      <4>3. due'[q] \in Int /\ due'[q] >= start
        BY <3>1, <4>2
      <4> QED
        BY <2>1, <3>1, <3>2, <4>1, <4>2, <4>3 DEF start
    <3>3. CASE q # p
      BY <2>1, <3>1, <3>3 DEF start
    <3> QED
      BY <3>2, <3>3
  <2>4. received' \in Receipts /\ Nominal(received)' = Nominal(received)
    BY <2>1 DEF RolledInv, Nominal
  <2> QED
    BY <2>1, <2>2, <2>3, <2>4 DEF RolledInv
<1>2. CASE UNCHANGED vars
  BY <1>2 DEF vars, RolledInv, IsWorkingDay, Nominal
<1> QED
  BY <1>1, <1>2 DEF Next

LEMMA SpecRolled == Spec => []RolledInv
BY InitRolled, StepRolled, PTL DEF Spec

(* The receipt precedes the initial deadline, which never falls after the
   extended one: DeadlineAssumption of CaseLifecycle, for every date, with or
   without a calendar. *)
THEOREM InOrder == Spec => []DueDatesInOrder
<1>1. ASSUME RolledInv PROVE DueDatesInOrder
  <2> DEFINE first == Nominal(received)["initial"]
             second == Nominal(received)["extended"]
  <2>1. /\ Ordinal(received) \in Int /\ first \in Int /\ second \in Int
        /\ Ordinal(received) < first /\ first < second
    BY <1>1, ReceiptsAreDates, NominalEndsInOrder DEF RolledInv
  <2>2. /\ due["initial"] \in Int /\ due["extended"] \in Int
        /\ due["initial"] >= first /\ due["extended"] >= second
        /\ \A n \in first..(due["initial"] - 1) : ~IsWorkingDay(n)
    BY <1>1, PeriodsAre DEF RolledInv
  <2> HIDE DEF first, second
  <2>3. Calculated => IsWorkingDay(due["extended"])
    BY PeriodsAre DEF Calculated
  <2>4. due["extended"] < due["initial"] => due["extended"] \in first..(due["initial"] - 1)
    BY <2>1, <2>2
  <2>5. Calculated => due["initial"] <= due["extended"]
    BY <2>2, <2>3, <2>4
  <2> QED
    BY <2>1, <2>2, <2>5 DEF DueDatesInOrder
<1> QED
  BY <1>1, SpecRolled, PTL

-----------------------------------------------------------------------------
LEMMA MonthsCount ==
  ASSUME NEW y \in Nat, NEW m \in 1..12, NEW k \in 1..3
  PROVE  LET total == 12 * y + m - 1 + k
         IN  /\ total \div 12 = IF m + k > 12 THEN y + 1 ELSE y
             /\ (total % 12) + 1 = IF m + k > 12 THEN m + k - 12 ELSE m + k
<1> DEFINE total == 12 * y + m - 1 + k
<1>1. CASE m + k > 12
  <2>1. total = 12 * (y + 1) + (m + k - 13) /\ m + k - 13 \in 0..11
    BY <1>1
  <2>2. total \div 12 = y + 1 /\ total % 12 = m + k - 13
    BY <2>1
  <2> QED
    BY <1>1, <2>2
<1>2. CASE m + k <= 12
  <2>1. total = 12 * y + (m + k - 1) /\ m + k - 1 \in 0..11
    BY <1>2
  <2>2. total \div 12 = y /\ total % 12 = m + k - 1
    BY <2>1
  <2> QED
    BY <1>2, <2>2
<1> QED
  BY <1>1, <1>2

(* _add_months finds the last date of the target month whose day is not beyond
   the day it starts from. *)
LEMMA AddMonthsIsNominalEnd ==
  ASSUME NEW d, IsDate(d), NEW k \in 1..3 PROVE NominalEnd(d, k) = AddMonths(d, k)
<1> DEFINE total == 12 * d.year + d.month - 1 + k
           year == total \div 12
           month == (total % 12) + 1
           days == {e \in DatesOf(year) :
                      /\ e.month = month
                      /\ e.day <= DaysInMonth(e.year, e.month) /\ e.day <= d.day}
           end == AddMonths(d, k)
<1>1. d.year \in Nat /\ d.month \in 1..12 /\ d.day \in 1..31
  BY MonthLength DEF IsDate
<1>2. /\ IsDate(end) /\ end.year = year /\ end.month = month
      /\ end.day = IF d.day <= DaysInMonth(year, month) THEN d.day
                   ELSE DaysInMonth(year, month)
  <2>1. /\ year = IF d.month + k > 12 THEN d.year + 1 ELSE d.year
        /\ month = IF d.month + k > 12 THEN d.month + k - 12 ELSE d.month + k
    BY <1>1, MonthsCount
  <2> HIDE DEF total, year, month
  <2>2. /\ IsDate(end)
        /\ end.year = IF d.month + k > 12 THEN d.year + 1 ELSE d.year
        /\ end.month = IF d.month + k > 12 THEN d.month + k - 12 ELSE d.month + k
    BY AddMonthsIsDate
  <2>3. end.year = year /\ end.month = month
    BY <2>1, <2>2
  <2>4. end.day = IF d.day <= DaysInMonth(year, month) THEN d.day ELSE DaysInMonth(year, month)
    BY <2>1, AddMonthsIsDate
  <2> QED
    BY <2>2, <2>3, <2>4
<1>3. NominalEnd(d, k) = CHOOSE e \in days : \A other \in days : other.day <= e.day
  BY DEF NominalEnd
<1> HIDE DEF total, year, month, end
<1>4. /\ year \in Nat /\ month \in 1..12 /\ end.day \in 1..31
      /\ DaysInMonth(year, month) \in 28..31 /\ end = Date(year, month, end.day)
      /\ end.day <= DaysInMonth(year, month) /\ end.day <= d.day
  BY <1>1, <1>2, MonthLength DEF IsDate
<1>5. \A e \in days : /\ e = Date(year, month, e.day) /\ e.day \in 1..31
                      /\ e.day <= DaysInMonth(year, month) /\ e.day <= d.day
  BY DEF DatesOf, Date
<1>6. end \in days
  BY <1>2, <1>4 DEF DatesOf
<1>7. \A e \in days : e.day <= end.day
  BY <1>1, <1>2, <1>4, <1>5
<1>8. ASSUME NEW e \in days, \A other \in days : other.day <= e.day PROVE e = end
  <2>1. e.day <= end.day /\ end.day <= e.day /\ e.day \in Int /\ end.day \in Int
    BY <1>4, <1>5, <1>6, <1>7, <1>8
  <2>2. e.day = end.day
    BY <2>1
  <2> QED
    BY <1>4, <1>5, <2>2
<1> HIDE DEF days
<1> QED
  BY <1>3, <1>6, <1>7, <1>8 DEF end

LEMMA FreeDays ==
  ASSUME NEW n \in Int
  PROVE  ~IsWorkingDay(n) <=> Saturday(n) \/ Sunday(n) \/ n \in holidays
<1>1. n % 7 \in 0..6 /\ ((n + 6) % 7 < 5 <=> n % 7 # 0 /\ n % 7 # 6)
  OBVIOUS
<1> QED
  BY <1>1 DEF IsWorkingDay, Weekday, Saturday, Sunday

(* A deadline is the first day from the end of its period on that is neither a
   Saturday, nor a Sunday, nor a holiday of the snapshot, whatever the date of
   receipt and whatever the snapshot: _add_months and _next_working_day
   together compute what the law counts. *)
THEOREM FirstWorkingDays == Spec => []FirstWorkingDay
<1>1. ASSUME RolledInv PROVE FirstWorkingDay
  <2> SUFFICES ASSUME NEW p \in Periods
               PROVE  LET nominal == Ordinal(NominalEnd(received, Months[p]))
                          Free(n) == Saturday(n) \/ Sunday(n) \/ n \in holidays
                      IN  /\ due[p] >= nominal
                          /\ \A n \in nominal..(due[p] - 1) : Free(n)
                          /\ Calculated => ~Free(due[p])
    BY DEF FirstWorkingDay
  <2> DEFINE nominal == Nominal(received)[p]
  <2>1. Months[p] \in 1..3
    BY PeriodsAre DEF Months
  <2>2. nominal = Ordinal(NominalEnd(received, Months[p])) /\ nominal \in Int
    BY <1>1, <2>1, ReceiptsAreDates, AddMonthsIsNominalEnd, NominalIsInt DEF Nominal, RolledInv
  <2>3. /\ due[p] \in Int /\ due[p] >= nominal
        /\ \A n \in nominal..(due[p] - 1) : ~IsWorkingDay(n)
    BY <1>1 DEF RolledInv
  <2> HIDE DEF nominal
  <2>4. \A n \in nominal..(due[p] - 1) : n \in Int
    BY <2>2, <2>3
  <2>5. Calculated => IsWorkingDay(due[p])
    BY DEF Calculated
  <2> QED
    BY <2>2, <2>3, <2>4, <2>5, FreeDays
<1> QED
  BY <1>1, SpecRolled, PTL

-----------------------------------------------------------------------------
(* Easter. The arithmetic of one division each, for the leaves of the proof. *)
LEMMA YearSplit ==
  ASSUME NEW y \in Nat
  PROVE  \E q \in Nat, d \in 0..3, e \in 0..24, k \in 0..3 :
           /\ y = 400 * q + 100 * d + 4 * e + k
           /\ y \div 100 = 4 * q + d /\ y % 100 = 4 * e + k
           /\ (y \div 100) \div 4 = q /\ (y \div 100) % 4 = d
           /\ (y % 100) \div 4 = e /\ (y % 100) % 4 = k
           /\ y \div 400 = q /\ y \div 4 = 100 * q + 25 * d + e
           /\ (5 * y) \div 4 = 500 * q + 125 * d + 5 * e + k
<1>1. PICK b \in Nat, c \in 0..99 : y = 100 * b + c
  <2>1. y \div 100 \in Nat /\ y % 100 \in 0..99 /\ y = 100 * (y \div 100) + (y % 100)
    OBVIOUS
  <2> QED
    BY <2>1
<1>2. PICK q \in Nat, d \in 0..3 : b = 4 * q + d
  <2>1. b \div 4 \in Nat /\ b % 4 \in 0..3 /\ b = 4 * (b \div 4) + (b % 4)
    OBVIOUS
  <2> QED
    BY <2>1
<1>3. PICK e \in 0..24, k \in 0..3 : c = 4 * e + k
  <2>1. c \div 4 \in 0..24 /\ c % 4 \in 0..3 /\ c = 4 * (c \div 4) + (c % 4)
    OBVIOUS
  <2> QED
    BY <2>1
<1>4. y = 400 * q + 100 * d + 4 * e + k
  BY <1>1, <1>2, <1>3
<1>5. y \div 100 = b /\ y % 100 = c
  BY <1>1
<1>6. b \div 4 = q /\ b % 4 = d
  BY <1>2
<1>7. c \div 4 = e /\ c % 4 = k
  BY <1>3
<1>8. y \div 400 = q
  <2>1. y = 400 * q + (100 * d + 4 * e + k) /\ 100 * d + 4 * e + k \in 0..399
    BY <1>4
  <2> QED
    BY <2>1
<1>9. y \div 4 = 100 * q + 25 * d + e
  <2>1. y = 4 * (100 * q + 25 * d + e) + k
    BY <1>4
  <2> QED
    BY <2>1
<1>10. (5 * y) \div 4 = 500 * q + 125 * d + 5 * e + k
  <2>1. 5 * y = 4 * (500 * q + 125 * d + 5 * e + k) + k
    BY <1>4
  <2> QED
    BY <2>1
<1> QED
  BY <1>2, <1>3, <1>4, <1>5, <1>6, <1>7, <1>8, <1>9, <1>10

(* The corrections of a century: the algorithms write the same ones. *)
LEMMA SolarCorrection ==
  ASSUME NEW q \in Nat, NEW d \in 0..3
  PROVE  (3 * (4 * q + d + 1)) \div 4 = 3 * q + d
<1>1. PICK x : x = 3 * (4 * q + d + 1)
  OBVIOUS
<1>2. x \in Int /\ x = 4 * (3 * q + d) + (3 - d) /\ 3 - d \in 0..3
  BY <1>1
<1>3. x \div 4 = 3 * q + d
  BY <1>2
<1> QED
  BY <1>1, <1>3

LEMMA LunarCorrection ==
  ASSUME NEW b \in Nat
  PROVE  /\ (b - ((b + 8) \div 25) + 1) \div 3 = (8 * (b + 1) + 5) \div 25
         /\ (8 * (b + 1) + 5) \div 25 \in Nat
<1>1. PICK t \in Nat, r \in 0..24 : b = 25 * t + r
  <2>1. b \div 25 \in Nat /\ b % 25 \in 0..24 /\ b = 25 * (b \div 25) + (b % 25)
    OBVIOUS
  <2> QED
    BY <2>1
<1>2. PICK z \in 0..8 : 8 * r + 13 \in (25 * z)..(25 * z + 24)
  <2>1. (8 * r + 13) \div 25 \in 0..8
    OBVIOUS
  <2>2. 8 * r + 13 \in (25 * ((8 * r + 13) \div 25))..(25 * ((8 * r + 13) \div 25) + 24)
    OBVIOUS
  <2> QED
    BY <2>1, <2>2
<1>3. (8 * (b + 1) + 5) \div 25 = 8 * t + z
  <2>1. PICK x : x = 8 * (b + 1) + 5
    OBVIOUS
  <2>2. x \in Int /\ x >= 25 * (8 * t + z) /\ x <= 25 * (8 * t + z) + 24
    BY <1>1, <1>2, <2>1
  <2>3. x \div 25 = 8 * t + z
    BY <2>2
  <2> QED
    BY <2>1, <2>3
<1>4. PICK v \in {0, 1} : (b + 8) \div 25 = t + v /\ (v = 1 <=> r >= 17)
  <2>1. CASE r >= 17
    <3>1. b + 8 >= 25 * (t + 1) /\ b + 8 <= 25 * (t + 1) + 24
      BY <1>1, <2>1
    <3>2. (b + 8) \div 25 = t + 1
      BY <3>1
    <3> QED
      BY <2>1, <3>2
  <2>2. CASE r < 17
    <3>1. b + 8 >= 25 * t /\ b + 8 <= 25 * t + 24
      BY <1>1, <2>2
    <3>2. (b + 8) \div 25 = t
      BY <3>1
    <3> QED
      BY <2>2, <3>2
  <2> QED
    BY <2>1, <2>2
<1>5. PICK x : x = b - ((b + 8) \div 25) + 1
  OBVIOUS
<1>6. x \in Int /\ x = 24 * t + (r - v + 1)
  BY <1>1, <1>4, <1>5
<1>7. r - v + 1 \in (3 * z)..(3 * z + 2)
  BY <1>2, <1>4
<1>8. x \div 3 = 8 * t + z
  BY <1>6, <1>7
<1> QED
  BY <1>3, <1>5, <1>8

(* The day of the full moon's month, counted from the last of February. *)
InSpring(y, day) == IF day > 31 THEN Date(y, 4, day - 31) ELSE Date(y, 3, day)

(* The moon: h days after the twenty-first of March, and a day less where the
   epact is 25 or 24. *)
Late(a, h) == h = 29 \/ (h = 28 /\ a > 10)

(* What h, l and m of the anonymous algorithm come to. *)
LEMMA Corrected ==
  ASSUME NEW a \in 0..18, NEW h \in 0..29, NEW l \in 0..6
  PROVE  (a + 11 * h + 22 * l) \div 451 = IF l = 6 /\ Late(a, h) THEN 1 ELSE 0
<1>1. PICK x : x = a + 11 * h + 22 * l
  OBVIOUS
<1>2. x \in 0..469 /\ (x >= 451 <=> l = 6 /\ Late(a, h))
  BY <1>1 DEF Late
<1>3. x \div 451 = IF x >= 451 THEN 1 ELSE 0
  BY <1>2
<1> QED
  BY <1>1, <1>2, <1>3

LEMMA MonthAndDay ==
  ASSUME NEW y \in Nat, NEW n \in 114..148
  PROVE  Date(y, n \div 31, (n % 31) + 1) = InSpring(y, n - 92)
<1>1. CASE n < 124
  <2>1. n \div 31 = 3 /\ (n % 31) + 1 = n - 92 /\ ~(n - 92 > 31)
    BY <1>1
  <2> QED
    BY <2>1 DEF InSpring
<1>2. CASE n >= 124
  <2>1. n \div 31 = 4 /\ (n % 31) + 1 = n - 92 - 31 /\ n - 92 > 31
    BY <1>2
  <2> QED
    BY <2>1 DEF InSpring
<1> QED
  BY <1>1, <1>2

(* s days after the last of February of the year 400q + 100d + 4e + k is a
   Sunday when s more than Concurrent makes whole weeks. *)
Concurrent(q, d, e, k) == 497 * q + 124 * d + 5 * e + k + 2

(* The numbers both algorithms go through for the year y: its parts, the lunar
   correction z, the golden number less one a, the moon's lateness h, the days
   l from there to Saturday, the moon, and the Sunday x after it. *)
Numbers(y, q, d, e, k, z, a, h, l, moon, s, x) ==
  /\ y \in Nat /\ y # 0 /\ q \in Nat /\ d \in 0..3 /\ e \in 0..24 /\ k \in 0..3
  /\ y = 400 * q + 100 * d + 4 * e + k
  /\ y \div 100 = 4 * q + d /\ y % 100 = 4 * e + k
  /\ (5 * y) \div 4 = 500 * q + 125 * d + 5 * e + k
  /\ z \in Nat /\ ((4 * q + d) - ((4 * q + d + 8) \div 25) + 1) \div 3 = z
  /\ (8 * ((4 * q + d) + 1) + 5) \div 25 = z
  /\ a \in 0..18 /\ a = y % 19
  /\ h \in 0..29 /\ h = (19 * a + 3 * q + d - z + 15) % 30
  /\ l \in 0..6 /\ l = (32 + 2 * d + 2 * e - h - k) % 7
  /\ moon = 21 + h - (IF Late(a, h) THEN 1 ELSE 0)
  /\ s = Concurrent(q, d, e, k)
  /\ x = moon + 7 - ((s + moon) % 7)

(* The anonymous algorithm, for the year 400q + 100d + 4e + k. *)
LEMMA AnonymousEaster ==
  ASSUME NEW y, NEW q, NEW d, NEW e, NEW k, NEW z, NEW a, NEW h, NEW l, NEW moon, NEW s, NEW x,
         Numbers(y, q, d, e, k, z, a, h, l, moon, s, x)
  PROVE  EasterSunday(y) = InSpring(y, 22 + h + l - (IF l = 6 /\ Late(a, h) THEN 7 ELSE 0))
<1> USE DEF Numbers
<1>2. PICK b \in Nat, c \in Nat : b = 4 * q + d /\ c = 4 * e + k
  OBVIOUS
<1>3. /\ b \div 4 = q /\ b % 4 = d /\ c \div 4 = e /\ c % 4 = k
  BY <1>2
<1>4. PICK m : m = (a + 11 * h + 22 * l) \div 451
  OBVIOUS
<1>5. m = IF l = 6 /\ Late(a, h) THEN 1 ELSE 0
  BY <1>4, Corrected
<1>6. PICK n : n = h + l - 7 * m + 114
  OBVIOUS
<1>7. EasterSunday(y) = Date(y, n \div 31, (n % 31) + 1)
  <2> DEFINE A == y % 19
             B == y \div 100
             C == y % 100
             G == (B - ((B + 8) \div 25) + 1) \div 3
             H == (19 * A + B - (B \div 4) - G + 15) % 30
             L == (32 + 2 * (B % 4) + 2 * (C \div 4) - H - (C % 4)) % 7
             M == (A + 11 * H + 22 * L) \div 451
             N == H + L - 7 * M + 114
  <2>1. EasterSunday(y) = Date(y, N \div 31, (N % 31) + 1)
    BY DEF EasterSunday
  <2>2. A = a /\ B = b /\ C = c
    BY <1>2
  <2> HIDE DEF A, B, C
  <2>3. G = z
    BY <1>2, <2>2
  <2> HIDE DEF G
  <2>4. H = h
    <3>1. 19 * A + B - (B \div 4) - G + 15 = 19 * a + 3 * q + d - z + 15
      BY <1>2, <1>3, <2>2, <2>3
    <3> QED
      BY <3>1
  <2> HIDE DEF H
  <2>5. L = l
    <3>1. 32 + 2 * (B % 4) + 2 * (C \div 4) - H - (C % 4) = 32 + 2 * d + 2 * e - h - k
      BY <1>3, <2>2, <2>4
    <3> QED
      BY <3>1
  <2> HIDE DEF L
  <2>6. M = m
    BY <1>4, <2>2, <2>4, <2>5
  <2> HIDE DEF M
  <2>7. N = n
    BY <1>6, <2>4, <2>5, <2>6
  <2> HIDE DEF N
  <2> QED
    BY <2>1, <2>7
<1>8. n \in 114..148 /\ n - 92 = 22 + h + l - (IF l = 6 /\ Late(a, h) THEN 7 ELSE 0)
  <2>1. CASE l = 6 /\ Late(a, h)
    BY <1>5, <1>6, <2>1 DEF Late
  <2>2. CASE ~(l = 6 /\ Late(a, h))
    BY <1>5, <1>6, <2>2 DEF Late
  <2> QED
    BY <2>1, <2>2
<1> QED
  BY <1>7, <1>8, MonthAndDay

(* The computus, for the same year. *)
LEMMA ComputusEaster ==
  ASSUME NEW y, NEW q, NEW d, NEW e, NEW k, NEW z, NEW a, NEW h, NEW l, NEW moon, NEW s, NEW x,
         Numbers(y, q, d, e, k, z, a, h, l, moon, s, x)
  PROVE  Computus(y) = InSpring(y, moon + 7 - ((s + moon) % 7))
<1> USE DEF Numbers
<1> DEFINE golden  == (y % 19) + 1
           century == (y \div 100) + 1
           solar   == ((3 * century) \div 4) - 12
           lunar   == ((8 * century + 5) \div 25) - 5
           sunday  == ((5 * y) \div 4) - solar - 10
           age     == (11 * golden + 20 + lunar - solar) % 30
           epact   == IF (age = 25 /\ golden > 11) \/ age = 24 THEN age + 1 ELSE age
           full    == IF 44 - epact < 21 THEN 74 - epact ELSE 44 - epact
           march   == full + 7 - ((sunday + full) % 7)
<1>1. Computus(y) = InSpring(y, march)
  BY DEF Computus, InSpring
<1>2. golden = a + 1 /\ century = 4 * q + d + 1
  OBVIOUS
<1> HIDE DEF golden, century
<1>3. solar = 3 * q + d - 12
  BY <1>2, SolarCorrection
<1>4. lunar = z - 5
  BY <1>2
<1> HIDE DEF solar, lunar
<1>5. sunday = s
  BY <1>3 DEF Concurrent
<1>6. age = IF h <= 23 THEN 23 - h ELSE 53 - h
  <2>1. PICK u \in Int : u = 19 * a + 3 * q + d - z + 15
    OBVIOUS
  <2>2. h = u % 30
    BY <2>1
  <2>3. PICK w \in Int : u = 30 * w + h
    <3>1. u \div 30 \in Int /\ u = 30 * (u \div 30) + (u % 30)
      OBVIOUS
    <3> QED
      BY <2>2, <3>1
  <2>4. 11 * golden + 20 + lunar - solar = 30 * (a - w) + 53 - h
    BY <1>2, <1>3, <1>4, <2>1, <2>3
  <2>5. PICK v \in Int : v = a - w
    OBVIOUS
  <2>6. CASE h <= 23
    <3>1. 11 * golden + 20 + lunar - solar = 30 * (v + 1) + (23 - h)
      BY <2>4, <2>5
    <3>2. (30 * (v + 1) + (23 - h)) % 30 = 23 - h
      BY <2>6
    <3> QED
      BY <2>6, <3>1, <3>2
  <2>7. CASE h > 23
    <3>1. 11 * golden + 20 + lunar - solar = 30 * v + (53 - h)
      BY <2>4, <2>5
    <3>2. (30 * v + (53 - h)) % 30 = 53 - h
      BY <2>7
    <3> QED
      BY <2>7, <3>1, <3>2
  <2> QED
    BY <2>6, <2>7
<1> HIDE DEF age, sunday
<1>7. full = moon
  BY <1>2, <1>6 DEF Late
<1> HIDE DEF full
<1>8. march = moon + 7 - ((s + moon) % 7)
  BY <1>5, <1>7
<1> QED
  BY <1>1, <1>8

LEMMA Weeks ==
  ASSUME NEW u \in Int PROVE u % 7 \in 0..6 /\ \E w \in Int : u = 7 * w + (u % 7)
<1>1. u % 7 \in 0..6 /\ u \div 7 \in Int /\ u = 7 * (u \div 7) + (u % 7)
  OBVIOUS
<1> QED
  BY <1>1

(* Both find the same day, and s days and that day make whole weeks. *)
LEMMA SameDay ==
  ASSUME NEW y, NEW q, NEW d, NEW e, NEW k, NEW z, NEW a, NEW h, NEW l, NEW moon, NEW s, NEW x,
         Numbers(y, q, d, e, k, z, a, h, l, moon, s, x)
  PROVE  /\ x \in 21..57 /\ (s + x) % 7 = 0
         /\ x = 22 + h + l - (IF l = 6 /\ Late(a, h) THEN 7 ELSE 0)
<1>0. /\ q \in Nat /\ d \in 0..3 /\ e \in 0..24 /\ k \in 0..3 /\ h \in 0..29 /\ l \in 0..6
      /\ moon = 21 + h - (IF Late(a, h) THEN 1 ELSE 0)
  BY DEF Numbers
<1>1. /\ s \in Nat /\ s = 497 * q + 124 * d + 5 * e + k + 2
      /\ moon \in 20..50 /\ moon \in Int
  BY <1>0 DEF Numbers, Concurrent
<1>2. PICK t \in 0..6, w \in Int : s + h = 7 * w + t
  <2>1. PICK u \in Int : u = s + h
    BY <1>0, <1>1
  <2> QED
    BY <2>1, Weeks
<1>3. PICK v \in Int : 32 + 2 * d + 2 * e - h - k = 7 * v + l
  <2>1. PICK u \in Int : u = 32 + 2 * d + 2 * e - h - k
    BY <1>0
  <2>2. l = u % 7
    BY <2>1 DEF Numbers
  <2> QED
    BY <2>1, <2>2, Weeks
<1>4. l = 6 - t
  <2>1. PICK p \in Int : p = w + v - 71 * q - 18 * d - e - 4
    BY <1>0
  <2>2. 7 * p + (l + t) = 6
    BY <1>0, <1>1, <1>2, <1>3, <2>1
  <2> QED
    BY <1>0, <2>2
<1>5. (s + moon) % 7 = IF Late(a, h) THEN (IF t = 0 THEN 6 ELSE t - 1) ELSE t
  <2>1. CASE ~Late(a, h)
    <3>1. s + moon = 7 * (w + 3) + t
      BY <1>0, <1>1, <1>2, <2>1
    <3>2. (7 * (w + 3) + t) % 7 = t
      OBVIOUS
    <3> QED
      BY <2>1, <3>1, <3>2
  <2>2. CASE Late(a, h) /\ t = 0
    <3>1. s + moon = 7 * (w + 2) + 6
      BY <1>0, <1>1, <1>2, <2>2
    <3>2. (7 * (w + 2) + 6) % 7 = 6
      OBVIOUS
    <3> QED
      BY <2>2, <3>1, <3>2
  <2>3. CASE Late(a, h) /\ t # 0
    <3>1. s + moon = 7 * (w + 3) + (t - 1) /\ t - 1 \in 0..6
      BY <1>0, <1>1, <1>2, <2>3
    <3>2. (7 * (w + 3) + (t - 1)) % 7 = t - 1
      BY <3>1
    <3> QED
      BY <2>3, <3>1, <3>2
  <2> QED
    BY <2>1, <2>2, <2>3
<1>6. PICK r \in 0..6 : r = (s + moon) % 7 /\ x = moon + 7 - r
  <2>1. PICK u \in Int : u = s + moon
    BY <1>1
  <2>2. PICK r \in 0..6 : r = u % 7
    BY Weeks
  <2>3. x = moon + 7 - r
    BY <2>1, <2>2 DEF Numbers
  <2> QED
    BY <2>1, <2>2, <2>3
<1>7. x \in 21..57 /\ x = 22 + h + l - (IF l = 6 /\ Late(a, h) THEN 7 ELSE 0)
  <2>1. CASE ~Late(a, h)
    BY <1>0, <1>4, <1>5, <1>6, <2>1
  <2>2. CASE Late(a, h)
    <3>1. h \in 28..29
      BY <1>0, <2>2 DEF Late
    <3> QED
      BY <1>0, <1>4, <1>5, <1>6, <2>2, <3>1
  <2> QED
    BY <2>1, <2>2
<1>8. (s + x) % 7 = 0
  <2>1. PICK u \in Int : u = s + moon
    BY <1>1
  <2>3. PICK p \in Int : u = 7 * p + r
    BY <1>6, <2>1, Weeks
  <2>4. s + x = 7 * (p + 1)
    <3>1. x = moon + 7 - r
      BY <1>6
    <3> QED
      BY <1>1, <2>1, <2>3, <3>1
  <2>5. (7 * (p + 1)) % 7 = 0
    OBVIOUS
  <2> QED
    BY <2>4, <2>5
<1> QED
  BY <1>7, <1>8

(* The leap days before a date in March or April, of its own year included. *)
LeapCount(y) ==
  ((y - 1) \div 4) - ((y - 1) \div 100) + ((y - 1) \div 400) + (IF LeapYear(y) THEN 1 ELSE 0)

LEMMA LeapDays ==
  ASSUME NEW y \in Nat \ {0}, NEW q \in Nat, NEW d \in 0..3, NEW e \in 0..24, NEW k \in 0..3,
         y = 400 * q + 100 * d + 4 * e + k
  PROVE  LeapCount(y) = 97 * q + 24 * d + e
<1> USE DEF LeapCount
<1>1. PICK p \in Nat : p = y - 1
  OBVIOUS
<1>2. CASE k # 0
  <2>1. p = 400 * q + 100 * d + 4 * e + (k - 1) /\ k - 1 \in 0..2
    BY <1>1, <1>2
  <2>2. p \div 4 = 100 * q + 25 * d + e
    BY <2>1
  <2>3. p \div 100 = 4 * q + d /\ p \div 400 = q
    BY <2>1
  <2>4. y % 4 = k
    BY <1>1
  <2>5. ~LeapYear(y)
    BY <1>2, <2>4 DEF LeapYear
  <2> QED
    BY <1>1, <2>2, <2>3, <2>5
<1>3. CASE k = 0 /\ e # 0
  <2>1. p = 400 * q + 100 * d + 4 * (e - 1) + 3 /\ e - 1 \in 0..23
    BY <1>1, <1>3
  <2>2. p \div 4 = 100 * q + 25 * d + (e - 1)
    BY <2>1
  <2>3. p \div 100 = 4 * q + d /\ p \div 400 = q
    BY <2>1
  <2>4. y % 4 = 0 /\ y % 100 = 4 * e
    BY <1>3
  <2>5. LeapYear(y)
    BY <1>3, <2>4 DEF LeapYear
  <2> QED
    BY <1>1, <2>2, <2>3, <2>5
<1>4. CASE k = 0 /\ e = 0 /\ d # 0
  <2>1. p = 400 * q + 100 * (d - 1) + 99 /\ d - 1 \in 0..2
    BY <1>1, <1>4
  <2>2. p \div 4 = 100 * q + 25 * (d - 1) + 24
    BY <2>1
  <2>3. p \div 100 = 4 * q + (d - 1) /\ p \div 400 = q
    BY <2>1
  <2>4. y % 100 = 0 /\ y % 400 = 100 * d
    BY <1>4
  <2>5. ~LeapYear(y)
    BY <1>4, <2>4 DEF LeapYear
  <2> QED
    BY <1>1, <1>4, <2>2, <2>3, <2>5
<1>5. CASE k = 0 /\ e = 0 /\ d = 0
  <2>1. p = 400 * (q - 1) + 399 /\ q - 1 \in Nat
    BY <1>1, <1>5
  <2>2. p \div 4 = 100 * (q - 1) + 99
    BY <2>1
  <2>3. p \div 100 = 4 * (q - 1) + 3 /\ p \div 400 = q - 1
    BY <2>1
  <2>4. y % 4 = 0 /\ y % 400 = 0
    BY <1>5
  <2>5. LeapYear(y)
    BY <2>4 DEF LeapYear
  <2> QED
    BY <1>1, <1>5, <2>1, <2>2, <2>3, <2>5
<1> QED
  BY <1>2, <1>3, <1>4, <1>5

LEMMA SpringOrdinal ==
  ASSUME NEW y \in Nat \ {0}, NEW x \in 1..61
  PROVE  Ordinal(InSpring(y, x)) = 365 * (y - 1) + LeapCount(y) + 59 + x
<1>1. PICK leap \in {0, 1} : leap = IF LeapYear(y) THEN 1 ELSE 0
  OBVIOUS
<1>2. PICK past \in Int : past = 365 * (y - 1) + ((y - 1) \div 4) - ((y - 1) \div 100)
                                 + ((y - 1) \div 400)
  OBVIOUS
<1>3. past + leap = 365 * (y - 1) + LeapCount(y)
  BY <1>1, <1>2 DEF LeapCount
<1>4. CASE x > 31
  <2>1. PICK day \in Nat : day = x - 31
    BY <1>4
  <2>2. InSpring(y, x) = Date(y, 4, day)
    BY <1>4, <2>1 DEF InSpring
  <2>3. Ordinal(Date(y, 4, day)) = past + 90 + leap + day
    BY <1>1, <1>2 DEF Ordinal, Date, DaysBeforeMonth
  <2> QED
    BY <1>1, <1>3, <2>1, <2>2, <2>3
<1>5. CASE ~(x > 31)
  <2>1. InSpring(y, x) = Date(y, 3, x)
    BY <1>5 DEF InSpring
  <2>2. Ordinal(Date(y, 3, x)) = past + 59 + leap + x
    BY <1>1, <1>2 DEF Ordinal, Date, DaysBeforeMonth
  <2> QED
    BY <1>1, <1>3, <2>1, <2>2
<1> QED
  BY <1>4, <1>5

LEMMA SpringSunday ==
  ASSUME NEW y, NEW q, NEW d, NEW e, NEW k, NEW z, NEW a, NEW h, NEW l, NEW moon, NEW s, NEW x,
         Numbers(y, q, d, e, k, z, a, h, l, moon, s, x)
  PROVE  Sunday(Ordinal(InSpring(y, x)))
<1>1. /\ y \in Nat \ {0} /\ q \in Nat /\ d \in 0..3 /\ e \in 0..24 /\ k \in 0..3
      /\ y = 400 * q + 100 * d + 4 * e + k
  BY DEF Numbers
<1>2. x \in 1..61 /\ (s + x) % 7 = 0
  BY SameDay
<1>3. s \in Nat /\ s = 497 * q + 124 * d + 5 * e + k + 2
  BY <1>1 DEF Numbers, Concurrent
<1>4. PICK w \in Int : s + x = 7 * w
  <2>1. PICK u \in Int : u = s + x
    BY <1>2, <1>3
  <2> QED
    BY <1>2, <2>1, Weeks
<1>5. PICK o : o = Ordinal(InSpring(y, x))
  OBVIOUS
<1>6. o = 365 * (y - 1) + (97 * q + 24 * d + e) + 59 + x
  <2>1. LeapCount(y) = 97 * q + 24 * d + e
    BY <1>1, LeapDays
  <2>2. o = 365 * (y - 1) + LeapCount(y) + 59 + x
    BY <1>1, <1>2, <1>5, SpringOrdinal
  <2> QED
    BY <2>1, <2>2
<1>7. PICK v \in Int : v = w + 20800 * q + 5200 * d + 208 * e + 52 * k - 44
  BY <1>1
<1>8. o = 7 * v
  BY <1>1, <1>2, <1>3, <1>4, <1>6, <1>7
<1>9. (7 * v) % 7 = 0
  OBVIOUS
<1> QED
  BY <1>5, <1>8, <1>9 DEF Sunday

(* The two algorithms agree, and on a Sunday, whatever the year. *)
LEMMA EasterIs ==
  ASSUME NEW y \in Nat \ {0}
  PROVE  EasterSunday(y) = Computus(y) /\ Sunday(Ordinal(EasterSunday(y)))
<1>1. PICK q \in Nat, d \in 0..3, e \in 0..24, k \in 0..3 :
         /\ y = 400 * q + 100 * d + 4 * e + k
         /\ y \div 100 = 4 * q + d /\ y % 100 = 4 * e + k
         /\ (5 * y) \div 4 = 500 * q + 125 * d + 5 * e + k
  BY YearSplit
<1>2. PICK z \in Nat : /\ ((4 * q + d) - ((4 * q + d + 8) \div 25) + 1) \div 3 = z
                       /\ (8 * ((4 * q + d) + 1) + 5) \div 25 = z
  BY LunarCorrection
<1>3. PICK a \in 0..18 : a = y % 19
  OBVIOUS
<1>4. PICK h : h = (19 * a + 3 * q + d - z + 15) % 30
  OBVIOUS
<1>5. PICK l : l = (32 + 2 * d + 2 * e - h - k) % 7
  OBVIOUS
<1>6. h \in 0..29 /\ l \in 0..6
  <2>1. PICK u \in Int : u = 19 * a + 3 * q + d - z + 15
    OBVIOUS
  <2>2. u % 30 \in 0..29 /\ h = u % 30
    BY <1>4, <2>1
  <2>3. PICK v \in Int : v = 32 + 2 * d + 2 * e - h - k
    BY <2>2
  <2>4. v % 7 \in 0..6 /\ l = v % 7
    BY <1>5, <2>3
  <2> QED
    BY <2>2, <2>4
<1>7. PICK moon, s : /\ moon = 21 + h - (IF Late(a, h) THEN 1 ELSE 0)
                     /\ s = Concurrent(q, d, e, k)
  OBVIOUS
<1>8. PICK x : x = moon + 7 - ((s + moon) % 7)
  OBVIOUS
<1>9. Numbers(y, q, d, e, k, z, a, h, l, moon, s, x)
  BY <1>1, <1>2, <1>3, <1>4, <1>5, <1>6, <1>7, <1>8, Zenon DEF Numbers
<1>10. /\ EasterSunday(y) = InSpring(y, x) /\ Computus(y) = InSpring(y, x)
       /\ Sunday(Ordinal(InSpring(y, x)))
  <2>1. EasterSunday(y) = InSpring(y, 22 + h + l - (IF l = 6 /\ Late(a, h) THEN 7 ELSE 0))
    BY <1>9, AnonymousEaster
  <2>2. Computus(y) = InSpring(y, moon + 7 - ((s + moon) % 7))
    BY <1>9, ComputusEaster
  <2>3. x = 22 + h + l - (IF l = 6 /\ Late(a, h) THEN 7 ELSE 0)
    BY <1>9, SameDay
  <2>4. Sunday(Ordinal(InSpring(y, x)))
    BY <1>9, SpringSunday
  <2> QED
    BY <1>8, <2>1, <2>2, <2>3, <2>4, Zenon
<1> QED
  BY <1>10

(* Easter is the Sunday of the computus in every year of receipt, the years too
   in which the epact makes an exception: _gregorian_easter_sunday. *)
THEOREM EasterIsRight == Spec => []EasterFollowsComputus
<1>1. ASSUME RolledInv PROVE EasterFollowsComputus
  <2>1. received.year \in Nat \ {0}
    BY <1>1, ReceiptsAreDates DEF RolledInv, IsDate
  <2> QED
    BY <2>1, EasterIs DEF EasterFollowsComputus
<1> QED
  BY <1>1, SpecRolled, PTL

=============================================================================
