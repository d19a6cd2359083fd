--------------------------- MODULE CalendarProofs ---------------------------
(***************************************************************************)
(* Calendar triggers, for every date from year 1 on, every specification,  *)
(* time zone and time of day: a trigger is due at the first moment that    *)
(* matches, by a calendar that knows only the lengths of the months.       *)
(*                                                                         *)
(* The conversions of trigger.rs count days in eras of 400 years that      *)
(* begin in March.  They are shown to be the almanac's count, and each     *)
(* other's inverse; then the candidates of next_monthly are the days of    *)
(* the almanac, and it is enough to look two months ahead.                 *)
(***************************************************************************)
EXTENDS Calendar, WellFoundedInduction, TLAPS

Dates == {c \in [y : Nat \ {0}, m : 1 .. 12, d : 1 .. 31] : c.d <= LastDay(c.y, c.m)}

AlmanacInv == date \in Dates /\ day = DayNumber(date)

(* The least of a set is known when it is seen. *)
LEMMA LeastIs ==
    ASSUME NEW S, S \subseteq Int, NEW a \in S, \A x \in S : a <= x
    PROVE  Min(S) = a
<1>1. ASSUME NEW b \in S, \A x \in S : b <= x
      PROVE  b = a
  BY <1>1
<1> QED
  BY <1>1 DEF Min

-----------------------------------------------------------------------------
(* Days and dates.  A date's year begins in March. *)
MarchYear(y, m) == IF m <= 2 THEN y - 1 ELSE y
MarchMonth(m) == IF m > 2 THEN m - 3 ELSE m + 9

(* The last day of each month *)
LEMMA MonthLengths ==
    ASSUME NEW y \in Nat, NEW m \in 1 .. 12
    PROVE  /\ LeapDay(y) \in {0, 1}
           /\ LastDay(y, m) \in 28 .. 31
           /\ LastDay(y, m) = IF m = 2 THEN 28 + LeapDay(y)
                              ELSE IF m \in {4, 6, 9, 11} THEN 30 ELSE 31
  BY DEF LastDay, LengthOf, LeapDay

(* days_in_month knows the same lengths. *)
LEMMA SameLengths ==
    ASSUME NEW y \in Nat, NEW m \in 1 .. 12
    PROVE  DaysInMonth(y, m) = LastDay(y, m)
<1>1. IsLeap(y) <=> LeapDay(y) = 1
  BY DEF IsLeap, LeapDay
<1>2. LeapDay(y) \in {0, 1}
  BY MonthLengths
<1>3. CASE m = 2
  BY <1>1, <1>2, <1>3, MonthLengths DEF DaysInMonth
<1>4. CASE m # 2
  BY <1>4, MonthLengths DEF DaysInMonth
<1> QED
  BY <1>3, <1>4

(* unix_days_from_civil counts as the almanac does. *)
LEMMA CountsAlike ==
    ASSUME NEW c \in Dates
    PROVE  UnixDaysFromCivil(c.y, c.m, c.d) = DayNumber(c)
<1> DEFINE y == MarchYear(c.y, c.m)
           era == y \div 400
           yoe == y - era * 400
           doy == (153 * MarchMonth(c.m) + 2) \div 5 + c.d - 1
<1>1. c.y \in Nat \ {0} /\ c.m \in 1 .. 12 /\ c.d \in 1 .. 31 /\ y \in Nat
  BY DEF Dates, MarchYear
<1>2. UnixDaysFromCivil(c.y, c.m, c.d)
        = era * 146097 + (yoe * 365 + yoe \div 4 - yoe \div 100 + doy) - 719468
  BY <1>1 DEF UnixDaysFromCivil, Truncated, MarchYear, MarchMonth
<1>3. era * 146097 + (yoe * 365 + yoe \div 4 - yoe \div 100) = 365 * y + y \div 4 - y \div 100 + y \div 400
  <2> HIDE DEF y
  <2> QED BY <1>1
<1>4. UnixDaysFromCivil(c.y, c.m, c.d) = 365 * y + y \div 4 - y \div 100 + y \div 400 + doy - 719468
  <2>1. /\ era \in Int /\ yoe \in Int /\ doy \in Int /\ yoe \div 4 \in Int /\ yoe \div 100 \in Int
        /\ y \div 4 \in Int /\ y \div 100 \in Int /\ y \div 400 \in Int
    BY <1>1 DEF MarchMonth
  <2> HIDE DEF era, yoe, doy, y
  <2> QED BY <1>1, <1>2, <1>3, <2>1
<1>5. LeapDaysBefore(1970) = 477
  BY DEF LeapDaysBefore
<1>6. CASE c.m <= 2
  <2>1. y = c.y - 1 /\ (c.m = 1 \/ c.m = 2)
    BY <1>1, <1>6 DEF MarchYear
  <2>2. doy = (IF c.m = 1 THEN 306 ELSE 337) + c.d - 1
    BY <1>1, <2>1 DEF MarchMonth
  <2>3. DaysBefore[c.m] = IF c.m = 1 THEN 0 ELSE 31
    BY <2>1 DEF DaysBefore
  <2> QED
    BY <1>1, <1>4, <1>5, <1>6, <2>1, <2>2, <2>3 DEF DayNumber, LeapDaysBefore
<1>7. CASE c.m > 2
  <2>1. y = c.y
    BY <1>1, <1>7 DEF MarchYear
  <2>2. doy = DaysBefore[c.m] - 59 + c.d - 1 /\ DaysBefore[c.m] \in Nat
    BY <1>1, <1>7 DEF MarchMonth, DaysBefore
  <2>3. c.y \div 4 - c.y \div 100 + c.y \div 400 = LeapDaysBefore(c.y) + LeapDay(c.y)
    BY <1>1 DEF LeapDaysBefore, LeapDay
  <2>4. LeapDaysBefore(c.y) \in Int /\ LeapDay(c.y) \in Int
    BY <1>1 DEF LeapDaysBefore, LeapDay
  <2>5. DayNumber(c) = 365 * (c.y - 1970) + (LeapDaysBefore(c.y) - 477) + DaysBefore[c.m] + LeapDay(c.y) + c.d - 1
    BY <1>5, <1>7 DEF DayNumber
  <2>6. UnixDaysFromCivil(c.y, c.m, c.d)
          = 365 * c.y + (LeapDaysBefore(c.y) + LeapDay(c.y)) + (DaysBefore[c.m] - 59 + c.d - 1) - 719468
    <3>1. y \div 4 \in Int /\ y \div 100 \in Int /\ y \div 400 \in Int
      BY <1>1
    <3> HIDE DEF y, doy
    <3> QED BY <1>1, <1>4, <2>1, <2>2, <2>3, <2>4, <3>1, SMT
  <2> QED
    BY <1>1, <2>2, <2>4, <2>5, <2>6, SMT
<1> QED
  BY <1>1, <1>6, <1>7


(* Leap days are counted year by year. *)
LEMMA LeapDaysGrow ==
    ASSUME NEW y \in Nat \ {0}
    PROVE  /\ LeapDaysBefore(y) \in Int
           /\ LeapDaysBefore(y + 1) = LeapDaysBefore(y) + LeapDay(y)
<1>1. y \div 4 - y \div 100 + y \div 400 = LeapDaysBefore(y) + LeapDay(y)
  BY SMT DEF LeapDaysBefore, LeapDay
<1>2. (y + 1) - 1 = y
  OBVIOUS
<1> QED
  BY <1>1, <1>2, SMT DEF LeapDaysBefore

(* The parts of a day's number *)
LEMMA NumberOfDate ==
    ASSUME NEW y, NEW m, NEW d
    PROVE  DayNumber(Date(y, m, d)) =
             365 * (y - 1970) + (LeapDaysBefore(y) - LeapDaysBefore(1970))
               + DaysBefore[m] + (IF m > 2 THEN LeapDay(y) ELSE 0) + d - 1
BY SMT DEF Date, DayNumber

LEMMA NewYearsDay ==
    ASSUME NEW y \in Nat \ {0}
    PROVE  DayNumber(Date(y, 1, 1)) = 365 * (y - 1970) + (LeapDaysBefore(y) - LeapDaysBefore(1970))
<1> DEFINE c == Date(y, 1, 1)
<1>1. c.y = y /\ c.m = 1 /\ c.d = 1
  BY DEF Date
<1>2. DaysBefore[1] = 0
  BY DEF DaysBefore
<1>3. LeapDaysBefore(y) \in Int /\ LeapDaysBefore(1970) \in Int
  BY LeapDaysGrow
<1> HIDE DEF c
<1>4. DayNumber(c) = 365 * (y - 1970) + (LeapDaysBefore(y) - LeapDaysBefore(1970))
  BY <1>1, <1>2, <1>3, SMT DEF DayNumber
<1> QED
  BY <1>4 DEF c

(* Tomorrow is a date, and one day later. *)
LEMMA TomorrowIsNext ==
    ASSUME NEW c \in Dates
    PROVE  /\ Tomorrow(c) \in Dates
           /\ DayNumber(Tomorrow(c)) = DayNumber(c) + 1
<1>1. c.y \in Nat \ {0} /\ c.m \in 1 .. 12 /\ c.d \in 1 .. 31 /\ c.d <= LastDay(c.y, c.m)
  BY DEF Dates
<1>2. /\ LeapDay(c.y) \in {0, 1} /\ LastDay(c.y, c.m) \in 28 .. 31
      /\ LastDay(c.y, c.m) = IF c.m = 2 THEN 28 + LeapDay(c.y)
                             ELSE IF c.m \in {4, 6, 9, 11} THEN 30 ELSE 31
  BY <1>1, MonthLengths
<1>3. /\ LeapDaysBefore(c.y) \in Int /\ LeapDaysBefore(1970) \in Int
      /\ LeapDaysBefore(c.y + 1) = LeapDaysBefore(c.y) + LeapDay(c.y)
  BY <1>1, LeapDaysGrow
<1>4. CASE c.d < LastDay(c.y, c.m)
  <2>1. Tomorrow(c) = Date(c.y, c.m, c.d + 1)
    BY <1>4 DEF Tomorrow
  <2>2. c.d + 1 \in 1 .. 31
    BY <1>1, <1>2, <1>4
  <2>3. Tomorrow(c) \in Dates
    BY <1>1, <1>2, <1>4, <2>1, <2>2 DEF Date, Dates
  <2>4. DaysBefore[c.m] \in Nat
    BY <1>1 DEF DaysBefore
  <2> QED
    BY <1>1, <1>2, <1>3, <2>1, <2>3, <2>4 DEF Date, DayNumber
<1>5. CASE c.d = LastDay(c.y, c.m) /\ c.m < 12
  <2>1. Tomorrow(c) = Date(c.y, c.m + 1, 1)
    BY <1>1, <1>2, <1>5, SMT DEF Tomorrow
  <2>2. c.m + 1 \in 1 .. 12 /\ LastDay(c.y, c.m + 1) \in 28 .. 31
    BY <1>1, <1>5, MonthLengths
  <2>3. Tomorrow(c) \in Dates
    BY <1>1, <2>1, <2>2 DEF Date, Dates
  <2>4. /\ DaysBefore[c.m] \in Nat
        /\ DaysBefore[c.m + 1] = DaysBefore[c.m] + (IF c.m = 2 THEN 28 ELSE IF c.m \in {4, 6, 9, 11} THEN 30 ELSE 31)
    BY <1>1, <1>5, <2>2 DEF DaysBefore
  <2>5. DayNumber(Tomorrow(c)) =
          365 * (c.y - 1970) + (LeapDaysBefore(c.y) - LeapDaysBefore(1970))
            + DaysBefore[c.m + 1] + (IF c.m + 1 > 2 THEN LeapDay(c.y) ELSE 0) + 1 - 1
    BY <2>1, NumberOfDate
  <2> QED
    BY <1>1, <1>2, <1>3, <1>5, <2>2, <2>3, <2>4, <2>5, SMT DEF DayNumber
<1>6. CASE c.d = LastDay(c.y, c.m) /\ c.m = 12
  <2>1. Tomorrow(c) = Date(c.y + 1, 1, 1)
    BY <1>1, <1>2, <1>6, SMT DEF Tomorrow
  <2>2. LastDay(c.y + 1, 1) \in 28 .. 31
    BY <1>1, MonthLengths
  <2>3. Tomorrow(c) \in Dates
    BY <1>1, <2>1, <2>2 DEF Date, Dates
  <2>4. DaysBefore[1] = 0 /\ DaysBefore[12] = 334
    BY DEF DaysBefore
  <2>5. DayNumber(Tomorrow(c)) = 365 * ((c.y + 1) - 1970) + (LeapDaysBefore(c.y + 1) - LeapDaysBefore(1970))
    BY <1>1, <2>1, NewYearsDay
  <2>6. DayNumber(c) = 365 * (c.y - 1970) + (LeapDaysBefore(c.y) - LeapDaysBefore(1970)) + 334 + LeapDay(c.y) + 30
    BY <1>1, <1>2, <1>3, <1>6, <2>4 DEF DayNumber
  <2> QED
    BY <1>1, <1>2, <1>3, <2>3, <2>5, <2>6, SMT
<1> QED
  BY <1>1, <1>2, <1>4, <1>5, <1>6

(* An era has 400 years and 146,097 days; 1970-01-01 is 719,468 days after the
   first one began.  Months are counted from March, as their days are. *)
YearsOfEra == 0 .. 399
DaysOfYear == 0 .. 365
DaysOfEra == {doe \in Nat : doe <= 146096}
Months0 == 0 .. 11

DayOfEra(yoe, doy) == yoe * 365 + yoe \div 4 - yoe \div 100 + doy
DayOf(era, doe) == era * 146097 + doe - 719468
StartOf(mp) == (153 * mp + 2) \div 5
MonthOf(mp) == IF mp < 10 THEN mp + 3 ELSE mp - 9
YearOf(era, yoe, m) == yoe + era * 400 + (IF m <= 2 THEN 1 ELSE 0)

IsDayOfYear(mp, doy) == StartOf(mp) <= doy /\ (mp < 11 => doy < StartOf(mp + 1))
IsDayOfThat(yoe, doy) == doy = 365 => LeapDay(yoe + 1) = 1
DateOf(era, yoe, mp, doy) == Date(YearOf(era, yoe, MonthOf(mp)), MonthOf(mp), doy - StartOf(mp) + 1)

(* An era has no more days, *)
LEMMA DayOfEraBound ==
    ASSUME NEW yoe \in YearsOfEra, NEW doy \in DaysOfYear
    PROVE  DayOfEra(yoe, doy) \in DaysOfEra
<1>1. DayOfEra(yoe, doy) <= 146096
  BY SMT DEF DayOfEra, YearsOfEra, DaysOfYear
<1>2. DayOfEra(yoe, doy) \in Nat
  BY SMT DEF DayOfEra, YearsOfEra, DaysOfYear
<1> QED
  BY <1>1, <1>2, SMT DEF DaysOfEra

(* the era of a day is found, *)
LEMMA EraIsFound ==
    ASSUME NEW era \in Nat, NEW doe \in DaysOfEra,
           NEW z, z = DayOf(era, doe) + 719468
    PROVE  z \in Nat /\ Truncated(z, 146097) = era /\ z - era * 146097 = doe
<1>1. doe \in Nat /\ doe <= 146096
  BY SMT DEF DaysOfEra
<1>2. z = era * 146097 + doe
  BY <1>1, SMT DEF DayOf
<1>3. z \in Nat /\ z \div 146097 = era /\ z - era * 146097 = doe
  BY <1>1, <1>2, SMT
<1> QED
  BY <1>3, SMT DEF Truncated

(* and the year, *)
LEMMA YearOfEraIs ==
    ASSUME NEW yoe \in YearsOfEra, NEW doy \in DaysOfYear, IsDayOfThat(yoe, doy),
           NEW doe, doe = DayOfEra(yoe, doy)
    PROVE  YearOfEra(doe) = yoe
<1>1. PICK c \in 0 .. 3, q \in 0 .. 24, r \in 0 .. 3 : yoe = 100 * c + 4 * q + r
  <2> DEFINE c == yoe \div 100
             q == (yoe - 100 * c) \div 4
  <2>1. c \in 0 .. 3 /\ q \in 0 .. 24 /\ yoe - 100 * c - 4 * q \in 0 .. 3
    BY SMT DEF YearsOfEra
  <2>2. yoe = 100 * c + 4 * q + (yoe - 100 * c - 4 * q)
    BY <2>1, SMT DEF YearsOfEra
  <2> QED
    BY <2>1, <2>2
<1>2. doe = 36524 * c + 1461 * q + 365 * r + doy
  BY <1>1, SMT DEF DayOfEra, DaysOfYear
<1>3. doy = 365 => r = 3 /\ (q # 24 \/ c = 3)
  BY <1>1, SMT DEF LeapDay, IsDayOfThat
<1>4. doy \in 0 .. 365
  BY DEF DaysOfYear
<1> QED
  BY <1>1, <1>2, <1>3, <1>4, SMTT(60) DEF YearOfEra

(* and the month. *)
LEMMA MarchMonthIs ==
    ASSUME NEW mp \in Months0, NEW doy \in DaysOfYear, IsDayOfYear(mp, doy)
    PROVE  (5 * doy + 2) \div 153 = mp
  BY SMT DEF Months0, DaysOfYear, IsDayOfYear, StartOf

(* So the date of a day of an era is found, *)
LEMMA EraToDate ==
    ASSUME NEW era \in Nat, NEW yoe \in YearsOfEra, NEW mp \in Months0, NEW doy \in DaysOfYear,
           IsDayOfYear(mp, doy), IsDayOfThat(yoe, doy),
           NEW days, days = DayOf(era, DayOfEra(yoe, doy))
    PROVE  CivilFromUnixDays(days) = DateOf(era, yoe, mp, doy)
<1>1. PICK doe \in DaysOfEra : doe = DayOfEra(yoe, doy)
  BY DayOfEraBound, Zenon
<1>2. YearOfEra(doe) = yoe
  BY <1>1, YearOfEraIs, Zenon
<1>3. (5 * doy + 2) \div 153 = mp
  BY MarchMonthIs, Zenon
<1>4. doe - (365 * yoe + yoe \div 4 - yoe \div 100) = doy
  BY <1>1, SMT DEF DayOfEra, DaysOfYear, YearsOfEra
<1>5. PICK z : z = DayOf(era, doe) + 719468 /\ z = days + 719468
  BY <1>1, SMT
<1>6. z \in Nat /\ Truncated(z, 146097) = era /\ z - era * 146097 = doe
  BY <1>5, EraIsFound, SMT
<1> QED
  BY <1>2, <1>3, <1>4, <1>5, <1>6, SMT
  DEF CivilFromUnixDays, DateOf, MonthOf, YearOf, StartOf

(* and every date is one. *)
LEMMA DateToEra ==
    ASSUME NEW c \in Dates
    PROVE  \E era \in Nat, yoe \in YearsOfEra, mp \in Months0, doy \in DaysOfYear :
             /\ IsDayOfYear(mp, doy) /\ IsDayOfThat(yoe, doy)
             /\ c = DateOf(era, yoe, mp, doy)
             /\ DayNumber(c) = DayOf(era, DayOfEra(yoe, doy))
<1>1. /\ c.y \in Nat \ {0} /\ c.m \in 1 .. 12 /\ c.d \in 1 .. 31 /\ c.d <= LastDay(c.y, c.m)
      /\ c = Date(c.y, c.m, c.d)
  BY DEF Dates, Date
<1>2. PICK y \in Nat, mp \in Months0 : y = MarchYear(c.y, c.m) /\ mp = MarchMonth(c.m)
  BY <1>1 DEF MarchYear, MarchMonth, Months0
<1>3. PICK era \in Nat, yoe \in YearsOfEra : y = era * 400 + yoe
  <2>1. y \div 400 \in Nat /\ y - (y \div 400) * 400 \in YearsOfEra
    BY SMT DEF YearsOfEra
  <2>2. y = (y \div 400) * 400 + (y - (y \div 400) * 400)
    BY <2>1, SMT
  <2> QED BY <2>1, <2>2, SMT
<1>4. PICK doy : doy = StartOf(mp) + c.d - 1
  OBVIOUS
<1>5. /\ LastDay(c.y, c.m) = IF c.m = 2 THEN 28 + LeapDay(c.y) ELSE IF c.m \in {4, 6, 9, 11} THEN 30 ELSE 31
      /\ LeapDay(c.y) \in {0, 1}
  BY <1>1, MonthLengths
<1>6. c.d \in 1 .. 31 /\ c.d <= (IF c.m = 2 THEN 28 + LeapDay(c.y) ELSE IF c.m \in {4, 6, 9, 11} THEN 30 ELSE 31)
  BY <1>1, <1>5
<1>7. /\ doy \in DaysOfYear /\ IsDayOfYear(mp, doy)
      /\ doy = 365 => c.m = 2 /\ LeapDay(c.y) = 1
  <2>1. mp \in Nat /\ StartOf(mp) \in Nat /\ doy \in Nat /\ StartOf(mp) <= doy
    <3>1. mp \in Nat /\ StartOf(mp) \in Nat
      BY <1>2, SMT DEF StartOf, Months0
    <3>2. doy = StartOf(mp) + c.d - 1 /\ c.d \in 1 .. 31
      BY <1>4, <1>6
    <3> QED
      BY <3>1, <3>2, SMT
  <2>2. mp < 11 => doy < StartOf(mp + 1)
    BY <1>1, <1>2, <1>4, <1>5, <1>6, SMT DEF StartOf, MarchMonth
  <2>3. doy <= 365 /\ (doy = 365 => c.m = 2 /\ LeapDay(c.y) = 1)
    BY <1>1, <1>2, <1>4, <1>5, <1>6, SMT DEF StartOf, MarchMonth
  <2> QED
    BY <2>1, <2>2, <2>3, SMT DEF DaysOfYear, IsDayOfYear
<1>8. IsDayOfThat(yoe, doy)
  <2> SUFFICES ASSUME doy = 365 PROVE LeapDay(yoe + 1) = 1
    BY DEF IsDayOfThat
  <2>1. c.y = era * 400 + (yoe + 1)
    BY <1>1, <1>2, <1>3, <1>7, SMT DEF MarchYear, YearsOfEra
  <2>2. LeapDay(era * 400 + (yoe + 1)) = LeapDay(yoe + 1)
    BY <1>3, SMT DEF LeapDay, YearsOfEra
  <2> QED
    BY <1>7, <2>1, <2>2
<1>9. c = DateOf(era, yoe, mp, doy)
  <2>1. MonthOf(mp) = c.m
    BY <1>1, <1>2, SMT DEF MonthOf, MarchMonth
  <2>2. doy - StartOf(mp) + 1 = c.d
    <3>1. StartOf(mp) \in Int
      BY SMT DEF StartOf, Months0
    <3> QED
      BY <1>1, <1>4, <3>1, SMT
  <2>3. YearOf(era, yoe, c.m) = c.y
    BY <1>1, <1>2, <1>3, SMT DEF YearOf, MarchYear, YearsOfEra
  <2> QED
    BY <1>1, <2>1, <2>2, <2>3, SMT DEF DateOf
<1>10. DayNumber(c) = DayOf(era, DayOfEra(yoe, doy))
  <2>1. y - era * 400 = yoe /\ Truncated(y, 400) = era
    BY <1>3, SMT DEF Truncated, YearsOfEra
  <2>2. UnixDaysFromCivil(c.y, c.m, c.d) = DayOf(era, DayOfEra(yoe, doy))
    BY <1>2, <1>4, <2>1, SMT DEF UnixDaysFromCivil, MarchYear, MarchMonth, StartOf, DayOf, DayOfEra
  <2> QED
    BY <2>2, CountsAlike
<1> QED
  BY <1>7, <1>8, <1>9, <1>10, Zenon

(* So the almanac's number of a date leads back to it, *)
LEMMA DateIsFound ==
    ASSUME NEW c \in Dates
    PROVE  CivilFromUnixDays(DayNumber(c)) = c
<1>1. PICK era \in Nat, yoe \in YearsOfEra, mp \in Months0, doy \in DaysOfYear :
        /\ IsDayOfYear(mp, doy) /\ IsDayOfThat(yoe, doy)
        /\ c = DateOf(era, yoe, mp, doy)
        /\ DayNumber(c) = DayOf(era, DayOfEra(yoe, doy))
  BY DateToEra, Zenon
<1> QED
  BY <1>1, EraToDate, Zenon

(* and no two dates have the same. *)
LEMMA DatesDiffer ==
    ASSUME NEW b \in Dates, NEW c \in Dates, DayNumber(b) = DayNumber(c)
    PROVE  b = c
BY DateIsFound, Zenon
-----------------------------------------------------------------------------
(* The almanac's days. *)

(* The other days of a month, *)
LEMMA DayInMonth ==
    ASSUME NEW c \in Dates, NEW d \in 1 .. 31, d <= LastDay(c.y, c.m)
    PROVE  /\ Date(c.y, c.m, d) \in Dates
           /\ DayNumber(Date(c.y, c.m, d)) = DayNumber(c) + d - c.d
<1> DEFINE b == Date(c.y, c.m, d)
<1>1. c.y \in Nat \ {0} /\ c.m \in 1 .. 12 /\ c.d \in 1 .. 31
  BY DEF Dates
<1>2. b \in Dates
  BY <1>1 DEF Dates, Date
<1>3. b.y = c.y /\ b.m = c.m /\ b.d = d
  BY DEF Date
<1>4. /\ LeapDaysBefore(c.y) \in Int /\ LeapDaysBefore(1970) \in Int
      /\ LeapDay(c.y) \in Int /\ DaysBefore[c.m] \in Int
  BY <1>1, LeapDaysGrow, MonthLengths DEF DaysBefore
<1> HIDE DEF b
<1>5. PICK n \in Int :
        n = 365 * (c.y - 1970) + (LeapDaysBefore(c.y) - LeapDaysBefore(1970))
              + DaysBefore[c.m] + (IF c.m > 2 THEN LeapDay(c.y) ELSE 0)
  BY <1>1, <1>4, SMT
<1>6. DayNumber(c) = n + c.d - 1
  BY <1>5, SMT DEF DayNumber
<1>7. DayNumber(b) = n + d - 1
  BY <1>3, <1>5, SMT DEF DayNumber
<1>8. DayNumber(b) = DayNumber(c) + d - c.d
  BY <1>1, <1>5, <1>6, <1>7, SMT
<1> QED
  BY <1>2, <1>8 DEF b

(* and the first day of the next. *)
FirstOfNext(c) == IF c.m < 12 THEN Date(c.y, c.m + 1, 1) ELSE Date(c.y + 1, 1, 1)

LEMMA NextMonthIs ==
    ASSUME NEW c \in Dates
    PROVE  /\ FirstOfNext(c) \in Dates /\ FirstOfNext(c).d = 1
           /\ FirstOfNext(c).m = IF c.m < 12 THEN c.m + 1 ELSE 1
           /\ DayNumber(FirstOfNext(c)) = DayNumber(c) + LastDay(c.y, c.m) - c.d + 1
           /\ DayNumber(c) \in Int
<1> DEFINE last == Date(c.y, c.m, LastDay(c.y, c.m))
<1>1. c.y \in Nat \ {0} /\ c.m \in 1 .. 12 /\ c.d \in 1 .. 31 /\ LastDay(c.y, c.m) \in 1 .. 31
  BY MonthLengths DEF Dates
<1>2. last \in Dates /\ DayNumber(last) = DayNumber(c) + LastDay(c.y, c.m) - c.d
  BY <1>1, DayInMonth
<1>3. last.y = c.y /\ last.m = c.m /\ last.d = LastDay(c.y, c.m)
  BY DEF Date
<1>4. Tomorrow(last) = FirstOfNext(c)
  <2> HIDE DEF last
  <2> QED BY <1>1, <1>3, SMT DEF Tomorrow, FirstOfNext
<1>5. FirstOfNext(c) \in Dates /\ DayNumber(FirstOfNext(c)) = DayNumber(last) + 1
  BY <1>2, <1>4, TomorrowIsNext
<1>6. DayNumber(c) \in Int
  <2>1. /\ LeapDaysBefore(c.y) \in Int /\ LeapDaysBefore(1970) \in Int
        /\ LeapDay(c.y) \in Int /\ DaysBefore[c.m] \in Int
    BY <1>1, LeapDaysGrow, MonthLengths DEF DaysBefore
  <2> QED
    BY <1>1, <2>1, SMT DEF DayNumber
<1>7. FirstOfNext(c).d = 1 /\ FirstOfNext(c).m = IF c.m < 12 THEN c.m + 1 ELSE 1
  BY <1>1 DEF FirstOfNext, Date
<1> HIDE DEF last
<1> QED
  BY <1>1, <1>2, <1>5, <1>6, <1>7, SMT

(* Every day of a month comes within two months, *)
LEMMA DayComes ==
    ASSUME NEW c \in Dates, NEW d \in 1 .. 31
    PROVE  \E b \in Dates, i \in 1 .. 62 : b.d = d /\ DayNumber(b) = DayNumber(c) + i
<1>1. /\ c.y \in Nat \ {0} /\ c.m \in 1 .. 12 /\ c.d \in 1 .. 31 /\ c.d <= LastDay(c.y, c.m)
      /\ LeapDay(c.y) \in {0, 1} /\ LastDay(c.y, c.m) \in 28 .. 31
      /\ LastDay(c.y, c.m) = IF c.m = 2 THEN 28 + LeapDay(c.y)
                             ELSE IF c.m \in {4, 6, 9, 11} THEN 30 ELSE 31
  BY MonthLengths DEF Dates
<1>2. CASE c.d < d /\ d <= LastDay(c.y, c.m)
  <2>1. /\ Date(c.y, c.m, d) \in Dates /\ Date(c.y, c.m, d).d = d
        /\ DayNumber(Date(c.y, c.m, d)) = DayNumber(c) + (d - c.d)
    BY <1>1, <1>2, DayInMonth, NextMonthIs DEF Date
  <2>2. d - c.d \in 1 .. 62
    BY <1>1, <1>2
  <2> QED
    BY <2>1, <2>2, Zenon
<1>3. CASE ~(c.d < d /\ d <= LastDay(c.y, c.m))
  <2>1. PICK n \in Dates : n = FirstOfNext(c)
    BY NextMonthIs
  <2>2. /\ n.d = 1 /\ n.m = (IF c.m < 12 THEN c.m + 1 ELSE 1)
        /\ DayNumber(c) \in Int
        /\ DayNumber(n) = DayNumber(c) + LastDay(c.y, c.m) - c.d + 1
    BY <2>1, NextMonthIs
  <2>3. /\ n.y \in Nat /\ n.m \in 1 .. 12
        /\ LeapDay(n.y) \in {0, 1} /\ LastDay(n.y, n.m) \in 28 .. 31
        /\ LastDay(n.y, n.m) = IF n.m = 2 THEN 28 + LeapDay(n.y)
                               ELSE IF n.m \in {4, 6, 9, 11} THEN 30 ELSE 31
    BY MonthLengths DEF Dates
  <2>4. CASE d <= LastDay(n.y, n.m)
    <3>1. /\ Date(n.y, n.m, d) \in Dates /\ Date(n.y, n.m, d).d = d
          /\ DayNumber(Date(n.y, n.m, d)) = DayNumber(n) + d - n.d
      BY <2>4, DayInMonth DEF Date
    <3>2. LastDay(c.y, c.m) - c.d + d \in 1 .. 62
      BY <1>1, <1>3
    <3>3. DayNumber(Date(n.y, n.m, d)) = DayNumber(c) + (LastDay(c.y, c.m) - c.d + d)
      BY <1>1, <2>2, <3>1, SMT
    <3> QED
      BY <3>1, <3>2, <3>3, Zenon
  <2>5. CASE d > LastDay(n.y, n.m)
    <3>1. PICK f \in Dates : f = FirstOfNext(n)
      BY NextMonthIs
    <3>2. /\ f.d = 1 /\ f.m = (IF n.m < 12 THEN n.m + 1 ELSE 1)
          /\ DayNumber(f) = DayNumber(n) + LastDay(n.y, n.m) - n.d + 1
      BY <3>1, NextMonthIs
    <3>3. n.m \in {2, 4, 6, 9, 11} /\ LastDay(n.y, n.m) <= 30
      BY <2>3, <2>5
    <3>4. f.y \in Nat /\ LastDay(f.y, f.m) = 31
      BY <3>2, <3>3, MonthLengths DEF Dates
    <3>5. /\ Date(f.y, f.m, d) \in Dates /\ Date(f.y, f.m, d).d = d
          /\ DayNumber(Date(f.y, f.m, d)) = DayNumber(f) + d - f.d
      <4>1. d <= LastDay(f.y, f.m)
        BY <3>4
      <4> QED
        BY <4>1, DayInMonth DEF Date
    <3>6. LastDay(c.y, c.m) = 31 /\ d <= c.d
      BY <1>1, <1>3, <2>2, <3>3
    <3>7. LastDay(c.y, c.m) - c.d + LastDay(n.y, n.m) + d \in 1 .. 62
      BY <1>1, <2>3, <3>3, <3>6
    <3>8. DayNumber(Date(f.y, f.m, d)) = DayNumber(c) + (LastDay(c.y, c.m) - c.d + LastDay(n.y, n.m) + d)
      <4>1. DayNumber(f) = DayNumber(c) + LastDay(c.y, c.m) - c.d + LastDay(n.y, n.m) + 1
        BY <1>1, <2>2, <2>3, <3>2, SMT
      <4>2. DayNumber(Date(f.y, f.m, d)) = DayNumber(f) + d - 1
        BY <3>2, <3>5
      <4>3. /\ LastDay(c.y, c.m) \in Int /\ LastDay(n.y, n.m) \in Int
            /\ c.d \in Int /\ DayNumber(c) \in Int /\ d \in Int
        BY <1>1, <2>2, <2>3
      <4> QED
        BY <4>1, <4>2, <4>3, SMT
    <3> QED
      BY <3>5, <3>7, <3>8, Zenon
  <2> QED
    BY <2>3, <2>4, <2>5
<1> QED
  BY <1>2, <1>3

-----------------------------------------------------------------------------
(* The days ahead, without their recursive function *)
IsAhead(f, c, n) == f = [i \in 0 .. n |-> IF i = 0 THEN c ELSE Tomorrow(f[i - 1])]

(* What a number is not the first to break, none breaks. *)
LEMMA LeastNatural ==
    ASSUME NEW T, T \subseteq Nat, T # {}
    PROVE  \E x \in T : \A y \in T : x <= y
<1>1. \A a, b \in Nat : a < b => <<a, b>> \in OpToRel(<, Nat)
  <2> SUFFICES ASSUME NEW a \in Nat, NEW b \in Nat, a < b
               PROVE  <<a, b>> \in OpToRel(<, Nat)
    OBVIOUS
  <2> QED
    BY Zenon DEF OpToRel
<1>2. PICK x \in T : \A y \in T : ~ (<<y, x>> \in OpToRel(<, Nat))
  BY NatLessThanWellFounded, WFMin
<1>3. \A y \in T : ~ (y < x)
  BY <1>1, <1>2
<1> QED
  BY <1>3

LEMMA AheadExists ==
    ASSUME NEW c, NEW n \in Nat
    PROVE  \E f : IsAhead(f, c, n)
<1> DEFINE T == {k \in Nat : ~ \E f : IsAhead(f, c, k)}
<1> SUFFICES ASSUME T # {} PROVE FALSE
  OBVIOUS
<1>1. PICK x \in T : \A y \in T : x <= y
  BY LeastNatural
<1>2. CASE x = 0
  <2> DEFINE f == [i \in 0 .. 0 |-> c]
  <2>1. IsAhead(f, c, 0)
    BY DEF IsAhead
  <2> QED
    BY <1>2, <2>1
<1>3. CASE x > 0
  <2>1. x - 1 \in Nat /\ x - 1 \notin T
    BY <1>1, <1>3
  <2>2. PICK g : IsAhead(g, c, x - 1)
    BY <2>1
  <2> DEFINE f == [i \in 0 .. x |-> IF i = x THEN Tomorrow(g[x - 1]) ELSE g[i]]
  <2>3. ASSUME NEW i \in 0 .. x
        PROVE  f[i] = IF i = 0 THEN c ELSE Tomorrow(f[i - 1])
    <3>1. CASE i = x
      <4>1. f[i - 1] = g[x - 1] /\ f[i] = Tomorrow(g[x - 1])
        BY <1>3, <3>1
      <4> HIDE DEF f
      <4> QED
        BY <1>3, <3>1, <4>1
    <3>2. CASE i # x /\ i # 0
      <4>1. i \in 0 .. x - 1 /\ f[i] = g[i] /\ f[i - 1] = g[i - 1]
        BY <3>2
      <4>2. g[i] = Tomorrow(g[i - 1])
        BY <2>2, <3>2, <4>1 DEF IsAhead
      <4> HIDE DEF f
      <4> QED
        BY <3>2, <4>1, <4>2
    <3>3. CASE i # x /\ i = 0
      <4>1. i \in 0 .. x - 1 /\ f[i] = g[i]
        BY <3>3
      <4>2. g[i] = c
        BY <2>2, <3>3, <4>1 DEF IsAhead
      <4> QED
        BY <3>3, <4>1, <4>2
    <3> QED
      BY <3>1, <3>2, <3>3
  <2>4. IsAhead(f, c, x)
    <3>1. f = [i \in 0 .. x |-> f[i]]
      OBVIOUS
    <3> HIDE DEF f
    <3> QED
      BY <2>3, <3>1 DEF IsAhead
  <2> QED
    BY <2>4
<1> QED
  BY <1>2, <1>3

LEMMA AheadIs == IsAhead(Ahead, date, 62)
<1>1. \E f : IsAhead(f, date, 62)
  BY AheadExists
<1> QED
  BY <1>1, Zenon DEF IsAhead, Ahead, Horizon

(* The date n months after c's, and how late in it the days i ahead can be *)
InMonth(b, c, n, i) ==
    /\ b.y = MonthAfter(c, n).y /\ b.m = MonthAfter(c, n).m
    /\ b.d + 28 * n <= c.d + i

LEMMA MonthsGoBy ==
    ASSUME NEW b \in Dates, NEW c \in Dates, NEW n \in Nat, NEW i \in Nat, InMonth(b, c, n, i)
    PROVE  InMonth(Tomorrow(b), c, n, i + 1) \/ InMonth(Tomorrow(b), c, n + 1, i + 1)
<1>1. /\ b.y \in Nat \ {0} /\ b.m \in 1 .. 12 /\ b.d \in 1 .. 31 /\ b.d <= LastDay(b.y, b.m)
      /\ LastDay(b.y, b.m) \in 28 .. 31
      /\ c.y \in Nat \ {0} /\ c.m \in 1 .. 12 /\ c.d \in 1 .. 31
  BY MonthLengths DEF Dates
<1>2. /\ b.y = c.y + (c.m - 1 + n) \div 12 /\ b.m = ((c.m - 1 + n) % 12) + 1
      /\ b.d + 28 * n <= c.d + i
  BY DEF InMonth, MonthAfter
<1>3. CASE b.d < LastDay(b.y, b.m)
  <2>1. Tomorrow(b).y = b.y /\ Tomorrow(b).m = b.m /\ Tomorrow(b).d = b.d + 1
    BY <1>3 DEF Tomorrow, Date
  <2>2. InMonth(Tomorrow(b), c, n, i + 1)
    <3>1. b.y = MonthAfter(c, n).y /\ b.m = MonthAfter(c, n).m /\ b.d + 28 * n <= c.d + i
      BY DEF InMonth
    <3>2. b.d + 1 + 28 * n <= c.d + (i + 1)
      <4>1. b.d \in Int /\ c.d \in Int /\ 28 * n \in Int
        BY <1>1
      <4> QED
        BY <3>1, <4>1, SMT
    <3> QED
      BY <2>1, <3>1, <3>2, Zenon DEF InMonth
  <2> QED
    BY <2>2
<1>4. CASE b.d >= LastDay(b.y, b.m)
  <2>1. /\ Tomorrow(b).y = (IF b.m < 12 THEN b.y ELSE b.y + 1)
        /\ Tomorrow(b).m = (IF b.m < 12 THEN b.m + 1 ELSE 1)
        /\ Tomorrow(b).d = 1
    BY <1>1, <1>4 DEF Tomorrow, Date
  <2>2. 1 + 28 * (n + 1) <= c.d + (i + 1)
    <3>1. b.d >= 28 /\ b.d \in Int /\ c.d \in Int
      BY <1>1, <1>4
    <3> QED
      BY <1>2, <3>1, SMT
  <2>3. ASSUME NEW y \in Int, NEW k \in Nat
        PROVE  /\ (k % 12) + 1 < 12 => y + (k + 1) \div 12 = y + k \div 12 /\ ((k + 1) % 12) = (k % 12) + 1
               /\ (k % 12) + 1 = 12 => y + (k + 1) \div 12 = y + k \div 12 + 1 /\ ((k + 1) % 12) = 0
    BY SMT
  <2>4. /\ MonthAfter(c, n + 1).y = IF b.m < 12 THEN b.y ELSE b.y + 1
        /\ MonthAfter(c, n + 1).m = IF b.m < 12 THEN b.m + 1 ELSE 1
    <3>1. PICK k \in Nat : k = c.m - 1 + n /\ k + 1 = c.m - 1 + (n + 1)
      BY <1>1
    <3>2. b.y = c.y + k \div 12 /\ b.m = (k % 12) + 1 /\ c.y \in Int
      BY <1>1, <1>2, <3>1
    <3>3. /\ MonthAfter(c, n + 1).y = c.y + (k + 1) \div 12
          /\ MonthAfter(c, n + 1).m = ((k + 1) % 12) + 1
      BY <3>1 DEF MonthAfter
    <3>4. (k % 12) + 1 \in 1 .. 12
      BY <1>1, <3>2
    <3>5. CASE (k % 12) + 1 < 12
      BY <2>3, <3>2, <3>3, <3>5
    <3>6. CASE (k % 12) + 1 = 12
      BY <2>3, <3>2, <3>3, <3>6
    <3> QED
      BY <3>4, <3>5, <3>6
  <2>5. InMonth(Tomorrow(b), c, n + 1, i + 1)
    BY <2>1, <2>2, <2>4 DEF InMonth
  <2> QED
    BY <2>5
<1> QED
  BY <1>1, <1>3, <1>4

(* Day by day, they are dates, and no month is left out. *)
LEMMA DaysGoBy ==
    ASSUME AlmanacInv, NEW i \in Horizon
    PROVE  /\ Ahead[i] \in Dates /\ DayNumber(Ahead[i]) = day + i
           /\ \E n \in Nat : InMonth(Ahead[i], date, n, i)
<1> DEFINE Good(k) == /\ Ahead[k] \in Dates /\ DayNumber(Ahead[k]) = day + k
                      /\ \E n \in Nat : InMonth(Ahead[k], date, n, k)
           T == {k \in 0 .. 62 : ~Good(k)}
<1> SUFFICES ASSUME T # {} PROVE FALSE
  BY DEF Horizon
<1>1. PICK x \in T : \A y \in T : x <= y
  <2>1. T \subseteq Nat
    OBVIOUS
  <2> HIDE DEF T
  <2> QED
    BY <2>1, LeastNatural
<1>2. date \in Dates /\ day = DayNumber(date) /\ day \in Int
  BY NextMonthIs DEF AlmanacInv
<1>3. CASE x = 0
  <2>1. Ahead[0] = date
    BY AheadIs DEF IsAhead
  <2>2. InMonth(date, date, 0, 0)
    BY <1>2 DEF InMonth, MonthAfter, Dates
  <2> QED
    BY <1>2, <1>3, <2>1, <2>2
<1>4. CASE x > 0
  <2>1. x - 1 \in Nat /\ x - 1 \notin T /\ x - 1 \in 0 .. 62 /\ (x - 1) + 1 = x
    BY <1>1, <1>4
  <2>2. PICK n \in Nat : InMonth(Ahead[x - 1], date, n, x - 1)
    BY <2>1
  <2>3. Ahead[x - 1] \in Dates /\ DayNumber(Ahead[x - 1]) = day + (x - 1)
    BY <2>1
  <2>4. Ahead[x] = Tomorrow(Ahead[x - 1])
    BY <1>4, AheadIs DEF IsAhead
  <2>5. Ahead[x] \in Dates /\ DayNumber(Ahead[x]) = day + (x - 1) + 1
    BY <2>3, <2>4, TomorrowIsNext
  <2>6. InMonth(Ahead[x], date, n, x) \/ InMonth(Ahead[x], date, n + 1, x)
    BY <1>2, <2>1, <2>2, <2>3, <2>4, MonthsGoBy
  <2>7. DayNumber(Ahead[x]) = day + x
    BY <1>2, <2>1, <2>5
  <2>8. n + 1 \in Nat
    OBVIOUS
  <2> QED
    BY <2>5, <2>6, <2>7, <2>8
<1> QED
  BY <1>3, <1>4

-----------------------------------------------------------------------------
(* The clock *)
LEMMA ClockIs ==
    /\ MS_PER_DAY \in Nat \ {0}
    /\ \A offset \in Offsets : offset * MS_PER_MINUTE \in Int
    /\ \A tod \in TimesOfDay : tod \in Nat /\ tod < MS_PER_DAY
<1>1. MS_PER_DAY \in Nat \ {0}
  BY GrainAssumption, SMT DEF MS_PER_DAY, MS_PER_HOUR
<1>2. \A offset \in Offsets : offset \in Int
  BY ValidClock, SMT
<1>3. \A offset \in Offsets : offset * MS_PER_MINUTE \in Int
  BY <1>2, GrainAssumption, SMT
<1>4. \A tod \in TimesOfDay : tod \in 0 .. MS_PER_DAY - 1
  BY ValidClock
<1> QED
  BY <1>1, <1>3, <1>4, SMT

LEMMA TargetIs ==
    ASSUME NEW s \in CalendarSpecs
    PROVE  TargetTod(s) \in Nat /\ TargetTod(s) < MS_PER_DAY
<1>1. s.hour \in 0 .. 23 /\ s.minute \in 0 .. 59
  BY ValidSpecs
<1>2. ASSUME NEW h \in 0 .. 23, NEW m \in 0 .. 59, NEW k \in Nat \ {0}
      PROVE  h * (60 * k) + m * k \in Nat /\ h * (60 * k) + m * k < 24 * (60 * k)
  <2>1. h * (60 * k) + m * k = (60 * h + m) * k
    BY SMT
  <2>2. 60 * h + m \in Nat /\ 60 * h + m <= 1439
    BY SMT
  <2>3. ASSUME NEW n \in Nat, n <= 1439 PROVE n * k \in Nat /\ n * k <= 1439 * k
    BY <2>3, SMT
  <2>4. (60 * h + m) * k \in Nat /\ (60 * h + m) * k <= 1439 * k
    BY <2>2, <2>3
  <2> QED
    BY <2>1, <2>4, SMT
<1> QED
  BY <1>1, <1>2, GrainAssumption DEF TargetTod, MS_PER_DAY, MS_PER_HOUR

(* Days are whole, *)
LEMMA DayAndTime ==
    ASSUME NEW d \in Nat \ {0}, NEW k \in Int, NEW t \in Nat, t < d
    PROVE  /\ k * d \in Int
           /\ ((k * d + t) % d) = t
           /\ (k * d) \div d = k
  BY SMT

(* and later ones begin later. *)
LEMMA LaterDays ==
    ASSUME NEW d \in Nat \ {0}, NEW a \in Int, NEW b \in Int, NEW t \in Nat, t < d
    PROVE  /\ a <= b => a * d + t <= b * d + t
           /\ a < b => a * d + d <= b * d
  BY SMT

(* The local day and time of day are those that were asked about. *)
LEMMA LocalIs ==
    ASSUME AlmanacInv, NEW offset \in Offsets, NEW tod \in TimesOfDay,
           NEW local, local = LocalMs(day * MS_PER_DAY + tod - offset * MS_PER_MINUTE, offset)
    PROVE  /\ local = day * MS_PER_DAY + tod /\ day * MS_PER_DAY \in Int
           /\ TimeOfDay(local) = tod /\ DayStart(local) = day * MS_PER_DAY
           /\ DayStart(local) \div MS_PER_DAY = day
<1>1. day \in Int
  BY NextMonthIs DEF AlmanacInv
<1>2. /\ MS_PER_DAY \in Nat \ {0} /\ tod \in Nat /\ tod < MS_PER_DAY
      /\ offset * MS_PER_MINUTE \in Int
  BY ClockIs
<1>3. /\ day * MS_PER_DAY \in Int
      /\ ((day * MS_PER_DAY + tod) % MS_PER_DAY) = tod
      /\ (day * MS_PER_DAY) \div MS_PER_DAY = day
  BY <1>1, <1>2, DayAndTime
<1>4. PICK x \in Int, o \in Int : x = day * MS_PER_DAY /\ o = offset * MS_PER_MINUTE
  BY <1>2, <1>3
<1>5. local = x + tod - o + o
  BY <1>4 DEF LocalMs
<1>6. local = x + tod
  BY <1>2, <1>4, <1>5
<1>7. TimeOfDay(local) = tod
  BY <1>3, <1>4, <1>6 DEF TimeOfDay
<1>8. DayStart(local) = x
  BY <1>2, <1>4, <1>6, <1>7 DEF DayStart
<1> QED
  BY <1>3, <1>4, <1>6, <1>7, <1>8

LEMMA UtcIs ==
    ASSUME NEW local \in Int, NEW offset \in Offsets, local - offset * MS_PER_MINUTE >= 0
    PROVE  UtcFromLocal(local, offset) = local - offset * MS_PER_MINUTE
<1>1. PICK x \in Int : x = local - offset * MS_PER_MINUTE /\ x >= 0
  BY ClockIs
<1>2. Max({x, 0}) = x
  <2>1. ASSUME NEW a \in {x, 0}, \A b \in {x, 0} : a >= b PROVE a = x
    BY <1>1, <2>1
  <2>2. x \in {x, 0} /\ \A b \in {x, 0} : x >= b
    BY <1>1
  <2> QED
    BY <2>1, <2>2 DEF Max
<1> QED
  BY <1>1, <1>2 DEF UtcFromLocal

-----------------------------------------------------------------------------
(* The days at which a trigger is due: the almanac says the first of them. *)
LEMMA DayIsDue ==
    ASSUME AlmanacInv, NEW s \in CalendarSpecs
    PROVE  \E i \in 1 .. 62 : IsDay(s, i)
<1>1. CASE s.kind = "daily"
  <2>1. IsDay(s, 1)
    BY <1>1 DEF IsDay
  <2> QED
    BY <2>1
<1>2. CASE s.kind = "weekly"
  <2>1. day \in Int /\ s.day \in 0 .. 6
    BY <1>2, NextMonthIs, ValidSpecs DEF AlmanacInv
  <2>2. \E i \in 1 .. 7 : ((day + i - 4) % 7) = s.day
    <3>1. PICK q \in Int, r \in 0 .. 6, w \in 0 .. 6 : day - 3 = 7 * q + r /\ w = s.day
      <4>1. (day - 3) \div 7 \in Int /\ ((day - 3) % 7) \in 0 .. 6
            /\ day - 3 = 7 * ((day - 3) \div 7) + ((day - 3) % 7)
        BY <2>1, SMT
      <4> QED
        BY <2>1, <4>1
    <3>2. PICK i \in 1 .. 7 : i = (IF w >= r THEN w - r + 1 ELSE w - r + 8)
      BY SMT
    <3>3. day + i - 4 = 7 * q + w \/ day + i - 4 = 7 * (q + 1) + w
      BY <2>1, <3>1, <3>2, SMT
    <3>4. ((day + i - 4) % 7) = w
      BY <3>3, SMT
    <3> QED
      BY <3>1, <3>4
  <2>3. PICK i \in 1 .. 7 : ((day + i - 4) % 7) = s.day
    BY <2>2
  <2>4. i \in 1 .. 62 /\ IsDay(s, i)
    BY <1>2, <2>3 DEF IsDay
  <2> QED
    BY <2>4
<1>3. CASE s.kind = "monthly"
  <2>1. s.day \in 1 .. 31 /\ date \in Dates /\ day = DayNumber(date)
    BY <1>3, ValidSpecs DEF AlmanacInv
  <2>2. PICK b \in Dates, i \in 1 .. 62 : b.d = s.day /\ DayNumber(b) = DayNumber(date) + i
    BY <2>1, DayComes
  <2>3. i \in Horizon
    BY DEF Horizon
  <2>4. Ahead[i] = b
    BY <2>1, <2>2, <2>3, DaysGoBy, DatesDiffer
  <2>5. IsDay(s, i)
    BY <1>3, <2>2, <2>4 DEF IsDay
  <2> QED
    BY <2>5
<1> QED
  BY <1>1, <1>2, <1>3, ValidSpecs

LEMMA FirstDueDay ==
    ASSUME AlmanacInv, NEW s \in CalendarSpecs, NEW tod \in TimesOfDay
    PROVE  /\ Min(DueDays(s, tod)) \in Horizon /\ Min(DueDays(s, tod)) \in Nat
           /\ IsDay(s, Min(DueDays(s, tod)))
           /\ Min(DueDays(s, tod)) * MS_PER_DAY + TargetTod(s) >= tod
           /\ \A i \in Horizon :
                IsDay(s, i) /\ i * MS_PER_DAY + TargetTod(s) >= tod => Min(DueDays(s, tod)) <= i
<1> DEFINE S == DueDays(s, tod)
<1>1. S \subseteq Nat /\ S \subseteq Horizon
  BY DEF DueDays, Horizon
<1>2. S # {}
  <2>1. PICK i \in 1 .. 62 : IsDay(s, i)
    BY DayIsDue
  <2>2. /\ MS_PER_DAY \in Nat \ {0} /\ tod \in Nat /\ tod < MS_PER_DAY
        /\ TargetTod(s) \in Nat
    BY ClockIs, TargetIs
  <2>3. ASSUME NEW d \in Nat \ {0}, NEW t \in Nat, NEW u \in Nat, u < d
        PROVE  i * d + t >= u
    BY <2>3, SMT
  <2>4. i * MS_PER_DAY + TargetTod(s) >= tod
    BY <2>2, <2>3
  <2>5. i \in Horizon
    BY DEF Horizon
  <2> QED
    BY <2>1, <2>4, <2>5 DEF DueDays
<1> HIDE DEF S
<1>3. PICK a \in S : \A x \in S : a <= x
  BY <1>1, <1>2, LeastNatural
<1>4. S \subseteq Int
  BY <1>1
<1>5. Min(S) = a
  BY <1>3, <1>4, LeastIs
<1> QED
  BY <1>1, <1>3, <1>5 DEF S, DueDays

(* The candidates of the loops are on those days, and the first is taken. *)
FireOn(s, i) == (day + i) * MS_PER_DAY + TargetTod(s)

LEMMA DailyIsFirst ==
    ASSUME AlmanacInv, NEW s \in CalendarSpecs, s.kind = "daily", NEW tod \in TimesOfDay,
           NEW local, TimeOfDay(local) = tod, DayStart(local) = day * MS_PER_DAY
    PROVE  NextDaily(s, local) = FireOn(s, Min(DueDays(s, tod)))
<1> DEFINE first == Min(DueDays(s, tod))
<1>1. /\ first \in Nat /\ first * MS_PER_DAY + TargetTod(s) >= tod
      /\ \A i \in Horizon : i * MS_PER_DAY + TargetTod(s) >= tod => first <= i
  BY FirstDueDay DEF IsDay
<1>2. /\ MS_PER_DAY \in Nat \ {0} /\ tod \in Nat /\ tod < MS_PER_DAY
      /\ TargetTod(s) \in Nat
  BY ClockIs, TargetIs
<1>3. 0 \in Horizon /\ 1 \in Horizon
  BY DEF Horizon
<1>4. first = IF tod <= TargetTod(s) THEN 0 ELSE 1
  <2> HIDE DEF first
  <2>1. 0 * MS_PER_DAY + TargetTod(s) = TargetTod(s) /\ 1 * MS_PER_DAY + TargetTod(s) >= tod
    BY <1>2
  <2>2. tod <= TargetTod(s) => first <= 0
    BY <1>1, <1>2, <1>3, <2>1
  <2>3. first <= 1
    BY <1>1, <1>3, <2>1
  <2>4. first = 0 => tod <= TargetTod(s)
    BY <1>1, <1>2, <2>1
  <2> QED
    BY <1>1, <2>2, <2>3, <2>4
<1>5. day \in Int
  BY NextMonthIs DEF AlmanacInv
<1> HIDE DEF first
<1>6. /\ (day + 0) * MS_PER_DAY = day * MS_PER_DAY
      /\ (day + 1) * MS_PER_DAY = day * MS_PER_DAY + MS_PER_DAY
  BY <1>2, <1>5, SMT
<1>7. NextDaily(s, local) = FireOn(s, first)
  BY <1>2, <1>4, <1>6 DEF NextDaily, FireOn
<1> QED
  BY <1>7 DEF first

LEMMA WeeklyIsFirst ==
    ASSUME AlmanacInv, NEW s \in CalendarSpecs, s.kind = "weekly", NEW tod \in TimesOfDay,
           NEW local, TimeOfDay(local) = tod, DayStart(local) = day * MS_PER_DAY,
           DayStart(local) \div MS_PER_DAY = day
    PROVE  NextWeekly(s, local) = FireOn(s, Min(DueDays(s, tod)))
<1> DEFINE first == Min(DueDays(s, tod))
           wd == (day + 3) % 7
           delta == (s.day + 7 - wd) % 7
           days == IF delta = 0 /\ tod > TargetTod(s) THEN 7 ELSE delta
<1>1. /\ first \in Nat /\ first \in 0 .. 62 /\ first * MS_PER_DAY + TargetTod(s) >= tod
      /\ ((day + first - 4) % 7) = s.day
      /\ \A i \in 0 .. 62 : ((day + i - 4) % 7) = s.day /\ i * MS_PER_DAY + TargetTod(s) >= tod => first <= i
  BY FirstDueDay DEF IsDay, Horizon
<1>2. /\ MS_PER_DAY \in Nat \ {0} /\ tod \in Nat /\ tod < MS_PER_DAY
      /\ TargetTod(s) \in Nat
  BY ClockIs, TargetIs
<1>3. day \in Int /\ s.day \in 0 .. 6
  BY NextMonthIs, ValidSpecs DEF AlmanacInv
<1>4. /\ delta \in 0 .. 6
      /\ ((day + delta - 4) % 7) = s.day /\ ((day + 7 - 4) % 7) = ((day + 0 - 4) % 7)
      /\ \A i \in 0 .. 6 : ((day + i - 4) % 7) = s.day => i = delta
  <2>1. PICK q \in Int, r \in 0 .. 6 : day + 3 = 7 * q + r /\ r = wd
    <3>1. (day + 3) \div 7 \in Int /\ ((day + 3) % 7) \in 0 .. 6
          /\ day + 3 = 7 * ((day + 3) \div 7) + ((day + 3) % 7)
      BY <1>3, SMT
    <3> QED
      BY <3>1
  <2>2. PICK w \in 0 .. 6 : w = s.day
    BY <1>3
  <2> HIDE DEF wd
  <2>3. delta = IF w >= r THEN w - r ELSE w - r + 7
    <3>1. delta = (w + 7 - r) % 7
      BY <2>1, <2>2
    <3>2. ((w + 7 - r) % 7) = IF w >= r THEN w - r ELSE w - r + 7
      BY SMT
    <3> HIDE DEF delta
    <3> QED
      BY <3>1, <3>2
  <2> HIDE DEF delta
  <2>4. delta \in 0 .. 6
    BY <2>3
  <2>5. ASSUME NEW i \in 0 .. 7
        PROVE  ((day + i - 4) % 7) = IF r + i < 7 THEN r + i ELSE IF r + i < 14 THEN r + i - 7 ELSE r + i - 14
    <3>1. day + i - 4 = 7 * (q - 1) + (r + i) /\ day + i - 4 = 7 * q + (r + i - 7)
          /\ day + i - 4 = 7 * (q + 1) + (r + i - 14)
      BY <1>3, <2>1, SMT
    <3> QED
      BY <2>1, <3>1, SMT
  <2>6. ((day + delta - 4) % 7) = w
    BY <2>1, <2>2, <2>3, <2>4, <2>5
  <2>7. ((day + 7 - 4) % 7) = ((day + 0 - 4) % 7)
    BY <2>1, <2>5
  <2>8. \A i \in 0 .. 6 : ((day + i - 4) % 7) = w => i = delta
    BY <2>1, <2>2, <2>3, <2>5
  <2> QED
    BY <2>2, <2>4, <2>6, <2>7, <2>8
<1> HIDE DEF first, delta, wd
<1>5. ASSUME NEW i \in Nat, i >= 1 PROVE i * MS_PER_DAY + TargetTod(s) >= tod
  <2>1. ASSUME NEW d \in Nat \ {0}, NEW t \in Nat, NEW u \in Nat, u < d
        PROVE  i * d + t >= u
    BY <1>5, <2>1, SMT
  <2> QED
    BY <1>2, <2>1
<1>6. first = days
  <2>1. CASE delta # 0
    <3>1. first <= delta
      <4>1. delta \in Nat /\ delta >= 1 /\ delta \in 0 .. 62
        BY <1>4, <2>1
      <4> QED
        BY <1>1, <1>4, <1>5, <4>1
    <3>2. first \in 0 .. 6
      BY <1>1, <1>4, <3>1
    <3> QED
      BY <1>1, <1>4, <2>1, <3>2
  <2>2. CASE delta = 0
    <3>1. ((day + 0 - 4) % 7) = s.day /\ ((day + 7 - 4) % 7) = s.day
      BY <1>4, <2>2
    <3>2. 0 * MS_PER_DAY + TargetTod(s) = TargetTod(s) /\ 0 \in 0 .. 62 /\ 7 \in 0 .. 62
      BY <1>2
    <3>3. first <= 7
      BY <1>1, <1>5, <3>1, <3>2
    <3>4. first = 0 \/ first = 7
      BY <1>1, <1>4, <2>2, <3>3
    <3>5. tod <= TargetTod(s) => first <= 0
      BY <1>1, <1>2, <3>1, <3>2
    <3>6. first = 0 => tod <= TargetTod(s)
      BY <1>1, <1>2, <3>2
    <3> QED
      BY <1>1, <1>2, <2>2, <3>4, <3>5, <3>6
  <2> QED
    BY <2>1, <2>2
<1> HIDE DEF days
<1>7. NextWeekly(s, local) = day * MS_PER_DAY + days * MS_PER_DAY + TargetTod(s)
  BY DEF NextWeekly, days, delta, wd
<1>8. (day + first) * MS_PER_DAY = day * MS_PER_DAY + first * MS_PER_DAY
  BY <1>1, <1>2, <1>3, SMT
<1>9. NextWeekly(s, local) = FireOn(s, first)
  BY <1>6, <1>7, <1>8 DEF FireOn
<1> QED
  BY <1>9 DEF first

(* A day of a later month that is as far off as the almanac looks *)
LEMMA MonthIsNear ==
    ASSUME AlmanacInv, NEW i \in Horizon
    PROVE  \E n \in 0 .. 27 : /\ Ahead[i].y = MonthAfter(date, n).y
                              /\ Ahead[i].m = MonthAfter(date, n).m
<1>1. PICK n \in Nat : InMonth(Ahead[i], date, n, i)
  BY DaysGoBy
<1>2. Ahead[i].d \in 1 .. 31 /\ date.d \in 1 .. 31 /\ i \in 0 .. 62
  BY DaysGoBy DEF AlmanacInv, Dates, Horizon
<1>3. n \in 0 .. 27
  BY <1>1, <1>2 DEF InMonth
<1> QED
  BY <1>1, <1>3 DEF InMonth

LEMMA MonthlyIsFirst ==
    ASSUME AlmanacInv, NEW s \in CalendarSpecs, s.kind = "monthly", NEW tod \in TimesOfDay,
           NEW local, local = day * MS_PER_DAY + tod,
           DayStart(local) \div MS_PER_DAY = day
    PROVE  /\ MonthlyCandidates(s, local) # {}
           /\ Min(MonthlyCandidates(s, local)) = FireOn(s, Min(DueDays(s, tod)))
<1> DEFINE first == Min(DueDays(s, tod))
           S == MonthlyCandidates(s, local)
<1>1. /\ first \in Horizon /\ first \in Nat /\ first * MS_PER_DAY + TargetTod(s) >= tod
      /\ Ahead[first].d = s.day
      /\ \A i \in Horizon : Ahead[i].d = s.day /\ i * MS_PER_DAY + TargetTod(s) >= tod => first <= i
  BY FirstDueDay DEF IsDay
<1> HIDE DEF first
<1>2. /\ MS_PER_DAY \in Nat \ {0} /\ tod \in Nat /\ tod < MS_PER_DAY
      /\ TargetTod(s) \in Nat /\ TargetTod(s) < MS_PER_DAY
  BY ClockIs, TargetIs
<1>3. /\ date \in Dates /\ day = DayNumber(date) /\ day \in Int
      /\ date.y \in Nat \ {0} /\ date.m \in 1 .. 12 /\ s.day \in 1 .. 31
  BY NextMonthIs, ValidSpecs DEF AlmanacInv, Dates
<1>4. CivilFromUnixDays(DayStart(local) \div MS_PER_DAY) = date
  BY <1>3, DateIsFound
<1>5. S = {t \in {CandidateIn(s, MonthAfter(date, n)) :
                    n \in {k \in 0 .. 27 : LET ym == MonthAfter(date, k) IN s.day <= DaysInMonth(ym.y, ym.m)}} :
             t >= local}
  BY <1>4 DEF MonthlyCandidates
<1>6. ASSUME NEW n \in 0 .. 27
      PROVE  MonthAfter(date, n).y \in Nat \ {0} /\ MonthAfter(date, n).m \in 1 .. 12
  <2>1. ASSUME NEW y \in Nat \ {0}, NEW m \in 1 .. 12
        PROVE  y + (m - 1 + n) \div 12 \in Nat \ {0} /\ ((m - 1 + n) % 12) + 1 \in 1 .. 12
    BY <2>1, SMT
  <2> QED
    BY <1>3, <2>1 DEF MonthAfter
<1>7. ASSUME NEW n \in 0 .. 27, s.day <= DaysInMonth(MonthAfter(date, n).y, MonthAfter(date, n).m)
      PROVE  LET b == Date(MonthAfter(date, n).y, MonthAfter(date, n).m, s.day) IN
             /\ b \in Dates /\ DayNumber(b) \in Int
             /\ CandidateIn(s, MonthAfter(date, n)) = DayNumber(b) * MS_PER_DAY + TargetTod(s)
  <2> DEFINE b == Date(MonthAfter(date, n).y, MonthAfter(date, n).m, s.day)
  <2>1. MonthAfter(date, n).y \in Nat \ {0} /\ MonthAfter(date, n).m \in 1 .. 12
    BY <1>6
  <2>2. s.day <= LastDay(MonthAfter(date, n).y, MonthAfter(date, n).m)
    BY <1>7, <2>1, SameLengths
  <2>3. b.y = MonthAfter(date, n).y /\ b.m = MonthAfter(date, n).m /\ b.d = s.day
    BY DEF Date
  <2>4. b \in Dates
    BY <1>3, <2>1, <2>2 DEF Date, Dates
  <2> HIDE DEF b
  <2>5. UnixDaysFromCivil(b.y, b.m, b.d) = DayNumber(b) /\ DayNumber(b) \in Int
    BY <2>4, CountsAlike, NextMonthIs
  <2>6. CandidateIn(s, MonthAfter(date, n)) = DayNumber(b) * MS_PER_DAY + TargetTod(s)
    BY <2>3, <2>5 DEF CandidateIn
  <2> QED
    BY <2>4, <2>5, <2>6 DEF b
<1>8. FireOn(s, first) \in S
  <2>1. PICK n \in 0 .. 27 : /\ Ahead[first].y = MonthAfter(date, n).y
                             /\ Ahead[first].m = MonthAfter(date, n).m
    BY <1>1, MonthIsNear
  <2>2. Ahead[first] \in Dates /\ DayNumber(Ahead[first]) = day + first
    BY <1>1, DaysGoBy
  <2>3. Ahead[first] = Date(MonthAfter(date, n).y, MonthAfter(date, n).m, s.day)
    BY <1>1, <2>1, <2>2 DEF Date, Dates
  <2>4. s.day <= DaysInMonth(MonthAfter(date, n).y, MonthAfter(date, n).m)
    <3>1. s.day <= LastDay(Ahead[first].y, Ahead[first].m)
      BY <1>1, <2>2 DEF Dates
    <3>2. MonthAfter(date, n).y \in Nat /\ MonthAfter(date, n).m \in 1 .. 12
      BY <1>6
    <3> QED
      BY <2>1, <3>1, <3>2, SameLengths
  <2>5. CandidateIn(s, MonthAfter(date, n)) = FireOn(s, first)
    BY <1>7, <2>2, <2>3, <2>4 DEF FireOn
  <2>6. FireOn(s, first) >= local
    <3>1. (day + first) * MS_PER_DAY = day * MS_PER_DAY + first * MS_PER_DAY
          /\ day * MS_PER_DAY \in Int /\ first * MS_PER_DAY \in Int
      BY <1>1, <1>2, <1>3, SMT
    <3> QED
      BY <1>1, <1>2, <3>1 DEF FireOn
  <2> QED
    BY <1>5, <2>4, <2>5, <2>6
<1>9. ASSUME NEW t \in S PROVE t \in Int /\ FireOn(s, first) <= t
  <2>1. PICK n \in 0 .. 27 : /\ s.day <= DaysInMonth(MonthAfter(date, n).y, MonthAfter(date, n).m)
                             /\ t = CandidateIn(s, MonthAfter(date, n)) /\ t >= local
    BY <1>5, <1>9
  <2>2. PICK b \in Dates : b.d = s.day /\ DayNumber(b) \in Int
                             /\ t = DayNumber(b) * MS_PER_DAY + TargetTod(s)
    <3> DEFINE b == Date(MonthAfter(date, n).y, MonthAfter(date, n).m, s.day)
    <3>1. b.d = s.day
      BY DEF Date
    <3>2. b \in Dates /\ DayNumber(b) \in Int /\ t = DayNumber(b) * MS_PER_DAY + TargetTod(s)
      BY <1>7, <2>1
    <3> QED
      BY <3>1, <3>2
  <2>3. PICK k \in Int : k = DayNumber(b)
    BY <2>2
  <2>4. t \in Int
    BY <1>2, <2>2, SMT
  <2>5. k >= day /\ (k - day) * MS_PER_DAY + TargetTod(s) >= tod
    <3>1. ASSUME NEW d \in Nat \ {0}, NEW a \in Int, NEW e \in Int, NEW x \in Nat, NEW u \in Nat,
                 x < d, u < d, a * d + x >= e * d + u
          PROVE  a >= e /\ (a - e) * d + x >= u
      <4>1. (a - e) * d = a * d - e * d
        BY SMT
      <4>2. a < e => a * d + d <= e * d
        BY <3>1, LaterDays
      <4> QED
        BY <3>1, <4>1, <4>2, SMT
    <3>2. k * MS_PER_DAY + TargetTod(s) >= day * MS_PER_DAY + tod
      BY <2>1, <2>2, <2>3
    <3> QED
      BY <1>2, <1>3, <3>1, <3>2
  <2>6. day + first <= k
    <3>1. CASE k - day > 62
      BY <1>1, <1>3, <2>5, <3>1 DEF Horizon
    <3>2. CASE k - day <= 62
      <4>1. k - day \in Horizon
        BY <1>3, <2>5, <3>2 DEF Horizon
      <4>2. Ahead[k - day] \in Dates /\ DayNumber(Ahead[k - day]) = day + (k - day)
        BY <4>1, DaysGoBy
      <4>3. day + (k - day) = k
        BY <1>3
      <4>4. Ahead[k - day] = b
        BY <2>2, <2>3, <4>2, <4>3, DatesDiffer
      <4>5. first <= k - day
        BY <1>1, <2>2, <2>5, <4>1, <4>4
      <4> QED
        BY <1>1, <1>3, <4>5
    <3> QED
      BY <1>3, <3>1, <3>2
  <2>7. (day + first) * MS_PER_DAY + TargetTod(s) <= k * MS_PER_DAY + TargetTod(s)
    <3>1. day + first \in Int
      BY <1>1, <1>3
    <3> QED
      BY <1>2, <2>6, <3>1, LaterDays
  <2> QED
    BY <2>2, <2>3, <2>4, <2>7 DEF FireOn
<1> HIDE DEF S
<1>10. S \subseteq Int /\ \A t \in S : FireOn(s, first) <= t
  BY <1>9
<1>11. Min(S) = FireOn(s, first)
  BY <1>8, <1>10, LeastIs
<1> QED
  BY <1>8, <1>11 DEF S, first

-----------------------------------------------------------------------------
(* Wherever the almanac is, every question gets that answer. *)
LEMMA FireIsFirst ==
    ASSUME AlmanacInv, NEW s \in CalendarSpecs, NEW offset \in Offsets, NEW tod \in TimesOfDay,
           NEW from, from = day * MS_PER_DAY + tod - offset * MS_PER_MINUTE, from >= 0
    PROVE  NextFireMs(s, from, offset)
             = (day + Min(DueDays(s, tod))) * MS_PER_DAY + TargetTod(s) - offset * MS_PER_MINUTE
<1> DEFINE first == Min(DueDays(s, tod))
<1>1. PICK local : local = LocalMs(from, offset)
  OBVIOUS
<1>2. /\ local = day * MS_PER_DAY + tod /\ day * MS_PER_DAY \in Int
      /\ TimeOfDay(local) = tod /\ DayStart(local) = day * MS_PER_DAY
      /\ DayStart(local) \div MS_PER_DAY = day
  BY <1>1, LocalIs
<1>3. /\ first \in Nat /\ first * MS_PER_DAY + TargetTod(s) >= tod
  BY FirstDueDay
<1>4. /\ MS_PER_DAY \in Nat \ {0} /\ tod \in Nat /\ TargetTod(s) \in Nat
      /\ offset * MS_PER_MINUTE \in Int /\ day \in Int
  BY ClockIs, TargetIs, NextMonthIs DEF AlmanacInv
<1> HIDE DEF first
<1>5. FireOn(s, first) \in Int /\ FireOn(s, first) - offset * MS_PER_MINUTE >= 0
  <2>1. /\ (day + first) * MS_PER_DAY = day * MS_PER_DAY + first * MS_PER_DAY
        /\ first * MS_PER_DAY \in Int
    BY <1>3, <1>4, SMT
  <2>2. PICK x \in Int, z \in Int, o \in Int :
          x = day * MS_PER_DAY /\ z = first * MS_PER_DAY /\ o = offset * MS_PER_MINUTE
    BY <1>2, <1>4, <2>1
  <2>3. FireOn(s, first) = x + z + TargetTod(s) /\ z + TargetTod(s) >= tod /\ x + tod - o >= 0
    BY <1>3, <2>1, <2>2 DEF FireOn
  <2> QED
    BY <1>4, <2>2, <2>3
<1>6. UtcFromLocal(FireOn(s, first), offset) = FireOn(s, first) - offset * MS_PER_MINUTE
  BY <1>5, UtcIs
<1>7. NextFireMs(s, from, offset) = UtcFromLocal(FireOn(s, first), offset)
  <2>1. CASE s.kind = "daily"
    <3>1. NextDaily(s, local) = FireOn(s, first)
      BY <1>2, <2>1, DailyIsFirst DEF first
    <3> QED
      BY <1>1, <2>1, <3>1 DEF NextFireMs
  <2>2. CASE s.kind = "weekly"
    <3>1. NextWeekly(s, local) = FireOn(s, first)
      BY <1>2, <2>2, WeeklyIsFirst DEF first
    <3> QED
      BY <1>1, <2>2, <3>1 DEF NextFireMs
  <2>3. CASE s.kind = "monthly"
    <3>1. MonthlyCandidates(s, local) # {} /\ Min(MonthlyCandidates(s, local)) = FireOn(s, first)
      BY <1>2, <2>3, MonthlyIsFirst DEF first
    <3> QED
      BY <1>1, <2>3, <3>1 DEF NextFireMs
  <2> QED
    BY <2>1, <2>2, <2>3, ValidSpecs
<1>8. NextFireMs(s, from, offset) = (day + first) * MS_PER_DAY + TargetTod(s) - offset * MS_PER_MINUTE
  <2>1. NextFireMs(s, from, offset) = FireOn(s, first) - offset * MS_PER_MINUTE
    BY <1>6, <1>7, Zenon
  <2>2. PICK x \in Int, o \in Int : x = (day + first) * MS_PER_DAY /\ o = offset * MS_PER_MINUTE
    BY <1>3, <1>4, SMT
  <2>3. FireOn(s, first) - o = x + TargetTod(s) - o
    BY <1>4, <2>2 DEF FireOn
  <2> QED
    BY <2>1, <2>2, <2>3
<1> QED
  BY <1>8 DEF first

(* DueAtTheFirst: whatever the dates a walk starts from and however long it
   goes on, whatever the specifications, time zones and times of day, a trigger
   is due at the first moment that matches (trigger.rs, next_fire_ms).  The
   almanac's date stays a date and the number of its day stays its number;
   with that, unix_days_from_civil and civil_from_unix_days are the almanac's
   count and its inverse, and nothing further than two months off is first. *)
THEOREM CalendarIsExact == AlmanacSpec => []DueAtTheFirst
<1>1. AlmanacInit => AlmanacInv
  <2> SUFFICES ASSUME AlmanacInit PROVE AlmanacInv
    OBVIOUS
  <2>1. /\ date = Date(date.y, date.m, date.d) /\ date.y \in Nat \ {0} /\ date.m \in 1 .. 12
        /\ date.d \in 1 .. LastDay(date.y, date.m) /\ day = DayNumber(date)
    BY StartsAssumption DEF AlmanacInit
  <2>2. LastDay(date.y, date.m) \in 28 .. 31
    BY <2>1, MonthLengths
  <2>3. date.d \in 1 .. 31 /\ date.d <= LastDay(date.y, date.m)
    BY <2>1, <2>2
  <2> QED
    BY <2>1, <2>3 DEF AlmanacInv, Dates, Date
<1>2. AlmanacInv /\ [NextDay]_almanac => AlmanacInv'
  <2> SUFFICES ASSUME AlmanacInv, [NextDay]_almanac PROVE AlmanacInv'
    OBVIOUS
  <2>1. CASE NextDay
    BY <2>1, TomorrowIsNext DEF AlmanacInv, NextDay
  <2>2. CASE UNCHANGED almanac
    BY <2>2 DEF AlmanacInv, almanac
  <2> QED
    BY <2>1, <2>2
<1>3. AlmanacInv => DueAtTheFirst
  BY FireIsFirst DEF DueAtTheFirst
<1> QED
  BY <1>1, <1>2, <1>3, PTL DEF AlmanacSpec
=============================================================================
