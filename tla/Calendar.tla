------------------------------ MODULE Calendar ------------------------------
(***************************************************************************)
(* When a trigger is due: next_fire_ms of crates/evo-daemon/src/trigger.rs *)
(* with its conversions between days and dates.  A walk through the        *)
(* almanac, one day per step, is what they are held against.               *)
(***************************************************************************)
EXTENDS Integers, FiniteSetsExt

CONSTANTS
    MS_PER_MINUTE,  \* 60,000 in the code: here the grain of time
    Starts,         \* where a walk starts: <<unix day, date>>
    MaxDays,        \* bound: how many days it goes on
    CalendarSpecs,  \* calendar specs, as validate_spec lets them pass
    Offsets,        \* tz_offset_minutes
    TimesOfDay,     \* local times of day at which the question is asked
    Months          \* the months in whose days it is asked: <<year, month>>

MS_PER_HOUR == 60 * MS_PER_MINUTE
MS_PER_DAY == 24 * MS_PER_HOUR

ASSUME GrainAssumption == MS_PER_MINUTE \in Nat \ {0}
ASSUME ValidSpecs ==
    \A s \in CalendarSpecs :
      /\ s.kind \in {"daily", "weekly", "monthly"}
      /\ s.hour \in 0 .. 23 /\ s.minute \in 0 .. 59
      /\ s.kind = "weekly" => s.day \in 0 .. 6
      /\ s.kind = "monthly" => s.day \in 1 .. 31
ASSUME ValidClock ==
    /\ Offsets \subseteq (-14 * 60) .. (14 * 60)
    /\ TimesOfDay \subseteq 0 .. MS_PER_DAY - 1

VARIABLES day, date, walked

almanac == <<day, date, walked>>

-----------------------------------------------------------------------------
(* The conversions.  Rust's division truncates, which matters before year 0. *)

Date(y, m, d) == [y |-> y, m |-> m, d |-> d]
Truncated(a, b) == IF a >= 0 THEN a \div b ELSE -((-a) \div b)

YearOfEra(doe) == (doe - doe \div 1460 + doe \div 36524 - doe \div 146096) \div 365

CivilFromUnixDays(unix_days) ==
    LET z   == unix_days + 719468
        era == Truncated(IF z >= 0 THEN z ELSE z - 146096, 146097)
        doe == z - era * 146097
        yoe == YearOfEra(doe)
        doy == doe - (365 * yoe + yoe \div 4 - yoe \div 100)
        mp  == (5 * doy + 2) \div 153
        m   == IF mp < 10 THEN mp + 3 ELSE mp - 9
    IN  Date(yoe + era * 400 + (IF m <= 2 THEN 1 ELSE 0), m, doy - (153 * mp + 2) \div 5 + 1)

UnixDaysFromCivil(year, m, d) ==
    LET y   == IF m <= 2 THEN year - 1 ELSE year
        era == Truncated(IF y >= 0 THEN y ELSE y - 399, 400)
        yoe == y - era * 400
        doy == (153 * (IF m > 2 THEN m - 3 ELSE m + 9) + 2) \div 5 + d - 1
        doe == yoe * 365 + yoe \div 4 - yoe \div 100 + doy
    IN  era * 146097 + doe - 719468

IsLeap(year) == year % 4 = 0 /\ (year % 100 # 0 \/ year % 400 = 0)

DaysInMonth(year, month) ==
    CASE month \in {1, 3, 5, 7, 8, 10, 12} -> 31
      [] month \in {4, 6, 9, 11} -> 30
      [] month = 2 -> IF IsLeap(year) THEN 29 ELSE 28

-----------------------------------------------------------------------------
(* next_daily, next_weekly, next_monthly *)

LocalMs(utc_ms, offset) == utc_ms + offset * MS_PER_MINUTE
UtcFromLocal(local, offset) == Max({local - offset * MS_PER_MINUTE, 0})

TimeOfDay(local) == local % MS_PER_DAY
DayStart(local) == local - TimeOfDay(local)
TargetTod(s) == s.hour * MS_PER_HOUR + s.minute * MS_PER_MINUTE

NextDaily(s, local) ==
    IF TimeOfDay(local) <= TargetTod(s) THEN DayStart(local) + TargetTod(s)
    ELSE DayStart(local) + MS_PER_DAY + TargetTod(s)

(* 1970-01-01 was a Thursday; Monday is 0. *)
NextWeekly(s, local) ==
    LET wd    == ((DayStart(local) \div MS_PER_DAY) + 3) % 7
        delta == (s.day + 7 - wd) % 7
        days  == IF delta = 0 /\ TimeOfDay(local) > TargetTod(s) THEN 7 ELSE delta
    IN  DayStart(local) + days * MS_PER_DAY + TargetTod(s)

(* Months that do not have the day are skipped; 28 are tried.  The loop returns
   the first candidate that is not past: the least, as they ascend. *)
MonthAfter(c, n) == [y |-> c.y + (c.m - 1 + n) \div 12, m |-> ((c.m - 1 + n) % 12) + 1]

CandidateIn(s, ym) == UnixDaysFromCivil(ym.y, ym.m, s.day) * MS_PER_DAY + TargetTod(s)

(* Faulty variant: the last day of a short month stands in for the missing one. *)
MonthlyCandidatesClamped(s, local) ==
    LET c == CivilFromUnixDays(DayStart(local) \div MS_PER_DAY) IN
    {t \in {LET ym == MonthAfter(c, n) IN
            UnixDaysFromCivil(ym.y, ym.m, Min({s.day, DaysInMonth(ym.y, ym.m)})) * MS_PER_DAY
              + TargetTod(s) : n \in 0 .. 27} : t >= local}

MonthlyCandidates(s, local) ==
    LET c == CivilFromUnixDays(DayStart(local) \div MS_PER_DAY) IN
    {t \in {CandidateIn(s, MonthAfter(c, n)) :
              n \in {k \in 0 .. 27 : LET ym == MonthAfter(c, k) IN s.day <= DaysInMonth(ym.y, ym.m)}} :
       t >= local}

NextFireMs(s, from_ms, offset) ==
    LET local == LocalMs(from_ms, offset) IN
    CASE s.kind = "daily"   -> UtcFromLocal(NextDaily(s, local), offset)
      [] s.kind = "weekly"  -> UtcFromLocal(NextWeekly(s, local), offset)
      [] s.kind = "monthly" ->
           IF MonthlyCandidates(s, local) = {} THEN from_ms
           ELSE UtcFromLocal(Min(MonthlyCandidates(s, local)), offset)

-----------------------------------------------------------------------------
(* The reference: an almanac knows tomorrow's date, and what day a day is. *)

LengthOf == [m \in 1 .. 12 |-> IF m = 2 THEN 28 ELSE IF m \in {4, 6, 9, 11} THEN 30 ELSE 31]
LeapDay(y) == IF y % 400 = 0 THEN 1 ELSE IF y % 100 = 0 THEN 0 ELSE IF y % 4 = 0 THEN 1 ELSE 0

LastDay(y, m) == LengthOf[m] + (IF m = 2 THEN LeapDay(y) ELSE 0)

Tomorrow(c) ==
    IF c.d < LastDay(c.y, c.m) THEN Date(c.y, c.m, c.d + 1)
    ELSE IF c.m < 12 THEN Date(c.y, c.m + 1, 1) ELSE Date(c.y + 1, 1, 1)

(* The days of a year before each month, and from 1970-01-01 to a date. *)
DaysBefore == [m \in 1 .. 12 |-> <<0, 31, 59, 90, 120, 151, 181, 212, 243, 273, 304, 334>>[m]]
LeapDaysBefore(y) == (y - 1) \div 4 - (y - 1) \div 100 + (y - 1) \div 400

DayNumber(c) ==
    365 * (c.y - 1970) + (LeapDaysBefore(c.y) - LeapDaysBefore(1970))
      + DaysBefore[c.m] + (IF c.m > 2 THEN LeapDay(c.y) ELSE 0) + c.d - 1

ASSUME StartsAssumption ==
    \A start \in Starts :
      LET c == start[2] IN
        /\ c = Date(c.y, c.m, c.d) /\ c.y \in Nat \ {0} /\ c.m \in 1 .. 12 /\ c.d \in 1 .. LastDay(c.y, c.m)
        /\ start[1] = DayNumber(c)

AlmanacInit ==
    /\ \E start \in Starts : day = start[1] /\ date = start[2]
    /\ walked = 0

NextDay ==
    /\ walked < MaxDays
    /\ day' = day + 1 /\ date' = Tomorrow(date) /\ walked' = walked + 1

AlmanacSpec == AlmanacInit /\ [][NextDay]_almanac

(* The dates of today and the days that come: from any day, two months are as
   long as the wait for a day of the month can be. *)
Horizon == 0 .. 62
Ahead == LET f[i \in Horizon] == IF i = 0 THEN date ELSE Tomorrow(f[i - 1]) IN f

(* That 1970-01-05 was a Monday is all there is to know of weeks. *)
IsDay(s, i) ==
    CASE s.kind = "daily"   -> TRUE
      [] s.kind = "weekly"  -> (day + i - 4) % 7 = s.day
      [] s.kind = "monthly" -> Ahead[i].d = s.day

(* The days from `day` on at which s is due, no earlier than tod today. *)
DueDays(s, tod) == {i \in Horizon : IsDay(s, i) /\ i * MS_PER_DAY + TargetTod(s) >= tod}

-----------------------------------------------------------------------------
(* A trigger is due at the first moment, from the given one on, that has its
   time of day and its day in its time zone: months without that day are
   skipped, no day that has it is, and no moment before the epoch is used
   ("from_ms 起（含）的下一次开火时刻", trigger.rs:148). *)
DueAtTheFirst ==
    <<date.y, date.m>> \in Months =>
    \A s \in CalendarSpecs, offset \in Offsets, tod \in TimesOfDay :
      LET from == day * MS_PER_DAY + tod - offset * MS_PER_MINUTE IN
      from >= 0 =>
        NextFireMs(s, from, offset)
          = (day + Min(DueDays(s, tod))) * MS_PER_DAY + TargetTod(s) - offset * MS_PER_MINUTE

=============================================================================
