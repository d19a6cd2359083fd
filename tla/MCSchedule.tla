----------------------------- MODULE MCSchedule -----------------------------
(***************************************************************************)
(* The scheduler and the calendar it plans by, for TLC, in one run: first  *)
(* the calendar goes through its days, at a grain of half a minute, so     *)
(* that dates up to 2100 fit TLC's integers; then, after the last of its   *)
(* walks, the scheduler runs, to which a calendar is a period.             *)
(***************************************************************************)
EXTENDS MCTriggers, Calendar

ScheduleInit == AlmanacInit /\ Init

LastWalkOver == walked = MaxDays /\ \A start \in Starts : start[1] <= day - walked

ScheduleNext ==
    \/ NextDay /\ UNCHANGED vars
    \/ LastWalkOver /\ Next /\ UNCHANGED almanac

ScheduleSpec ==
    /\ ScheduleInit /\ [][ScheduleNext]_<<almanac, vars>>
    /\ WF_vars(LastWalkOver /\ SchedulerStep /\ UNCHANGED almanac)

On(kind, d, hour, minute) == [kind |-> kind, day |-> d, hour |-> hour, minute |-> minute]

MCCalendarSpecs ==
    {On("daily", 0, 8, 0), On("daily", 0, 0, 0), On("daily", 0, 23, 59)}
      \cup {On("weekly", d, 8, 0) : d \in {0, 3, 6}}
      \cup {On("monthly", d, 8, 0) : d \in {1, 28, 29, 30, 31}}
      \cup {On("monthly", 31, 0, 0), On("monthly", 29, 23, 59)}

(* 14 hours west, UTC, China *)
MCOffsets == {-14 * 60, 0, 480}

(* midnight, just before, at and after 8:00, the last moment of a day *)
MCTimesOfDay ==
    {0, 8 * MS_PER_HOUR - 1, 8 * MS_PER_HOUR, 8 * MS_PER_HOUR + 1, MS_PER_DAY - 1}

(* Walks over the epoch, and over the winters around the leap century 2000, the
   leap year 2028 and the century 2100, which is none. *)
MCStarts ==
    {<<-61, Date(1969, 11, 1)>>, <<10896, Date(1999, 11, 1)>>,
     <<20970, Date(2027, 6, 1)>>, <<47421, Date(2099, 11, 1)>>}

MCMonths ==
    {<<1969, 12>>, <<1970, 1>>, <<2027, 7>>}
      \cup {<<y - 1, 12>> : y \in {2000, 2028, 2100}}
      \cup {<<y, m>> : y \in {2000, 2028, 2100}, m \in 1 .. 3}

=============================================================================
