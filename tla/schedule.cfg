CONSTANTS
    None = None
    Scheduler = scheduler
    Triggers = {t1, t2}
    Runs = {r1, r2, r3}
    Hooks = {}
    Specs <- MCOnce
    Times <- MCShort
    MaxCrashes = 0
    MS_PER_MINUTE = 2
    Starts <- MCStarts
    MaxDays = 300
    CalendarSpecs <- MCCalendarSpecs
    Offsets <- MCOffsets
    TimesOfDay <- MCTimesOfDay
    Months <- MCMonths
SPECIFICATION ScheduleSpec
CHECK_DEADLOCK FALSE
INVARIANTS
    DueAtTheFirst
PROPERTIES
    DueIsServed
