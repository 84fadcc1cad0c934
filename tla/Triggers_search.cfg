\* One cron, calendar interval, or and and trigger, every start, two fire times.
SPECIFICATION FairSpec
CONSTANTS
    MonthDays <- ShortYears
    DaysPerWeek = 3
    HoursPerDay = 4
    MinutesPerHour = 2
    Forward = 10
    Back = 60
    Triggers <- SomeTriggers
    Starts <- AllStarts
    MaxFires = 2
    Delay = 1
INVARIANTS
    CronEarliest
    FiresForward
    CalendarKeepsTime
    EndsWhenOver
PROPERTIES
    SearchEnds
CHECK_DEADLOCK FALSE
