--------------------------- MODULE MCTriggerSearch ---------------------------
(***************************************************************************)
(* Instances of TriggerSearch for TLC: a year has two months, a week three *)
(* days, a day four hours, an hour two minutes.                            *)
(***************************************************************************)
EXTENDS TriggerSearch

\* The second year is a leap year.
ShortYears == <<<<3, 2>>, <<3, 3>>, <<3, 2>>>>

Single(part) == [mode |-> "single", parts |-> <<part>>]
Or(a, b) == [mode |-> "or", parts |-> <<a, b>>]
And(a, b) == [mode |-> "and", parts |-> <<a, b>>]

At(name, e) == [n \in {name} |-> {e}]
Exactly(name, v) == At(name, Between(v, NoValue, NoValue))
Both(f, g) == [n \in DOMAIN f \cup DOMAIN g |-> IF n \in DOMAIN f THEN f[n] ELSE g[n]]
Always(given) == Cron(given, None, None, 0)
Date(n) == Local(n * Day, 0)

Crons == {
    Always(<<>>),
    Always(Exactly("hour", 0)),
    Always(Exactly("hour", 1)),
    Always(At("hour", All(NoValue))),
    Always(At("hour", All(2))),
    Always(At("hour", Between(1, 3, 2))),
    Always([n \in {"hour"} |-> {Between(0, NoValue, NoValue), Between(3, NoValue, NoValue)}]),
    Always(At("day", LastDay)),
    Always(At("day", NthWeekday(1, 1))),
    Always(At("day", NthWeekday(5, 2))),
    Always(At("day_of_week", Between(1, 2, NoValue))),
    Always(Both(Exactly("week", 2), Exactly("day_of_week", 1))),
    Always(Both(Exactly("month", 2), Exactly("day", 3))),
    Always(Both(Exactly("year", 2), Exactly("hour", 2))),
    Cron(Exactly("minute", 1), Local(6, 0), Local(20, 0), 0),
    Cron(Exactly("hour", 0), None, None, 2),
    Cron(Exactly("minute", 0), None, None, 1),
    Always(Both([n \in {"hour"} |-> {Between(0, 1, NoValue), Between(3, NoValue, NoValue)}],
                Exactly("minute", 1))),
    Always(Both(Exactly("year", 1), Exactly("day", 1))),
    Always(Both(Both(Exactly("year", 2), Exactly("day", 3)),
                Both(Exactly("hour", 2), Exactly("minute", 1))))}

Calendars == {
    CalendarInterval(1, 0, 5, Date(2), None),
    CalendarInterval(0, 1, 4, Date(0), None),
    CalendarInterval(0, 2, 0, Date(0), Date(9)),
    CalendarInterval(1, 1, 2, Date(1), None)}

SomeTriggers ==
    {Single(part) : part \in Crons \cup Calendars}
    \cup {Or(Always(Exactly("day", 2)), CalendarInterval(0, 3, 1, Date(0), Date(2)))}
    \cup {And(Always(Exactly("day_of_week", 1)), Always(Exactly("day", 2)))}

AllStarts == 0..70
=============================================================================
