---------------------------- MODULE TriggerSearch ----------------------------
(***************************************************************************)
(* How CronTrigger, CalendarIntervalTrigger, AndTrigger and OrTrigger look *)
(* for the next fire time, and the chain of fire times a job gets by       *)
(* asking again each time it has fired.                                    *)
(*                                                                         *)
(* One step is one turn of a loop of get_next_fire_time.  "second" is left *)
(* out: it is one more field like "minute".                                *)
(***************************************************************************)
EXTENDS Calendar, Functions

CONSTANTS
    Triggers,   \* the triggers that are looked at
    Starts,     \* instants at which a job may be added
    MaxFires,   \* bound on the number of fire times of a chain
    Delay       \* bound on the delay, in minutes, with which a job fires

ASSUME BoundsAssumption == {MaxFires, Delay} \subseteq Nat /\ Starts \subseteq 0..(End - 1)

None == [zone |-> "none", at |-> 0, fold |-> 0, past |-> 0]
NoValue == -1

VARIABLES
    trig,       \* the trigger: its mode and its parts
    stored,     \* how the store keeps a fire time: "object" or "text"
    clock,      \* the time, as an instant; the clock is a bit past it
    fires,      \* number of fire times that were found
    prev,       \* previous_fire_time
    now,        \* now, as an AndTrigger may have moved it
    pc,         \* "ask", "cron", "months", "calendar", "found",
                \* "raised" or "end"
    answers,    \* what the parts answered in this round
    next,       \* next_date of the loop at work
    fieldnum,   \* CronTrigger: the field it is at, 0 for Python's -1
    since,      \* the date a CalendarIntervalTrigger adds to, or None
    start,      \* ghost: where the search of the current part began
    earlier     \* ghost: the fire times the parts answered before this round

search == <<next, fieldnum, since, start>>
vars == <<trig, stored, clock, fires, prev, now, pc, answers, search, earlier>>

Part == trig.parts[Len(answers) + 1]
-----------------------------------------------------------------------------
(* Fields and expressions: triggers/cron/fields.py, expressions.py.        *)

FieldNames == <<"year", "month", "day", "week", "day_of_week", "hour", "minute">>

MinValue(name) == IF name \in {"year", "month", "day", "week"} THEN 1 ELSE 0

MaxValue(name) ==
    CASE name = "year" -> Len(MonthDays)
      [] name = "month" -> Len(MonthDays[1])
      [] name = "day" -> 31
      [] name = "week" -> 53
      [] name = "day_of_week" -> DaysPerWeek - 1
      [] name = "hour" -> HoursPerDay - 1
      [] name = "minute" -> MinutesPerHour - 1

\* WeekField and DayOfWeekField are not REAL: they are no part of a datetime.
Real(name) == name \notin {"week", "day_of_week"}

MonthLength(wall) == MonthDays[DateAt(wall).year][DateAt(wall).month]

\* get_value and get_max
Value(name, wall) ==
    CASE name \in {"year", "month", "day"} -> DateAt(wall)[name]
      [] name = "week" -> Week(wall)
      [] name = "day_of_week" -> Weekday(wall)
      [] name = "hour" -> (wall % Day) \div Hour
      [] name = "minute" -> wall % Hour

MaxAt(name, wall) == IF name = "day" THEN MonthLength(wall) ELSE MaxValue(name)

(***************************************************************************)
(* Compiled expressions.  The month and weekday names are numbers here.    *)
(* In NthWeekday(n, weekday) the n-th is counted from 0, and 5 is "last".  *)
(***************************************************************************)
Expr(kind, first, last, step) ==
    [kind |-> kind, first |-> first, last |-> last, step |-> step]

All(step) == Expr("all", NoValue, NoValue, step)
Between(first, last, step) ==
    Expr("range", first, IF last = NoValue /\ step = NoValue THEN first ELSE last, step)
NthWeekday(n, weekday) == Expr("weekday", n, weekday, NoValue)
LastDay == Expr("last", NoValue, NoValue, NoValue)

\* compile_expression and validate_range: what is refused with ValueError.
Accepted(name, e) ==
    LET last == IF e.last \in {NoValue, 0} THEN MaxValue(name) ELSE e.last IN
    /\ e.step # 0
    /\ e.step <= MaxValue(name) - MinValue(name)
    /\ e.kind \in {"weekday", "last"} => name = "day"
    /\ e.kind = "range" => /\ MinValue(name) <= e.first
                           /\ e.last # NoValue => e.first <= e.last
                           /\ e.last <= MaxValue(name)
                           /\ e.step <= last - e.first

LeastOf(S) == CHOOSE x \in S : \A y \in S : x <= y
GreatestOf(S) == CHOOSE x \in S : \A y \in S : y <= x

\* Mutant: the step is counted from the current value, not from the first.
OnStepFromHere(v, low, step) == v

\* The first value from v on that is a multiple of step away from low.
OnStep(v, low, step) == IF step = NoValue THEN v ELSE v + ((step - (v - low)) % step)

\* The nth weekday of the month, or the last one, unless it is over.
NextNth(e, wall) ==
    LET day == DateAt(wall).day
        hit == 1 + ((e.last - Weekday(wall) + day - 1) % DaysPerWeek)
        nth == hit + DaysPerWeek * (IF e.first < 5 THEN e.first
                                    ELSE (MonthLength(wall) - hit) \div DaysPerWeek)
    IN  IF day <= nth /\ nth <= MonthLength(wall) THEN {nth} ELSE {}

(***************************************************************************)
(* get_next_value of an expression: the least value it admits that is not  *)
(* below the current one, or nothing.                                      *)
(***************************************************************************)
NextOf(e, name, wall) ==
    LET low  == IF e.kind = "range" THEN GreatestOf({MinValue(name), e.first})
                                    ELSE MinValue(name)
        high == IF e.kind = "range" /\ e.last # NoValue
                THEN LeastOf({MaxAt(name, wall), e.last}) ELSE MaxAt(name, wall)
        v    == OnStep(GreatestOf({Value(name, wall), low}), low, e.step)
    IN  CASE e.kind \in {"all", "range"} -> IF v <= high THEN {v} ELSE {}
          [] e.kind = "weekday" -> NextNth(e, wall)
          [] e.kind = "last" -> {MonthLength(wall)}

\* BaseField.get_next_value over the expressions of a field.
NextValue(exprs, name, wall) ==
    LET found == UNION {NextOf(e, name, wall) : e \in exprs}
    IN  IF found = {} THEN NoValue ELSE LeastOf(found)

(***************************************************************************)
(* CronTrigger.__init__: a field that is not given admits everything, or,  *)
(* when it comes after all the given ones, its default value.              *)
(***************************************************************************)
Fields(given) ==
    [n \in DOMAIN FieldNames |->
        LET name == FieldNames[n]
            after == \A m \in DOMAIN FieldNames : FieldNames[m] \in DOMAIN given => m < n
        IN  IF name \in DOMAIN given
            THEN {e \in given[name] : Accepted(name, e)}
            ELSE IF after /\ DOMAIN given # {} /\ name \notin {"year", "week", "day_of_week"}
                 THEN {Between(MinValue(name), NoValue, NoValue)}
                 ELSE {All(NoValue)}]

\* A CronTrigger and a CalendarIntervalTrigger; None and NoValue: not given.
Cron(given, from, end, jitter) ==
    [kind |-> "cron", fields |-> Fields(given), start |-> from, end |-> end,
     jitter |-> jitter, months |-> 0, days |-> 0, time |-> 0]

CalendarInterval(months, days, time, from, end) ==
    [kind |-> "calendar", fields |-> <<>>, start |-> from, end |-> end,
     jitter |-> 0, months |-> months, days |-> days, time |-> time]

\* What start_date and end_date may be: dates of the trigger's own time zone.
Moments == {None} \cup {Local(wall, 0) : wall \in 0..(End - 1)}

Expressions ==
    LET Given == Nat \cup {NoValue} IN
    [kind : {"all", "range", "weekday", "last"}, first : Given, last : Given, step : Given]

CronPart(part) ==
    /\ part \in [kind : {"cron"}, fields : [DOMAIN FieldNames -> SUBSET Expressions],
                 start : Moments, end : Moments, jitter : Nat,
                 months : {0}, days : {0}, time : {0}]
    /\ \A n \in DOMAIN FieldNames : \A e \in part.fields[n] :
           /\ Accepted(FieldNames[n], e)
           /\ e.kind = "weekday" => e.first \in 0..5 /\ e.last \in 0..(DaysPerWeek - 1)

\* A start date, given or not, is the midnight of a date.
CalendarPart(part) ==
    /\ part \in [kind : {"calendar"}, fields : {<<>>}, start : Moments \ {None},
                 end : Moments, jitter : {0}, months : Nat, days : Nat, time : 0..(Day - 1)]
    /\ part.months + part.days > 0
    /\ part.start.at % Day = 0
    /\ part.end # None => part.start.at <= part.end.at

\* Triggers that can be made.
ASSUME TriggersAssumption ==
    \A t \in Triggers :
        /\ t.mode \in {"single", "or", "and"}
        /\ Len(t.parts) \in Nat \ {0}
        /\ t.mode = "single" => Len(t.parts) = 1
        /\ t.parts = [i \in 1..Len(t.parts) |-> t.parts[i]]
        /\ \A i \in 1..Len(t.parts) : CronPart(t.parts[i]) \/ CalendarPart(t.parts[i])
-----------------------------------------------------------------------------
(* CronTrigger.get_next_fire_time.                                         *)

Start(part) ==
    LET after == Earliest(now, JustAfter(prev)) IN
    CASE prev # None /\ Same(after, prev) -> JustAfter(after)
      [] prev # None /\ ~Same(after, prev) -> after
      [] OTHER -> IF part.start = None THEN now ELSE Latest(now, part.start)

\* The wall clock reading whose fields up to n - 1 are those of wall, whose
\* field n is v, and whose other fields have their least value.
Reading(wall, n, v) ==
    LET f(i) == CASE i < n -> Value(FieldNames[i], wall)
                  [] i = n -> v
                  [] i > n -> MinValue(FieldNames[i])
    IN  Midnight(f(1), f(2), f(3)) + Hour * f(6) + f(7)

\* _increment_field_value goes up to a field that is real and can grow.
Carry(n, wall) ==
    LET able == {i \in 1..n : /\ Real(FieldNames[i])
                              /\ Value(FieldNames[i], wall) # MaxAt(FieldNames[i], wall)}
    IN  IF able = {} THEN 0 ELSE GreatestOf(able)

(***************************************************************************)
(* _increment_field_value.  The difference of two readings is added to the *)
(* timestamp: where the clocks change in between, the result is an hour    *)
(* off the reading that was meant.  Without a field that can grow the      *)
(* result is a date of the first year, and the search is over.             *)
(***************************************************************************)
Incremented(dt, n) ==
    LET i == Carry(n, dt.at)
        goal == Reading(dt.at, i, Value(FieldNames[i], dt.at) + 1)
    IN  IF i = 0 THEN Local(0, 0)
        ELSE FromTimestamp(Instant(dt) + goal - dt.at)

\* Mutant: the loop goes back to a field that can grow and does not let it grow.
TurnBack(part) ==
    LET name == FieldNames[fieldnum]
        v == NextValue(part.fields[fieldnum], name, next.at)
    IN  CASE v = NoValue -> <<next, Carry(fieldnum - 1, next.at)>>
          [] v = Value(name, next.at) -> <<next, fieldnum + 1>>
          [] OTHER -> <<Local(Reading(next.at, fieldnum, v), next.fold), fieldnum + 1>>

\* What the loop does at its field: the new next_date and field.
Turn(part) ==
    LET name == FieldNames[fieldnum]
        v == NextValue(part.fields[fieldnum], name, next.at)
    IN  CASE v = NoValue ->
                 <<Incremented(next, fieldnum - 1), Carry(fieldnum - 1, next.at)>>
          [] v = Value(name, next.at) -> <<next, fieldnum + 1>>
          [] OTHER -> IF Real(name)
                      THEN <<Local(Reading(next.at, fieldnum, v), next.fold), fieldnum + 1>>
                      ELSE <<Incremented(next, fieldnum), Carry(fieldnum, next.at)>>

Answer(dt) ==
    /\ answers' = Append(answers, dt)
    /\ pc' = "ask"

\* OverflowError: not a date any more.
Overflows(dt) == dt.at >= End

PastEnd(part, dt) == part.end # None /\ Before(part.end, dt)

CronTurn ==
    /\ pc = "cron"
    /\ fieldnum \in DOMAIN FieldNames
    /\ next' = Turn(Part)[1]
    /\ fieldnum' = Turn(Part)[2]
    /\ IF PastEnd(Part, next') THEN Answer(None) ELSE UNCHANGED <<answers, pc>>
    /\ UNCHANGED <<trig, stored, clock, fires, prev, now, since, start, earlier>>

\* _apply_jitter; with an end date, the answer is not later than that.
Jittered(part, dt, d) == IF part.jitter = 0 THEN dt ELSE Plus(dt, d)

CronAnswers ==
    /\ pc = "cron"
    /\ fieldnum \notin DOMAIN FieldNames
    /\ IF fieldnum = 0
       THEN Answer(None)
       ELSE \E d \in 0..Part.jitter :
               LET dt == Jittered(Part, next, d)
               IN  IF Overflows(dt)
                   THEN pc' = "raised" /\ UNCHANGED answers
                   ELSE Answer(IF Part.end = None THEN dt ELSE Earliest(dt, Part.end))
    /\ UNCHANGED <<trig, stored, clock, fires, prev, now, search, earlier>>
-----------------------------------------------------------------------------
(* CalendarIntervalTrigger.get_next_fire_time: since is the date of the    *)
(* previous fire time, or of the last one that the clocks jump over.       *)

\* One turn of the inner loop: a month without that day is passed over, and so
\* is, for ever, every month beyond the last year.
AddMonths ==
    /\ pc = "months"
    /\ LET at    == fieldnum + Part.months       \* months since the first
           year  == at \div MaxValue("month") + 1
           month == (at % MaxValue("month")) + 1
       IN  IF year > MaxValue("year")
           THEN UNCHANGED <<next, fieldnum, pc>>
           ELSE IF since.day \in 1..MonthDays[year][month]
                THEN /\ next' = Local(Midnight(year, month, since.day) + Part.days * Day, 0)
                     /\ fieldnum' = 0
                     /\ pc' = "calendar"
                ELSE fieldnum' = at /\ UNCHANGED <<next, pc>>
    /\ UNCHANGED <<trig, stored, clock, fires, prev, now, answers, since, start, earlier>>

MonthNumber(date) == (date.year - 1) * MaxValue("month") + date.month - 1

\* Mutant: the time of day is taken as it comes out.
NoJumpCheck(dt, time) == TRUE

\* next_time.timetz() == self._time
TimeExists(dt, time) == dt.at % Day = time

CalendarTurn ==
    /\ pc = "calendar"
    /\ LET dt == FromTimestamp(Timestamp(next.at + Part.time, 0)) IN
       CASE Overflows(next) ->
              pc' = "raised" /\ UNCHANGED <<answers, since, fieldnum>>
         [] ~Overflows(next) /\ PastEnd(Part, next) ->
              Answer(None) /\ UNCHANGED <<since, fieldnum>>
         [] OTHER ->
              IF TimeExists(dt, Part.time)
              THEN Answer(dt) /\ UNCHANGED <<since, fieldnum>>
              ELSE /\ since' = DateAt(dt.at)
                   /\ fieldnum' = MonthNumber(since')
                   /\ pc' = "months"
                   /\ UNCHANGED answers
    /\ UNCHANGED <<trig, stored, clock, fires, prev, now, next, start, earlier>>
-----------------------------------------------------------------------------
(* A call: the parts are asked in turn, then combined.                     *)

AskCron ==
    /\ Part.kind = "cron"
    /\ start' = AsLocal(Ceil(Start(Part)))
    /\ next' = start'
    /\ fieldnum' = 1
    /\ pc' = IF Overflows(start') THEN "raised" ELSE "cron"
    /\ UNCHANGED since

AskCalendar ==
    /\ Part.kind = "calendar"
    /\ IF prev = None
       THEN /\ next' = Part.start
            /\ pc' = "calendar"
            /\ UNCHANGED <<since, fieldnum>>
       ELSE /\ since' = DateAt(AsLocal(prev).at)
            /\ fieldnum' = MonthNumber(since')
            /\ pc' = "months"
            /\ UNCHANGED next
    /\ start' = None

Ask ==
    /\ pc = "ask"
    /\ Len(answers) < Len(trig.parts)
    /\ AskCron \/ AskCalendar
    /\ UNCHANGED <<trig, stored, clock, fires, prev, now, answers, earlier>>

Answered == {answers[i] : i \in DOMAIN answers}

First(S) == CHOOSE a \in S : \A b \in S : ~Before(b, a)
Final(S) == CHOOSE a \in S : \A b \in S : ~Before(a, b)

\* Mutant: an OrTrigger is over as soon as one of its parts is.
AnyOver == None \in Answered

\* The whole trigger has no further fire time.
NoFireTime == IF trig.mode = "or" THEN Answered = {None} ELSE None \in Answered

Agreed == trig.mode # "and" \/ Same(First(Answered), Final(Answered))

Over ==
    /\ pc = "ask"
    /\ Len(answers) = Len(trig.parts)
    /\ NoFireTime
    /\ pc' = "end"
    /\ UNCHANGED <<trig, stored, clock, fires, prev, now, answers, search, earlier>>

\* AndTrigger: the parts are asked again, from the latest answer on.
AskAgain ==
    /\ pc = "ask"
    /\ Len(answers) = Len(trig.parts)
    /\ ~NoFireTime
    /\ ~Agreed
    /\ now' = Final(Answered)
    /\ earlier' = answers
    /\ answers' = <<>>
    /\ UNCHANGED <<trig, stored, clock, fires, prev, pc, search>>

Found ==
    /\ pc = "ask"
    /\ Len(answers) = Len(trig.parts)
    /\ ~NoFireTime
    /\ Agreed
    /\ next' = IF trig.mode = "or" THEN First(Answered \ {None}) ELSE answers[1]
    /\ pc' = "found"
    /\ UNCHANGED <<trig, stored, clock, fires, prev, now, answers, fieldnum, since,
                   start, earlier>>

(***************************************************************************)
(* The job fires once the loop sees it due, at most Delay late, and the    *)
(* trigger is asked for the time after that.  The memory store has kept    *)
(* the datetime itself, the other stores its isoformat.                    *)
(***************************************************************************)
Kept(dt) == IF stored = "object" THEN dt ELSE Other(Instant(dt))

LoopNow(t) == [FromTimestamp(t) EXCEPT !.past = 2]

DueAt(t) == Before(Kept(next), LoopNow(t))

Fire ==
    /\ pc = "found"
    /\ fires < MaxFires
    /\ fires' = fires + 1
    /\ clock' \in {t \in clock..GreatestOf({clock, Instant(next) + Delay}) :
                       t < End /\ DueAt(t)}
    /\ prev' = Kept(next)
    /\ now' = LoopNow(clock')
    /\ answers' = <<>>
    /\ earlier' = <<>>
    /\ pc' = "ask"
    /\ UNCHANGED <<trig, stored, search>>

Init ==
    /\ trig \in Triggers
    /\ stored \in {"object", "text"}
    /\ clock \in Starts
    /\ fires = 0
    /\ prev = None
    /\ now = [Other(clock) EXCEPT !.past = 2]
    /\ pc = "ask"
    /\ answers = <<>>
    /\ next = None
    /\ fieldnum = 0
    /\ since = None
    /\ start = None
    /\ earlier = <<>>

Turns == \/ Ask \/ CronTurn \/ CronAnswers \/ AddMonths \/ CalendarTurn
         \/ Over \/ AskAgain \/ Found

Next == Turns \/ Fire

Spec == Init /\ [][Next]_vars

\* A call of get_next_fire_time goes on; that the job fires is not assumed.
FairSpec == Spec /\ WF_vars(Turns)
-----------------------------------------------------------------------------
(* Properties.                                                             *)

States == {"ask", "cron", "months", "calendar", "found", "raised", "end"}

\* What an expression of the field means, as the documentation has it.
Meant(e, name, wall) ==
    LET range == MinValue(name)..MaxAt(name, wall)
        \* the days of this month that are that weekday
        days  == {d \in range : Weekday(wall + Day * (d - DateAt(wall).day)) = e.last}
    IN  CASE e.kind = "all" ->
                 {v \in range : e.step = NoValue \/ (v - MinValue(name)) % e.step = 0}
          [] e.kind = "range" ->
                 {v \in range : /\ e.first <= v
                                /\ e.last # NoValue => v <= e.last
                                /\ e.step # NoValue => (v - e.first) % e.step = 0}
          [] e.kind = "weekday" ->
                 {d \in days : IF e.first = 5 THEN \A x \in days : x <= d
                               ELSE Cardinality({x \in days : x < d}) = e.first}
          [] e.kind = "last" -> {MonthLength(wall)}

Matches(part, wall) ==
    \A n \in DOMAIN FieldNames :
        \E e \in part.fields[n] :
            Value(FieldNames[n], wall) \in Meant(e, FieldNames[n], wall)

SingleCron == trig.mode = "single" /\ trig.parts[1].kind = "cron"

\* The instants that the clock and the fields match, from one to before another.
Passed(part, from, to) == {t \in from..(to - 1) : Matches(part, FromTimestamp(t).at)}

\* What a search from before the end of the hour that the clocks jump over may
\* pass over: a time of a day's first hour, after the jump.
OverForward(t) == Forward < t /\ FromTimestamp(t).at % Day < Hour

\* CronTrigger answers a time that matches all its fields, and the earliest one:
\* it passes over a matching time only where a step of its search goes across
\* the clocks' change forward, and then less than an hour of a day's first hour
\* (_increment_field_value adds a difference of readings to a timestamp).
CronEarliest ==
    LET part == trig.parts[1]
        passed == Passed(part, Instant(start), Instant(next))
    IN  pc = "found" /\ SingleCron /\ part.jitter = 0 =>
            /\ Matches(part, next.at)
            /\ \A t \in passed : /\ start.at < Forward + Hour
                                 /\ OverForward(t)
                                 /\ \A u \in passed : t - u < Hour

\* Readings that occur twice.
Repeated(wall) == Back <= wall /\ wall < Back + Hour

\* A previous fire time whose microsecond later is another hour: the second of
\* two equal readings, kept with its ZoneInfo, or a reading that is skipped.
Doubtful(dt) == dt.zone = "local" /\ (dt.fold = 1 \/ FromTimestamp(Instant(dt)) # dt)

\* A jitter makes the second of two equal readings the first (timedelta's sum
\* has no fold).
Slipped == (\E i \in DOMAIN trig.parts : trig.parts[i].jitter > 0) /\ Repeated(next.at)

\* A job's fire times go forward: no trigger answers a time that is not later
\* than the one that has just fired, unless that one is doubtful or a jitter
\* took the answer back by an hour.
FiresForward ==
    pc = "found" /\ prev # None /\ ~Doubtful(prev) /\ ~Slipped =>
        Instant(prev) < Instant(next)

\* The date that is one interval after another: months with that day, then days.
Interval(part, date) ==
    LET Months(k) == MonthNumber(date) + k * part.months
        MonthOf(k) == MonthDays[Months(k) \div MaxValue("month") + 1]
                               [(Months(k) % MaxValue("month")) + 1]
        k == CHOOSE k \in 1..(Len(MonthDays) * MaxValue("month")) :
                 /\ date.day <= MonthOf(k)
                 /\ \A i \in 1..(k - 1) : MonthOf(i) < date.day
    IN  Midnight(Months(k) \div MaxValue("month") + 1,
                 (Months(k) % MaxValue("month")) + 1, date.day) + part.days * Day

\* CalendarIntervalTrigger answers the first of two equal readings, at its time
\* of day, on the date one interval after the previous one's, or two intervals
\* where the clocks jump over that time.
CalendarKeepsTime ==
    LET part == trig.parts[1] IN
    pc = "found" /\ trig.mode = "single" /\ part.kind = "calendar" =>
        /\ next = FromTimestamp(Timestamp(next.at, 0))
        /\ next.at % Day = part.time
        /\ prev # None =>
              LET one == Interval(part, DateAt(AsLocal(prev).at))
                  gap == one + part.time
              IN  \/ next.at = gap
                  \/ /\ FromTimestamp(Timestamp(gap, 0)).at # gap
                     /\ next.at = Interval(part, DateAt(one)) + part.time

\* A trigger is over only when nothing is left: no time after the last fire time
\* and the clock, from the start date to the end date, matches any cron part of a
\* single trigger or of an OrTrigger.  Excepted are the times a search may pass
\* over, and the second occurrence of an hour whose last minute has fired.
EndsWhenOver ==
    LET begin == IF prev = None THEN clock ELSE Instant(prev)
        InDates(part, t) ==
            /\ prev = None /\ part.start # None => Instant(part.start) <= t
            /\ part.end # None => t <= Instant(part.end)
                                 /\ ~Before(part.end, FromTimestamp(t))
    IN  pc = "end" /\ trig.mode # "and" =>
            \A i \in DOMAIN trig.parts :
                LET part == trig.parts[i] IN
                part.kind = "cron" =>
                    \A t \in Passed(part, GreatestOf({clock, Instant(prev)}) + 1, End) :
                        InDates(part, t) =>
                            \/ begin < Forward + Hour /\ OverForward(t)
                            \/ prev = Local(Back + Hour - 1, 0) /\ FromTimestamp(t).fold = 1

\* Every call of get_next_fire_time comes to an end, but for two loops: that of
\* an AndTrigger whose parts answer what they have answered before, and that of
\* a CalendarIntervalTrigger among the months beyond the last year.
SearchEnds ==
    (pc = "ask") ~> \/ pc \in {"found", "raised", "end"}
                    \/ answers # <<>> /\ answers = earlier
                    \/ pc = "months" /\ fieldnum + Part.months >=
                           Len(MonthDays) * MaxValue("month")
=============================================================================
