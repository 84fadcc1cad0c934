------------------------------- MODULE Calendar -------------------------------
(***************************************************************************)
(* Wall clocks, instants and Python's datetime, as far as the triggers use *)
(* them.  Time is counted in minutes.  The calendar is a constant, so that *)
(* an instance may have few days of few hours; the clocks of the one time  *)
(* zone go forward by an hour at the instant Forward and back at Back.     *)
(*                                                                         *)
(* A wall clock reading is the number of minutes since the first of all    *)
(* dates, as the calendar has it.  Instants are the readings of a clock    *)
(* that is never changed.                                                  *)
(***************************************************************************)
EXTENDS Integers, Sequences, FiniteSets

CONSTANTS
    MonthDays,      \* number of days of each month of each year
    DaysPerWeek,    \* the first date is a Monday, weekday 0
    HoursPerDay,
    MinutesPerHour,
    Forward,        \* the instant at which the clocks go forward
    Back            \* ... and back again

\* Every year has the same months, though not of the same length.
ASSUME MonthsAssumption  == LET months == Len(MonthDays[1]) IN
                            /\ MonthDays # <<>>
                            /\ months \in Nat \ {0}
                            /\ MonthDays \in Seq([1..months -> Nat \ {0}])
ASSUME UnitsAssumption   == {DaysPerWeek, HoursPerDay, MinutesPerHour} \subseteq Nat \ {0}

Day  == HoursPerDay * MinutesPerHour
Hour == MinutesPerHour
-----------------------------------------------------------------------------
(* datetime.date and monthrange.                                           *)

DatesOf(y, m) == {[year |-> y, month |-> m, day |-> d] : d \in 1..MonthDays[y][m]}

Dates == UNION {UNION {DatesOf(y, m) : m \in DOMAIN MonthDays[y]} : y \in DOMAIN MonthDays}

Earlier(a, b) ==
    \/ a.year < b.year
    \/ a.year = b.year /\ (a.month < b.month \/ (a.month = b.month /\ a.day < b.day))

Number == [date \in Dates |-> Cardinality({a \in Dates : Earlier(a, date)})]

DateOf == [n \in 0..(Cardinality(Dates) - 1) |->
              CHOOSE date \in Dates : Number[date] = n]

\* The date of a wall clock reading, and the reading at midnight of a date.
DateAt(wall) == DateOf[wall \div Day]
Midnight(year, month, day) == Day * Number[[year |-> year, month |-> month, day |-> day]]

\* The first reading that is on no date: a datetime from it on overflows.
End == Day * Cardinality(Dates)

ASSUME SummerAssumption  == /\ {Forward, Back} \subseteq Nat
                            /\ Forward + 2 * Hour <= Back
                            /\ Back + Hour <= End

Weekday(wall) == (wall \div Day) % DaysPerWeek

\* isocalendar: a week belongs to the year that has its middle day.
Week(wall) ==
    LET middle == (wall \div Day) - Weekday(wall) + DaysPerWeek \div 2
        year   == IF middle \in DOMAIN DateOf THEN DateOf[middle].year
                                              ELSE Len(MonthDays) + 1
        first  == IF middle \in DOMAIN DateOf
                  THEN Number[[year |-> year, month |-> 1, day |-> 1]]
                  ELSE Cardinality(Dates)
    IN  (middle - first) \div DaysPerWeek + 1
-----------------------------------------------------------------------------
(* datetime with a tzinfo.                                                 *)

(***************************************************************************)
(* A datetime.  "local" ones have the trigger's ZoneInfo and a wall clock  *)
(* reading; "other" ones have a fixed offset, as datetime.fromisoformat    *)
(* and datetime.now().astimezone() make them, and their "at" is simply the *)
(* instant.  "fold" tells the second of two equal readings from the first. *)
(* "past" is 0, or 1 for one microsecond later, or 2 for later than that,  *)
(* by less than the unit of time.                                          *)
(***************************************************************************)
Local(wall, fold) == [zone |-> "local", at |-> wall, fold |-> fold, past |-> 0]
Other(instant) == [zone |-> "other", at |-> instant, fold |-> 0, past |-> 0]

(***************************************************************************)
(* ZoneInfo (PEP 495).  The readings from Forward on, for an hour, do not  *)
(* exist: fold 0 reads them by the clock before the change, fold 1 by the  *)
(* clock after it.  Those from Back on, for an hour, exist twice.          *)
(***************************************************************************)
InSummer(wall, fold) == IF fold = 0 THEN Forward + Hour <= wall /\ wall < Back + Hour
                                    ELSE Forward <= wall /\ wall < Back

Timestamp(wall, fold) == IF InSummer(wall, fold) THEN wall - Hour ELSE wall

FromTimestamp(instant) ==
    IF Forward <= instant /\ instant < Back
    THEN Local(instant + Hour, 0)
    ELSE Local(instant, IF Back <= instant /\ instant < Back + Hour THEN 1 ELSE 0)

Instant(dt) == IF dt.zone = "local" THEN Timestamp(dt.at, dt.fold) ELSE dt.at

\* astimezone(self.timezone)
AsLocal(dt) == IF dt.zone = "local" THEN dt
               ELSE [FromTimestamp(dt.at) EXCEPT !.past = dt.past]

(***************************************************************************)
(* "<": with the same tzinfo the readings are compared, whatever the fold; *)
(* otherwise the instants.                                                 *)
(***************************************************************************)
Before(a, b) ==
    LET same == a.zone = b.zone
        x == IF same THEN a.at ELSE Instant(a)
        y == IF same THEN b.at ELSE Instant(b)
    IN  x < y \/ (x = y /\ a.past < b.past)

Same(a, b) == ~Before(a, b) /\ ~Before(b, a)

\* min and max of two: Python keeps the first of equal ones.
Earliest(a, b) == IF Before(b, a) THEN b ELSE a
Latest(a, b) == IF Before(a, b) THEN b ELSE a

\* Adding a timedelta adds to the reading and forgets the fold.
Plus(dt, minutes) == [dt EXCEPT !.at = @ + minutes, !.fold = 0]

\* Mutant: the search may answer the fire time it is asked to go on from.
NotAfter(dt) == [dt EXCEPT !.fold = 0]

JustAfter(dt) == [dt EXCEPT !.past = 1, !.fold = 0]

\* datetime_ceil
Ceil(dt) == IF dt.past > 0 THEN [Plus(dt, 1) EXCEPT !.past = 0] ELSE dt
=============================================================================
