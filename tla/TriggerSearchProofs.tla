-------------------------- MODULE TriggerSearchProofs --------------------------
(***************************************************************************)
(* Theorems about TriggerSearch and the Calendar it counts in, for every   *)
(* calendar, every pair of clock changes and every set of triggers.        *)
(***************************************************************************)
EXTENDS TriggerSearch, FiniteSetTheorems, WellFoundedInduction, TLAPS

-----------------------------------------------------------------------------
(* Division and least elements.                                            *)

\* Quotient and remainder.
LEMMA DivMod ==
    ASSUME NEW x \in Int, NEW d \in Nat \ {0}
    PROVE  /\ x \div d \in Int
           /\ x % d \in 0..(d - 1)
           /\ x = (d * (x \div d)) + (x % d)
    OBVIOUS

\* ... which are the only ones.
LEMMA DivUnique ==
    ASSUME NEW d \in Nat \ {0}, NEW q \in Int, NEW r \in 0..(d - 1)
    PROVE  /\ (d * q + r) \div d = q
           /\ (d * q + r) % d = r
    OBVIOUS

\* A product grows by its factor at least.
LEMMA MulMono ==
    ASSUME NEW d \in Nat \ {0}, NEW a \in Int, NEW b \in Int, a < b
    PROVE  /\ d * a \in Int /\ d * b \in Int
           /\ d * a + d <= d * b
    OBVIOUS

\* A set of natural numbers has a least element.
LEMMA LeastNat ==
    ASSUME NEW S \in SUBSET Nat, S # {}
    PROVE  \E x \in S : \A y \in S : x <= y
<1>1. PICK x \in S : \A y \in S : ~ (<<y, x>> \in OpToRel(<, Nat))
    BY WFMin, NatLessThanWellFounded
<1>2. \A y \in S : ~ (y < x)
    BY <1>1 DEF OpToRel
<1> QED BY <1>2

\* LeastOf and GreatestOf of sets of numbers: min and max.
LEMMA LeastOfIs ==
    ASSUME NEW S \in SUBSET Nat, S # {}
    PROVE  LeastOf(S) \in S /\ \A y \in S : LeastOf(S) <= y
    BY LeastNat DEF LeastOf

LEMMA PairBounds ==
    ASSUME NEW a \in Int, NEW b \in Int
    PROVE  /\ LeastOf({a, b}) = IF a <= b THEN a ELSE b
           /\ GreatestOf({a, b}) = IF a <= b THEN b ELSE a
<1>1. PICK x \in {a, b} : \A y \in {a, b} : x <= y
    OBVIOUS
<1>2. PICK z \in {a, b} : \A y \in {a, b} : y <= z
    OBVIOUS
<1> QED BY <1>1, <1>2 DEF LeastOf, GreatestOf

LEMMA GreatestOfIs ==
    ASSUME NEW S \in SUBSET Nat, S # {}, NEW b \in Nat, \A y \in S : y <= b
    PROVE  GreatestOf(S) \in S /\ \A y \in S : y <= GreatestOf(S)
<1> DEFINE T == {x \in Nat : \E y \in S : x = b - y}
<1>1. PICK t \in T : \A y \in T : t <= y
  <2>1. PICK y \in S : TRUE
      OBVIOUS
  <2>2. b - y \in T
      BY <2>1
  <2> QED BY <2>2, LeastNat
<1>2. PICK x \in S : t = b - x
    BY <1>1
<1>3. \A y \in S : y <= x
  <2> TAKE y \in S
  <2>1. b - y \in T
      OBVIOUS
  <2> QED BY <2>1, <1>1, <1>2
<1> QED BY <1>2, <1>3 DEF GreatestOf

-----------------------------------------------------------------------------
(* The dates of the calendar are numbered in their order.                  *)

Years == 1..Len(MonthDays)
Months == 1..Len(MonthDays[1])
DateIs(y, m, d) == [year |-> y, month |-> m, day |-> d]
Count == Cardinality(Dates)

LEMMA MonthLengths ==
    /\ Len(MonthDays) \in Nat \ {0}
    /\ Len(MonthDays[1]) \in Nat \ {0}
    /\ DOMAIN MonthDays = Years
    /\ \A y \in Years : DOMAIN MonthDays[y] = Months
    /\ \A y \in Years, m \in Months : MonthDays[y][m] \in Nat \ {0}
    BY MonthsAssumption DEF Years, Months

LEMMA UnitsAre ==
    /\ Hour \in Nat \ {0}
    /\ HoursPerDay \in Nat \ {0}
    /\ DaysPerWeek \in Nat \ {0}
    /\ Day \in Nat \ {0}
    /\ Day = HoursPerDay * Hour
    /\ Hour <= Day
    BY UnitsAssumption DEF Day, Hour

\* What the dates are.
LEMMA DatesAre ==
    /\ \A y, m, d : DateIs(y, m, d) \in Dates
                       <=> y \in Years /\ m \in Months /\ d \in 1..MonthDays[y][m]
    /\ \A date \in Dates :
           /\ date.year \in Years /\ date.month \in Months
           /\ date.day \in 1..MonthDays[date.year][date.month]
           /\ date = DateIs(date.year, date.month, date.day)
<1>1. ASSUME NEW date
      PROVE  date \in Dates <=>
                 \E y \in Years, m \in Months : \E d \in 1..MonthDays[y][m] : date = DateIs(y, m, d)
  <2>1. date \in Dates => \E y \in Years, m \in Months : date \in DatesOf(y, m)
      BY MonthLengths DEF Dates
  <2>2. (\E y \in Years, m \in Months : date \in DatesOf(y, m)) => date \in Dates
      BY MonthLengths DEF Dates
  <2> QED BY <2>1, <2>2 DEF DatesOf, DateIs
<1>2. ASSUME NEW y, NEW m, NEW d
      PROVE  DateIs(y, m, d) \in Dates
                 <=> y \in Years /\ m \in Months /\ d \in 1..MonthDays[y][m]
  <2>1. DateIs(y, m, d) \in Dates <=> \E yy \in Years, mm \in Months :
            \E dd \in 1..MonthDays[yy][mm] : DateIs(y, m, d) = DateIs(yy, mm, dd)
      BY <1>1
  <2> QED BY <2>1 DEF DateIs
<1>3. ASSUME NEW date \in Dates
      PROVE  /\ date.year \in Years /\ date.month \in Months
             /\ date.day \in 1..MonthDays[date.year][date.month]
             /\ date = DateIs(date.year, date.month, date.day)
  <2>1. PICK y \in Years, m \in Months : \E d \in 1..MonthDays[y][m] : date = DateIs(y, m, d)
      BY <1>1
  <2> QED BY <2>1 DEF DateIs
<1> QED BY <1>2, <1>3

LEMMA DatesFinite ==
    /\ IsFiniteSet(Dates)
    /\ Count \in Nat \ {0}
<1>1. ASSUME NEW y \in Years, NEW m \in Months
      PROVE  IsFiniteSet(DatesOf(y, m))
  <2> DEFINE f == [d \in 1..MonthDays[y][m] |-> DateIs(y, m, d)]
  <2>1. f \in Surjection(1..MonthDays[y][m], DatesOf(y, m))
      BY DEF Surjection, DatesOf, DateIs
  <2> QED BY <2>1, FS_Surjection, FS_Interval, MonthLengths
<1>2. ASSUME NEW y \in Years
      PROVE  IsFiniteSet(UNION {DatesOf(y, m) : m \in Months})
  <2> DEFINE OfMonth(m) == DatesOf(y, m)
             f == [m \in Months |-> OfMonth(m)]
  <2>1. f \in Surjection(Months, {OfMonth(m) : m \in Months})
      BY DEF Surjection
  <2>2. \A S \in {OfMonth(m) : m \in Months} : IsFiniteSet(S)
      BY <1>1
  <2>3. IsFiniteSet({OfMonth(m) : m \in Months})
    <3>1. IsFiniteSet(Months)
      <4>1. Len(MonthDays[1]) \in Int
          BY MonthLengths
      <4> QED BY <4>1, FS_Interval DEF Months
    <3> HIDE DEF f, OfMonth
    <3> QED BY <2>1, <3>1, FS_Surjection
  <2>4. IsFiniteSet(UNION {OfMonth(m) : m \in Months})
    <3> HIDE DEF OfMonth
    <3> QED BY <2>2, <2>3, FS_UNION
  <2> QED BY <2>4
<1>3. IsFiniteSet(Dates)
  <2> DEFINE OfYear(y) == UNION {DatesOf(y, m) : m \in Months}
             f == [y \in Years |-> OfYear(y)]
  <2>1. f \in Surjection(Years, {OfYear(y) : y \in Years})
      BY DEF Surjection
  <2>2. IsFiniteSet({OfYear(y) : y \in Years})
    <3> HIDE DEF f, OfYear
    <3> QED BY <2>1, FS_Surjection, FS_Interval, MonthLengths DEF Years
  <2>3. IsFiniteSet(UNION {OfYear(y) : y \in Years})
    <3>1. \A S \in {OfYear(y) : y \in Years} : IsFiniteSet(S)
        BY <1>2
    <3> QED BY <2>2, <3>1, FS_UNION
  <2>4. Dates = UNION {OfYear(y) : y \in Years}
      BY MonthLengths DEF Dates
  <2> QED BY <2>3, <2>4
<1>4. DateIs(1, 1, 1) \in Dates
    BY DatesAre, MonthLengths DEF Years, Months
<1> QED BY <1>3, <1>4, FS_CardinalityType, FS_EmptySet DEF Count

\* Earlier is a strict total order.
LEMMA EarlierOrder ==
    /\ \A a \in Dates : ~ Earlier(a, a)
    /\ \A a, b, c \in Dates : Earlier(a, b) /\ Earlier(b, c) => Earlier(a, c)
    /\ \A a, b \in Dates : a = b \/ Earlier(a, b) \/ Earlier(b, a)
<1>1. \A a \in Dates : a.year \in Int /\ a.month \in Int /\ a.day \in Int
    BY DatesAre, MonthLengths DEF Years, Months
<1>2. ASSUME NEW a \in Dates, NEW b \in Dates
      PROVE  a = b \/ Earlier(a, b) \/ Earlier(b, a)
  <2>1. CASE a.year = b.year /\ a.month = b.month /\ a.day = b.day
    <3>1. a = DateIs(a.year, a.month, a.day) /\ b = DateIs(b.year, b.month, b.day)
        BY DatesAre
    <3> QED BY <2>1, <3>1
  <2>2. CASE ~(a.year = b.year /\ a.month = b.month /\ a.day = b.day)
      BY <2>2, <1>1 DEF Earlier
  <2> QED BY <2>1, <2>2
<1> QED BY <1>1, <1>2 DEF Earlier

LEMMA NumberOrder ==
    /\ \A a \in Dates : Number[a] \in 0..(Count - 1)
    /\ \A a, b \in Dates : Number[a] < Number[b] <=> Earlier(a, b)
    /\ \A a, b \in Dates : Number[a] = Number[b] => a = b
<1> DEFINE Past(date) == {a \in Dates : Earlier(a, date)}
<1>1. ASSUME NEW date \in Dates
      PROVE  /\ Number[date] = Cardinality(Past(date))
             /\ IsFiniteSet(Past(date))
             /\ Number[date] \in 0..(Count - 1)
  <2>1. Number[date] = Cardinality(Past(date))
      BY DEF Number
  <2>2. Past(date) \in SUBSET Dates /\ date \notin Past(date)
      BY EarlierOrder
  <2> HIDE DEF Past
  <2>3. /\ IsFiniteSet(Past(date)) /\ Cardinality(Past(date)) <= Count
        /\ Count # Cardinality(Past(date))
      BY <2>2, DatesFinite, FS_Subset DEF Count
  <2> QED BY <2>1, <2>3, DatesFinite, FS_CardinalityType
<1>2. ASSUME NEW a \in Dates, NEW b \in Dates, Earlier(a, b)
      PROVE  Number[a] < Number[b]
  <2>1. Past(a) \in SUBSET Past(b) /\ a \in Past(b) /\ a \notin Past(a)
      BY <1>2, EarlierOrder
  <2> HIDE DEF Past
  <2>2. /\ Cardinality(Past(a)) <= Cardinality(Past(b))
        /\ Cardinality(Past(a)) # Cardinality(Past(b))
      BY <2>1, <1>1, FS_Subset
  <2>3. Number[a] \in Int /\ Number[b] \in Int
      BY <1>1, DatesFinite
  <2> QED BY <2>2, <2>3, <1>1
<1> HIDE DEF Past
<1>3. \A a \in Dates : Number[a] \in 0..(Count - 1)
    BY <1>1
<1>4. \A a \in Dates : Number[a] \in Int
    BY <1>3
<1>5. \A a, b \in Dates : Earlier(a, b) => Number[a] < Number[b]
    BY <1>2
<1> QED BY <1>3, <1>4, <1>5, EarlierOrder

LEMMA DateOfNumber ==
    ASSUME NEW n \in 0..(Count - 1)
    PROVE  DateOf[n] \in Dates /\ Number[DateOf[n]] = n
<1> DEFINE f == [date \in Dates |-> Number[date]]
<1>1. f \in Injection(Dates, 0..(Count - 1))
    BY NumberOrder DEF Injection, IsInjective
<1>2. IsFiniteSet(0..(Count - 1)) /\ Cardinality(0..(Count - 1)) = Count
    BY FS_Interval, DatesFinite
<1>3. f \in Surjection(Dates, 0..(Count - 1))
  <2> HIDE DEF f
  <2> QED BY <1>1, <1>2, FS_Injection DEF Count
<1>4. \E date \in Dates : Number[date] = n
    BY <1>3 DEF Surjection
<1> QED BY <1>4 DEF DateOf, Count

-----------------------------------------------------------------------------
(* Readings of the wall clock: a date, an hour and a minute.               *)

Wall == 0..(End - 1)

LEMMA EndIs == End \in Nat \ {0} /\ End = Day * Count
<1>1. Day \in Nat \ {0} /\ Count \in Nat \ {0}
    BY UnitsAre, DatesFinite
<1>2. Day * Count \in Nat \ {0}
  <2>1. Day * 0 + Day <= Day * Count
      BY <1>1, MulMono
  <2> QED BY <2>1, <1>1
<1> QED BY <1>2 DEF End, Count

\* The date of a reading.
LEMMA WallDate ==
    ASSUME NEW wall \in Wall
    PROVE  /\ wall \div Day \in 0..(Count - 1)
           /\ DateAt(wall) \in Dates
           /\ Number[DateAt(wall)] = wall \div Day
           /\ wall % Day \in 0..(Day - 1)
           /\ wall = Day * Number[DateAt(wall)] + (wall % Day)
<1> DEFINE q == wall \div Day
<1>1. /\ q \in Int
      /\ wall % Day \in 0..(Day - 1)
      /\ wall = (Day * q) + (wall % Day)
      /\ wall \in Int /\ 0 <= wall /\ wall < Day * Count
  <2>1. wall \in Int /\ 0 <= wall /\ wall < End
      BY EndIs DEF Wall
  <2>2. Day \in Nat \ {0}
      BY UnitsAre
  <2>3. q \in Int /\ wall % Day \in 0..(Day - 1) /\ wall = (Day * q) + (wall % Day)
      BY <2>1, <2>2, DivMod
  <2> QED BY <2>1, <2>3, EndIs
<1> HIDE DEF q
<1>2. ~ (q < 0)
  <2> SUFFICES ASSUME q < 0 PROVE FALSE
      OBVIOUS
  <2>1. Day * q + Day <= Day * 0
      BY <1>1, MulMono, UnitsAre
  <2> QED BY <2>1, <1>1, UnitsAre
<1>3. q < Count
  <2> SUFFICES ASSUME ~ (q < Count) PROVE FALSE
      OBVIOUS
  <2>1. q = Count \/ Count < q
      BY <1>1, DatesFinite
  <2>2. Day * Count <= Day * q
      BY <2>1, <1>1, MulMono, UnitsAre, DatesFinite
  <2> QED BY <2>2, <1>1, UnitsAre, DatesFinite
<1>4. q \in 0..(Count - 1)
    BY <1>1, <1>2, <1>3, DatesFinite
<1> QED BY <1>1, <1>4, DateOfNumber DEF DateAt, q

\* The midnight of a date, and the reading of a time of that date.
LEMMA DateWall ==
    ASSUME NEW date \in Dates, NEW x \in 0..(Day - 1)
    PROVE  /\ Midnight(date.year, date.month, date.day) = Day * Number[date]
           /\ Day * Number[date] \in Nat
           /\ Day * Number[date] + x \in Wall
           /\ (Day * Number[date] + x) \div Day = Number[date]
           /\ (Day * Number[date] + x) % Day = x
           /\ DateAt(Day * Number[date] + x) = date
<1>1. Midnight(date.year, date.month, date.day) = Day * Number[date]
    BY DatesAre DEF Midnight, DateIs
<1>2. Number[date] \in 0..(Count - 1)
    BY NumberOrder
<1> DEFINE n == Number[date]
<1>3. Day * n + Day <= Day * Count /\ Day * n \in Nat
    BY <1>2, MulMono, UnitsAre, DatesFinite
<1>4. /\ Day * n + x \in Wall
      /\ (Day * n + x) \div Day = n
      /\ (Day * n + x) % Day = x
  <2> HIDE DEF n
  <2>1. n \in Int
      BY <1>2 DEF n
  <2>2. (Day * n + x) \div Day = n /\ (Day * n + x) % Day = x
      BY <2>1, DivUnique, UnitsAre
  <2> QED BY <2>2, <1>3, EndIs, UnitsAre DEF Wall
<1>5. Number[DateAt(Day * n + x)] = n /\ DateAt(Day * n + x) \in Dates
    BY <1>4, WallDate
<1>6. DateAt(Day * n + x) = date
    BY <1>5, NumberOrder
<1> QED BY <1>1, <1>2, <1>3, <1>4, <1>6

LEMMA DateIsWall ==
    ASSUME NEW y, NEW m, NEW d, DateIs(y, m, d) \in Dates
    PROVE  Midnight(y, m, d) = Day * Number[DateIs(y, m, d)]
    BY DEF Midnight, DateIs

\* The hour and the minute of a time of day.
LEMMA TimeOfDay ==
    ASSUME NEW x \in 0..(Day - 1)
    PROVE  /\ x \div Hour \in 0..(HoursPerDay - 1)
           /\ x % Hour \in 0..(Hour - 1)
           /\ x = (Hour * (x \div Hour)) + (x % Hour)
<1> DEFINE q == x \div Hour
<1>1. /\ q \in Int
      /\ x % Hour \in 0..(Hour - 1)
      /\ x = (Hour * q) + (x % Hour)
    BY DivMod, UnitsAre
<1> HIDE DEF q
<1>2. ~ (q < 0)
  <2> SUFFICES ASSUME q < 0 PROVE FALSE
      OBVIOUS
  <2>1. Hour * q + Hour <= Hour * 0
      BY <1>1, MulMono, UnitsAre
  <2> QED BY <2>1, <1>1, UnitsAre
<1>3. q < HoursPerDay
  <2> SUFFICES ASSUME ~ (q < HoursPerDay) PROVE FALSE
      OBVIOUS
  <2>1. q = HoursPerDay \/ HoursPerDay < q
      BY <1>1, UnitsAre
  <2>2. Hour * HoursPerDay <= Hour * q
      BY <2>1, <1>1, MulMono, UnitsAre
  <2>3. Hour * HoursPerDay = Day
      BY UnitsAre
  <2> QED BY <2>2, <2>3, <1>1, UnitsAre
<1> QED BY <1>1, <1>2, <1>3, UnitsAre DEF q

LEMMA DayTime ==
    ASSUME NEW h \in 0..(HoursPerDay - 1), NEW m \in 0..(Hour - 1)
    PROVE  /\ Hour * h + m \in 0..(Day - 1)
           /\ (Hour * h + m) \div Hour = h
           /\ (Hour * h + m) % Hour = m
<1>1. h \in Int /\ h < HoursPerDay
    BY UnitsAre
<1>2. Hour * h + Hour <= Hour * HoursPerDay /\ Hour * 0 <= Hour * h
    BY <1>1, MulMono, UnitsAre
<1>3. Hour * HoursPerDay = Day /\ Hour * h \in Int
    BY UnitsAre, <1>1
<1>4. (Hour * h + m) \div Hour = h /\ (Hour * h + m) % Hour = m
    BY <1>1, DivUnique, UnitsAre
<1> QED BY <1>2, <1>3, <1>4, UnitsAre

\* A day has whole hours.
LEMMA MinuteOfHour ==
    ASSUME NEW wall \in Wall
    PROVE  wall % Hour = (wall % Day) % Hour
<1>1. PICK n \in Int, x \in 0..(Day - 1) : x = wall % Day /\ wall = Day * n + x
  <2>1. Number[DateAt(wall)] \in Int
      BY WallDate, DatesFinite
  <2> QED BY <2>1, WallDate
<1>2. PICK h \in Int, m \in 0..(Hour - 1) : m = x % Hour /\ x = Hour * h + m
  <2>1. x \div Hour \in Int
      BY TimeOfDay, UnitsAre
  <2> QED BY <2>1, TimeOfDay
<1>3. HoursPerDay * n \in Int /\ Hour \in Int /\ Day * n = Hour * (HoursPerDay * n)
    BY UnitsAre
<1>4. wall = Hour * (HoursPerDay * n + h) + m
    BY <1>1, <1>2, <1>3
<1>5. HoursPerDay * n + h \in Int
    BY <1>3
<1>6. wall % Hour = m
    BY <1>4, <1>5, DivUnique, UnitsAre
<1> QED BY <1>1, <1>2, <1>6

-----------------------------------------------------------------------------
(* The fields of a reading, and the reading that has a field set.          *)

RealFields == {1, 2, 3, 6, 7}

LEMMA Names ==
    /\ DOMAIN FieldNames = 1..7
    /\ FieldNames[1] = "year" /\ FieldNames[2] = "month" /\ FieldNames[3] = "day"
    /\ FieldNames[4] = "week" /\ FieldNames[5] = "day_of_week"
    /\ FieldNames[6] = "hour" /\ FieldNames[7] = "minute"
    /\ \A n \in 1..7 : Real(FieldNames[n]) <=> n \in RealFields
<1>1. /\ DOMAIN FieldNames = 1..7
      /\ FieldNames[1] = "year" /\ FieldNames[2] = "month" /\ FieldNames[3] = "day"
      /\ FieldNames[4] = "week" /\ FieldNames[5] = "day_of_week"
      /\ FieldNames[6] = "hour" /\ FieldNames[7] = "minute"
    BY DEF FieldNames
<1>2. /\ Real("year") /\ Real("month") /\ Real("day") /\ Real("hour") /\ Real("minute")
      /\ ~ Real("week") /\ ~ Real("day_of_week")
    BY DEF Real
<1>3. \A n \in 1..7 : Real(FieldNames[n]) <=> n \in RealFields
  <2> TAKE n \in 1..7
  <2>1. n = 1 \/ n = 2 \/ n = 3 \/ n = 4 \/ n = 5 \/ n = 6 \/ n = 7
      OBVIOUS
  <2> QED BY <2>1, <1>1, <1>2 DEF RealFields
<1> QED BY <1>1, <1>3

LEMMA Values ==
    ASSUME NEW wall
    PROVE  /\ Value("year", wall) = DateAt(wall).year
           /\ Value("month", wall) = DateAt(wall).month
           /\ Value("day", wall) = DateAt(wall).day
           /\ Value("week", wall) = Week(wall)
           /\ Value("day_of_week", wall) = Weekday(wall)
           /\ Value("hour", wall) = (wall % Day) \div Hour
           /\ Value("minute", wall) = wall % Hour
    BY DEF Value

LEMMA Maxima ==
    ASSUME NEW wall
    PROVE  /\ MaxAt("year", wall) = Len(MonthDays)
           /\ MaxAt("month", wall) = Len(MonthDays[1])
           /\ MaxAt("day", wall) = MonthDays[DateAt(wall).year][DateAt(wall).month]
           /\ MaxAt("week", wall) = 53
           /\ MaxAt("day_of_week", wall) = DaysPerWeek - 1
           /\ MaxAt("hour", wall) = HoursPerDay - 1
           /\ MaxAt("minute", wall) = Hour - 1
    BY DEF MaxAt, MaxValue, MonthLength, Hour

LEMMA Minima ==
    /\ MinValue("year") = 1 /\ MinValue("month") = 1 /\ MinValue("day") = 1
    /\ MinValue("week") = 1 /\ MinValue("day_of_week") = 0
    /\ MinValue("hour") = 0 /\ MinValue("minute") = 0
    BY DEF MinValue

\* The values of the real fields are what get_min and get_max say.
LEMMA ValueRange ==
    ASSUME NEW wall \in Wall
    PROVE  /\ Value("year", wall) \in Years
           /\ Value("month", wall) \in Months
           /\ Value("day", wall) \in 1..MaxAt("day", wall)
           /\ MaxAt("day", wall) \in Nat \ {0}
           /\ Value("day_of_week", wall) \in 0..(DaysPerWeek - 1)
           /\ Value("hour", wall) \in 0..(HoursPerDay - 1)
           /\ Value("minute", wall) \in 0..(Hour - 1)
           /\ wall % Day = Hour * Value("hour", wall) + Value("minute", wall)
           /\ DateAt(wall) = DateIs(Value("year", wall), Value("month", wall), Value("day", wall))
<1>1. DateAt(wall) \in Dates /\ wall % Day \in 0..(Day - 1) /\ wall \div Day \in Int
    BY WallDate, DatesFinite
<1>2. Weekday(wall) \in 0..(DaysPerWeek - 1)
  <2>1. \A q \in Int : q % DaysPerWeek \in 0..(DaysPerWeek - 1)
      BY DivMod, UnitsAre
  <2> QED BY <1>1, <2>1 DEF Weekday
<1>3. /\ (wall % Day) \div Hour \in 0..(HoursPerDay - 1)
      /\ wall % Hour \in 0..(Hour - 1)
      /\ wall % Day = (Hour * ((wall % Day) \div Hour)) + (wall % Hour)
    BY <1>1, TimeOfDay, MinuteOfHour
<1>4. /\ DateAt(wall).year \in Years /\ DateAt(wall).month \in Months
      /\ DateAt(wall).day \in 1..MonthDays[DateAt(wall).year][DateAt(wall).month]
      /\ DateAt(wall) = DateIs(DateAt(wall).year, DateAt(wall).month, DateAt(wall).day)
    BY <1>1, DatesAre
<1>5. MonthDays[DateAt(wall).year][DateAt(wall).month] \in Nat \ {0}
    BY <1>4, MonthLengths
<1> QED BY <1>2, <1>3, <1>4, <1>5, Values, Maxima

\* Readings are ordered by their date and then by their time of day.
LEMMA WallOrder ==
    ASSUME NEW a \in Wall, NEW b \in Wall
    PROVE  a < b <=> \/ Earlier(DateAt(a), DateAt(b))
                     \/ DateAt(a) = DateAt(b) /\ a % Day < b % Day
<1> DEFINE m == Number[DateAt(a)]
           n == Number[DateAt(b)]
<1>1. /\ DateAt(a) \in Dates /\ DateAt(b) \in Dates
      /\ m \in Int /\ n \in Int
      /\ a % Day \in 0..(Day - 1) /\ b % Day \in 0..(Day - 1)
      /\ a = Day * m + (a % Day) /\ b = Day * n + (b % Day)
    BY WallDate, DatesFinite
<1>2. CASE m < n
  <2>1. Day * m + Day <= Day * n
      BY <1>1, <1>2, MulMono, UnitsAre
  <2> QED BY <2>1, <1>1, <1>2, NumberOrder, UnitsAre
<1>3. CASE n < m
  <2>1. Day * n + Day <= Day * m
      BY <1>1, <1>3, MulMono, UnitsAre
  <2>2. ~ (a < b)
      BY <2>1, <1>1, UnitsAre
  <2> QED BY <2>2, <1>1, <1>3, NumberOrder, EarlierOrder
<1>4. CASE n = m
  <2>1. DateAt(a) = DateAt(b)
      BY <1>1, <1>4, NumberOrder
  <2>2. Day * m \in Int
      BY <1>1, UnitsAre
  <2> QED BY <2>1, <2>2, <1>1, <1>4, EarlierOrder, UnitsAre
<1> QED BY <1>1, <1>2, <1>3, <1>4

\* Where a field that is part of a datetime can be set, and what comes out.
Settable(wall, n, v) ==
    n \in RealFields /\ v \in MinValue(FieldNames[n])..MaxAt(FieldNames[n], wall)

LEMMA ReadingIs ==
    ASSUME NEW wall \in Wall, NEW n, NEW v, Settable(wall, n, v)
    PROVE  LET r == Reading(wall, n, v)
               x == IF n = 7 THEN Hour * Value("hour", wall) + v
                    ELSE IF n = 6 THEN Hour * v ELSE 0
           IN  /\ r \in Wall
               /\ x \in 0..(Day - 1)
               /\ r % Day = x
               /\ n = 1 => DateAt(r) = DateIs(v, 1, 1)
               /\ n = 2 => DateAt(r) = DateIs(DateAt(wall).year, v, 1)
               /\ n = 3 => DateAt(r) = DateIs(DateAt(wall).year, DateAt(wall).month, v)
               /\ n \in {6, 7} => DateAt(r) = DateAt(wall)
<1> DEFINE y == DateAt(wall).year
           m == DateAt(wall).month
           d == DateAt(wall).day
           h == Value("hour", wall)
           r == Reading(wall, n, v)
<1>1. /\ y \in Years /\ m \in Months /\ d \in 1..MaxAt("day", wall)
      /\ h \in 0..(HoursPerDay - 1)
      /\ DateAt(wall) = DateIs(y, m, d) /\ DateAt(wall) \in Dates
      /\ MaxAt("day", wall) = MonthDays[y][m]
    BY ValueRange, Values, WallDate, Maxima
<1>2. 0 \in 0..(Day - 1) /\ 0 \in 0..(HoursPerDay - 1) /\ 0 \in 0..(Hour - 1)
    BY UnitsAre
<1>3. \A q \in Int : Hour * q \in Int /\ Hour * q + 0 = Hour * q /\ Hour * 0 = 0
    BY UnitsAre
<1>4. ASSUME NEW date \in Dates, NEW x \in 0..(Day - 1), r = Day * Number[date] + x
      PROVE  r \in Wall /\ r % Day = x /\ DateAt(r) = date
    BY <1>4, DateWall
<1>5. CASE n = 1
  <2>1. v \in Years
      BY <1>5, Names, Minima, Maxima DEF Settable, Years
  <2>2. DateIs(v, 1, 1) \in Dates
    <3>1. 1 \in Months
        BY MonthLengths DEF Months
    <3>2. MonthDays[v][1] \in Nat \ {0}
        BY <2>1, <3>1, MonthLengths
    <3> QED BY <2>1, <3>1, <3>2, DatesAre
  <2>3. r = Midnight(v, 1, 1) + Hour * 0 + 0
      BY <1>5, Names, Minima DEF Reading
  <2>4. r = Day * Number[DateIs(v, 1, 1)] + 0
      BY <2>2, <2>3, DateWall, DateIsWall, UnitsAre
  <2> QED BY <1>2, <1>4, <1>5, <2>2, <2>4
<1>6. CASE n = 2
  <2>1. v \in Months
      BY <1>6, Names, Minima, Maxima DEF Settable, Months
  <2>2. DateIs(y, v, 1) \in Dates
    <3>1. y \in Years /\ MonthDays[y][v] \in Nat \ {0}
        BY <1>1, <2>1, MonthLengths
    <3>2. 1 \in 1..MonthDays[y][v]
        BY <3>1
    <3> QED BY <2>1, <3>1, <3>2, DatesAre
  <2>3. r = Midnight(y, v, 1) + Hour * 0 + 0
      BY <1>6, Names, Minima, Values DEF Reading
  <2>4. r = Day * Number[DateIs(y, v, 1)] + 0
      BY <2>2, <2>3, DateWall, DateIsWall, UnitsAre
  <2> QED BY <1>2, <1>4, <1>6, <2>2, <2>4
<1>7. CASE n = 3
  <2>1. v \in 1..MonthDays[y][m]
      BY <1>1, <1>7, Names, Minima DEF Settable
  <2>2. DateIs(y, m, v) \in Dates
      BY <1>1, <2>1, DatesAre
  <2>3. r = Midnight(y, m, v) + Hour * 0 + 0
      BY <1>7, Names, Minima, Values DEF Reading
  <2>4. r = Day * Number[DateIs(y, m, v)] + 0
      BY <2>2, <2>3, DateWall, DateIsWall, UnitsAre
  <2> QED BY <1>2, <1>4, <1>7, <2>2, <2>4
<1>8. Midnight(y, m, d) = Day * Number[DateAt(wall)] /\ Day * Number[DateAt(wall)] \in Nat
    BY <1>1, <1>2, DateWall
<1>9. CASE n = 6
  <2>1. v \in 0..(HoursPerDay - 1)
      BY <1>9, Names, Minima, Maxima DEF Settable
  <2>2. Hour * v + 0 \in 0..(Day - 1) /\ Hour * v \in Int /\ v \in Int
      BY <1>2, <2>1, DayTime, UnitsAre
  <2>3. r = Midnight(y, m, d) + Hour * v + 0
      BY <1>9, Names, Minima, Values DEF Reading
  <2>4. r = Day * Number[DateAt(wall)] + Hour * v /\ Hour * v \in 0..(Day - 1)
      BY <1>8, <2>2, <2>3
  <2> QED BY <1>1, <1>4, <1>9, <2>4
<1>10. CASE n = 7
  <2>1. v \in 0..(Hour - 1)
      BY <1>10, Names, Minima, Maxima DEF Settable
  <2>2. Hour * h + v \in 0..(Day - 1) /\ Hour * h \in Int /\ v \in Int
    <3>1. h \in 0..(HoursPerDay - 1) /\ h \in Int /\ v \in Int /\ Hour \in Int
        BY <1>1, <2>1, UnitsAre
    <3>2. Hour * h + v \in 0..(Day - 1)
        BY <2>1, <3>1, DayTime
    <3> QED BY <3>1, <3>2
  <2>3. r = Midnight(y, m, d) + Hour * h + v
      BY <1>10, Names, Values DEF Reading
  <2>4. r = Day * Number[DateAt(wall)] + (Hour * h + v)
      BY <1>8, <2>2, <2>3
  <2> QED BY <1>1, <1>4, <1>10, <2>2, <2>4
<1> QED BY <1>5, <1>6, <1>7, <1>9, <1>10 DEF Settable, RealFields

\* To set a field to a greater value is to go forward.
LEMMA ReadingAbove ==
    ASSUME NEW wall \in Wall, NEW n, NEW v, Settable(wall, n, v),
           Value(FieldNames[n], wall) < v
    PROVE  wall < Reading(wall, n, v)
<1> DEFINE r == Reading(wall, n, v)
<1>1. r \in Wall
    BY ReadingIs
<1>2. /\ wall % Day = Hour * Value("hour", wall) + Value("minute", wall)
      /\ Value("hour", wall) \in 0..(HoursPerDay - 1)
      /\ Value("minute", wall) \in 0..(Hour - 1)
    BY ValueRange
<1>3. CASE n \in {1, 2, 3}
  <2>1. Earlier(DateAt(wall), DateAt(r))
      BY <1>3, ReadingIs, Names, Values, ValueRange DEF Earlier, DateIs
  <2> QED BY <1>1, <2>1, WallOrder
<1>4. CASE n = 6
  <2>1. DateAt(r) = DateAt(wall) /\ r % Day = Hour * v
      BY <1>4, ReadingIs
  <2>2. v \in 0..(HoursPerDay - 1) /\ Value("hour", wall) < v
      BY <1>4, Names, Minima, Maxima DEF Settable
  <2>3. Hour * Value("hour", wall) + Hour <= Hour * v
      BY <1>2, <2>2, MulMono, UnitsAre
  <2>4. wall % Day < r % Day
    <3>1. Hour * Value("hour", wall) \in Int /\ Hour * v \in Int /\ Hour \in Int
        BY <1>2, <2>2, UnitsAre
    <3> QED BY <1>2, <2>1, <2>3, <3>1
  <2> QED BY <1>1, <2>1, <2>4, WallOrder
<1>5. CASE n = 7
  <2>1. DateAt(r) = DateAt(wall) /\ r % Day = Hour * Value("hour", wall) + v
      BY <1>5, ReadingIs
  <2>2. v \in 0..(Hour - 1) /\ Value("minute", wall) < v
      BY <1>5, Names, Minima, Maxima DEF Settable
  <2>3. wall % Day < r % Day
    <3>1. Hour * Value("hour", wall) \in Int /\ v \in Int
        BY <1>2, <2>2, UnitsAre
    <3> QED BY <1>2, <2>1, <2>2, <3>1
  <2> QED BY <1>1, <2>1, <2>3, WallOrder
<1> QED BY <1>3, <1>4, <1>5 DEF Settable, RealFields

-----------------------------------------------------------------------------
(* An expression's next value is the least one it means, from the current  *)
(* one on.                                                                 *)

LEMMA OnStepIs ==
    ASSUME NEW low \in Int, NEW x \in Int, low <= x, NEW s \in Nat \ {0}
    PROVE  LET v == x + ((s - (x - low)) % s)
           IN  /\ v \in Int /\ x <= v
               /\ (v - low) % s = 0
               /\ \A u \in Int : x <= u /\ (u - low) % s = 0 => v <= u
<1> DEFINE v == x + ((s - (x - low)) % s)
<1>1. PICK q \in Int, r \in 0..(s - 1) : x - low = s * q + r
  <2>1. (x - low) \div s \in Int /\ (x - low) % s \in 0..(s - 1)
        /\ x - low = (s * ((x - low) \div s)) + ((x - low) % s)
      BY DivMod
  <2> QED BY <2>1
<1>2. s * q \in Int /\ r \in Int /\ 0 <= r /\ r < s
    OBVIOUS
<1>3. PICK p \in {q, q + 1} : v - low = s * p /\ x <= v /\ v - x < s /\ v \in Int
  <2>1. CASE r = 0
    <3>1. s - (x - low) = s * (1 - q) + 0
        BY <1>1, <2>1
    <3>2. (s * (1 - q) + 0) % s = 0
        BY DivUnique
    <3>3. v = x
        BY <3>1, <3>2
    <3> HIDE DEF v
    <3>4. v - low = s * q /\ x <= v /\ v - x < s /\ v \in Int
        BY <3>3, <1>1, <1>2, <2>1
    <3> QED BY <3>4
  <2>2. CASE r # 0
    <3>1. s - (x - low) = s * (-q) + (s - r)
        BY <1>1, <1>2
    <3>2. (s * (-q) + (s - r)) % s = s - r
      <4>1. s - r \in 0..(s - 1) /\ -q \in Int
          BY <1>2, <2>2
      <4> QED BY <4>1, DivUnique
    <3>3. v = x + (s - r)
        BY <3>1, <3>2
    <3>4. v - low = s * (q + 1)
        BY <3>3, <1>1, <1>2
    <3> QED BY <3>3, <3>4, <1>2, <2>2
  <2> QED BY <2>1, <2>2
<1> HIDE DEF v
<1> p \in Int
    OBVIOUS
<1>4. (v - low) % s = 0
  <2>1. (s * p + 0) % s = 0
      BY DivUnique
  <2>2. s * p + 0 = v - low
      BY <1>3
  <2> QED BY <2>1, <2>2
<1>5. ASSUME NEW u \in Int, x <= u, (u - low) % s = 0
      PROVE  v <= u
  <2>1. PICK k \in Int : u - low = s * k
    <3>1. (u - low) \div s \in Int /\ u - low = (s * ((u - low) \div s)) + ((u - low) % s)
        BY DivMod
    <3> DEFINE k == (u - low) \div s
    <3>2. k \in Int /\ u - low = s * k + 0
        BY <3>1, <1>5
    <3> HIDE DEF k
    <3>3. u - low = s * k
        BY <3>2
    <3> QED BY <3>2, <3>3
  <2>2. SUFFICES ASSUME u < v PROVE FALSE
      BY <1>3
  <2>3. s * k < s * p /\ s * p < s * k + s
      BY <2>1, <2>2, <1>3, <1>5
  <2>4. CASE k < p
    <3>1. s * k + s <= s * p
        BY <2>4, MulMono
    <3> QED BY <3>1, <2>3, <1>3
  <2>5. CASE p <= k
    <3>1. p = k \/ s * p + s <= s * k
        BY <2>5, MulMono
    <3>2. s * p \in Int /\ s * k \in Int
        OBVIOUS
    <3> QED BY <3>1, <3>2, <2>3
  <2> QED BY <2>4, <2>5
<1> QED BY <1>3, <1>4, <1>5 DEF v

\* The expressions that a field may have.
Sound(name, e) ==
    /\ e \in Expressions
    /\ Accepted(name, e)
    /\ e.kind = "weekday" => e.first \in 0..5 /\ e.last \in 0..(DaysPerWeek - 1)

\* v is the least value in S from c on.
LeastFrom(S, c, v) == v \in S /\ c <= v /\ \A u \in S : c <= u => v <= u

LEMMA FieldTypes ==
    ASSUME NEW wall \in Wall, NEW n \in 1..7
    PROVE  /\ Value(FieldNames[n], wall) \in Int
           /\ MaxAt(FieldNames[n], wall) \in Int
           /\ MinValue(FieldNames[n]) \in {0, 1}
           /\ MinValue(FieldNames[n]) <= Value(FieldNames[n], wall)
           /\ n # 4 => Value(FieldNames[n], wall) <= MaxAt(FieldNames[n], wall)
<1>1. Week(wall) \in Int /\ 1 <= Week(wall)
  <2> DEFINE middle == (wall \div Day) - Weekday(wall) + DaysPerWeek \div 2
             year   == IF middle \in DOMAIN DateOf THEN DateOf[middle].year
                                              ELSE Len(MonthDays) + 1
             first  == IF middle \in DOMAIN DateOf
                  THEN Number[[year |-> year, month |-> 1, day |-> 1]]
                  ELSE Cardinality(Dates)
  <2>1. middle \in Nat
    <3>1. wall \div Day \in Nat
      <4>1. wall \div Day \in 0..(Count - 1)
          BY WallDate
      <4> QED BY <4>1
    <3>2. DaysPerWeek \in Nat \ {0}
        BY UnitsAre
    <3> DEFINE d == wall \div Day
               m == d \div DaysPerWeek
    <3>3. /\ m \in Int /\ Weekday(wall) \in 0..(DaysPerWeek - 1)
          /\ d = DaysPerWeek * m + Weekday(wall)
      <4>1. Weekday(wall) = d % DaysPerWeek /\ d \in Int
          BY <3>1 DEF Weekday
      <4> HIDE DEF d
      <4> QED BY <3>2, <4>1, DivMod
    <3>4. DaysPerWeek \div 2 \in Int /\ DaysPerWeek % 2 \in 0..1
          /\ DaysPerWeek = (2 * (DaysPerWeek \div 2)) + (DaysPerWeek % 2)
        BY <3>2, DivMod
    <3>5. DaysPerWeek \div 2 \in Nat
        BY <3>2, <3>4
    <3> HIDE DEF m, d
    <3>6. ~ (m < 0)
      <4> SUFFICES ASSUME m < 0 PROVE FALSE
          OBVIOUS
      <4>1. DaysPerWeek * m + DaysPerWeek <= DaysPerWeek * 0 /\ DaysPerWeek * m \in Int
          BY <3>2, <3>3, MulMono
      <4>2. Weekday(wall) < DaysPerWeek /\ Weekday(wall) \in Int /\ DaysPerWeek \in Int
          BY <3>2, <3>3
      <4> QED BY <4>1, <4>2, <3>1, <3>3 DEF d
    <3>7. DaysPerWeek * m \in Nat
        BY <3>2, <3>3, <3>6
    <3>8. middle = DaysPerWeek * m + DaysPerWeek \div 2
      <4> DEFINE h == DaysPerWeek \div 2
                 p == DaysPerWeek * m
      <4>1. h \in Int /\ p \in Int /\ Weekday(wall) \in Int /\ d = p + Weekday(wall)
          BY <3>2, <3>3, <3>5, <3>7
      <4>2. middle = d - Weekday(wall) + h
          BY DEF d
      <4> HIDE DEF h, p, middle
      <4>3. middle = p + h
          BY <4>1, <4>2
      <4> QED BY <4>3 DEF p, h
    <3> QED BY <3>5, <3>7, <3>8
  <2>2. first \in Int /\ first <= middle
    <3>1. CASE middle \in DOMAIN DateOf
      <4>1. middle \in 0..(Count - 1)
          BY <3>1 DEF DateOf, Count
      <4> DEFINE date == DateOf[middle]
                 jan == DateIs(date.year, 1, 1)
      <4>2. date \in Dates /\ Number[date] = middle
          BY <4>1, DateOfNumber
      <4> HIDE DEF date
      <4>3. /\ date.year \in Years /\ date.month \in Months
            /\ date.day \in 1..MonthDays[date.year][date.month]
          BY <4>2, DatesAre
      <4>4. 1 \in Months
          BY MonthLengths DEF Months
      <4>5. MonthDays[date.year][1] \in Nat \ {0}
          BY <4>3, <4>4, MonthLengths
      <4>6. jan \in Dates
          BY <4>3, <4>4, <4>5, DatesAre
      <4>7. ~ Earlier(date, jan)
        <5>1. date.year \in Int /\ date.month \in Int /\ 1 <= date.month /\ date.day \in Int /\ 1 <= date.day
            BY <4>3 DEF Years, Months
        <5> QED BY <5>1 DEF Earlier, DateIs
      <4>8. Number[jan] \in Int /\ Number[date] \in Int /\ ~ (Number[date] < Number[jan])
        <5>1. Number[jan] \in 0..(Count - 1) /\ Number[date] \in 0..(Count - 1)
            BY <4>2, <4>6, NumberOrder
        <5> QED BY <5>1, <4>2, <4>6, <4>7, NumberOrder
      <4>9. first = Number[jan]
          BY <3>1 DEF DateIs, date
      <4> HIDE DEF first, middle, jan
      <4> QED BY <4>2, <4>8, <4>9
    <3>2. CASE middle \notin DOMAIN DateOf
      <4>1. middle \notin 0..(Count - 1) /\ first = Count
          BY <3>2 DEF DateOf, Count
      <4> HIDE DEF middle, first
      <4> QED BY <4>1, <2>1, DatesFinite
    <3> QED BY <3>1, <3>2
  <2>3. Week(wall) = (middle - first) \div DaysPerWeek + 1
      BY DEF Week
  <2> HIDE DEF middle, first
  <2> DEFINE a == middle - first
  <2>4. a \in Nat /\ DaysPerWeek \in Nat \ {0}
      BY <2>1, <2>2, UnitsAre
  <2> HIDE DEF a
  <2>5. a \div DaysPerWeek \in Nat
    <3>1. a \div DaysPerWeek \in Int /\ a % DaysPerWeek \in 0..(DaysPerWeek - 1)
          /\ a = (DaysPerWeek * (a \div DaysPerWeek)) + (a % DaysPerWeek)
        BY <2>4, DivMod
    <3> DEFINE q == a \div DaysPerWeek
    <3> HIDE DEF q
    <3>2. ~ (q < 0)
      <4> SUFFICES ASSUME q < 0 PROVE FALSE
          OBVIOUS
      <4>1. DaysPerWeek * q + DaysPerWeek <= DaysPerWeek * 0 /\ DaysPerWeek * q \in Int
          BY <2>4, <3>1, MulMono DEF q
      <4>2. a % DaysPerWeek < DaysPerWeek /\ a % DaysPerWeek \in Int
          BY <2>4, <3>1
      <4>3. a = DaysPerWeek * q + (a % DaysPerWeek)
          BY <3>1 DEF q
      <4> QED BY <4>1, <4>2, <4>3, <2>4
    <3> QED BY <3>1, <3>2 DEF q
  <2> QED BY <2>3, <2>5 DEF a
<1>2. n = 1 \/ n = 2 \/ n = 3 \/ n = 4 \/ n = 5 \/ n = 6 \/ n = 7
    OBVIOUS
<1>3. Len(MonthDays) \in Nat \ {0} /\ Len(MonthDays[1]) \in Nat \ {0}
    BY MonthLengths
<1> DEFINE c == Value(FieldNames[n], wall)
           low == MinValue(FieldNames[n])
           high == MaxAt(FieldNames[n], wall)
<1>4. CASE n \in {1, 2}
  <2>1. /\ n = 1 => low = 1 /\ high = Len(MonthDays) /\ c \in 1..Len(MonthDays)
        /\ n = 2 => low = 1 /\ high = Len(MonthDays[1]) /\ c \in 1..Len(MonthDays[1])
    <3>1. CASE n = 1
      <4>1. FieldNames[n] = "year"
          BY <3>1, Names
      <4> QED BY <3>1, <4>1, Minima, Maxima, ValueRange DEF Years
    <3>2. CASE n = 2
      <4>1. FieldNames[n] = "month"
          BY <3>2, Names
      <4> QED BY <3>2, <4>1, Minima, Maxima, ValueRange DEF Months
    <3> QED BY <1>4, <3>1, <3>2
  <2> HIDE DEF c, low, high
  <2> QED BY <1>3, <1>4, <2>1 DEF c, low, high
<1>5. CASE n = 3
    BY <1>5, Names, Values, Minima, Maxima, ValueRange
<1>6. CASE n = 4
    BY <1>1, <1>6, Names, Values, Minima, Maxima
<1>7. \A a \in Nat \ {0} : \A b \in 0..(a - 1) : b \in Int /\ a - 1 \in Int /\ 0 <= b /\ b <= a - 1
    OBVIOUS
<1>8. CASE n = 5
  <2> DEFINE name == FieldNames[n]
  <2>1. name = "day_of_week"
      BY <1>8, Names
  <2>2. Value(name, wall) \in 0..(DaysPerWeek - 1) /\ MinValue(name) = 0
        /\ MaxAt(name, wall) = DaysPerWeek - 1
      BY <2>1, Minima, Maxima, ValueRange
  <2> HIDE DEF name
  <2>3. Value(name, wall) \in Int /\ DaysPerWeek \in Nat \ {0}
      BY <2>2, UnitsAre
  <2> QED BY <2>2, <2>3 DEF name
<1>9. CASE n = 6
  <2>1. low = 0 /\ high = HoursPerDay - 1 /\ c \in 0..(HoursPerDay - 1) /\ HoursPerDay \in Nat \ {0}
      BY <1>9, Names, Minima, Maxima, ValueRange, UnitsAre
  <2> HIDE DEF c, low, high
  <2> QED BY <1>9, <2>1 DEF c, low, high
<1>10. CASE n = 7
  <2>1. low = 0 /\ high = Hour - 1 /\ c \in 0..(Hour - 1) /\ Hour \in Nat \ {0}
      BY <1>10, Names, Minima, Maxima, ValueRange, UnitsAre
  <2> HIDE DEF c, low, high
  <2> QED BY <1>10, <2>1 DEF c, low, high
<1> QED BY <1>2, <1>4, <1>5, <1>6, <1>8, <1>9, <1>10

LEMMA NextOfAll ==
    ASSUME NEW wall \in Wall, NEW n \in 1..7, NEW e, Sound(FieldNames[n], e),
           e.kind \in {"all", "range"}
    PROVE  \A v : v \in NextOf(e, FieldNames[n], wall)
                   <=> LeastFrom(Meant(e, FieldNames[n], wall), Value(FieldNames[n], wall), v)
<1> DEFINE name == FieldNames[n]
           min == MinValue(name)
           max == MaxAt(name, wall)
           c == Value(name, wall)
           low == IF e.kind = "range" THEN e.first ELSE min
           high == IF e.kind = "range" /\ e.last # NoValue
                   THEN IF max <= e.last THEN max ELSE e.last ELSE max
           x == IF c <= low THEN low ELSE c
           v == OnStep(x, low, e.step)
<1>1. /\ min \in Int /\ max \in Int /\ c \in Int
      /\ e.first \in Int /\ e.last \in Int /\ e.step \in Int
      /\ e.step = NoValue \/ e.step \in Nat \ {0}
      /\ e.kind = "range" => min <= e.first
    BY FieldTypes DEF Sound, Expressions, NoValue, Accepted
<1>2. NextOf(e, name, wall) = IF v <= high THEN {v} ELSE {}
  <2>1. e.kind = "range" => GreatestOf({min, e.first}) = e.first
      BY <1>1, PairBounds
  <2>2. e.kind = "range" => LeastOf({max, e.last}) = IF max <= e.last THEN max ELSE e.last
      BY <1>1, PairBounds
  <2>3. low \in Int
      BY <1>1
  <2>4. GreatestOf({c, low}) = x
      BY <1>1, <2>3, PairBounds
  <2> HIDE DEF name, min, max, c
  <2>5. NextOf(e, name, wall) = IF OnStep(GreatestOf({c, low}), low, e.step) <= high
                                THEN {OnStep(GreatestOf({c, low}), low, e.step)} ELSE {}
      BY <2>1, <2>2 DEF NextOf, min, max, c
  <2> QED BY <2>4, <2>5
<1>3. \A u : u \in Meant(e, name, wall)
                <=> /\ u \in Int /\ low <= u /\ u <= high
                    /\ e.step = NoValue \/ (u - low) % e.step = 0
  <2> HIDE DEF name, min, max, c
  <2>1. \A u : u \in min..max <=> u \in Int /\ min <= u /\ u <= max
      BY <1>1
  <2>2. CASE e.kind = "all"
    <3>1. Meant(e, name, wall) =
              {u \in min..max : e.step = NoValue \/ (u - min) % e.step = 0}
        BY <2>2 DEF Meant, min, max
    <3> QED BY <2>2, <3>1, <2>1
  <2>3. CASE e.kind = "range"
    <3>1. Meant(e, name, wall) =
              {u \in min..max : /\ e.first <= u
                                /\ e.last # NoValue => u <= e.last
                                /\ e.step # NoValue => (u - e.first) % e.step = 0}
        BY <2>3 DEF Meant, min, max
    <3> QED BY <2>3, <3>1, <2>1, <1>1
  <2> QED BY <2>2, <2>3
<1>4. low \in Int /\ high \in Int /\ x \in Int /\ low <= x /\ c <= x
    BY <1>1
<1>5. \A u \in Int : low <= u /\ c <= u <=> x <= u
    BY <1>1, <1>4
<1>6. /\ v \in Int /\ x <= v
      /\ e.step = NoValue \/ (v - low) % e.step = 0
      /\ \A u \in Int : x <= u /\ (e.step = NoValue \/ (u - low) % e.step = 0) => v <= u
  <2>1. CASE e.step = NoValue
      BY <1>4, <2>1 DEF OnStep
  <2>2. CASE e.step # NoValue
    <3>1. e.step \in Nat \ {0}
        BY <1>1, <2>2
    <3>2. v = x + ((e.step - (x - low)) % e.step)
        BY <2>2 DEF OnStep
    <3> HIDE DEF x, low, v
    <3> QED BY <1>4, <2>2, <3>1, <3>2, OnStepIs
  <2> QED BY <2>1, <2>2
<1> HIDE DEF name, min, max, c, low, high, x, v
<1>7. \A u : u \in NextOf(e, name, wall) <=> LeastFrom(Meant(e, name, wall), c, u)
  <2> TAKE u
  <2>1. ASSUME u \in NextOf(e, name, wall)
        PROVE  LeastFrom(Meant(e, name, wall), c, u)
    <3>1. u = v /\ v <= high
        BY <1>2, <2>1
    <3> QED BY <3>1, <1>1, <1>3, <1>4, <1>5, <1>6 DEF LeastFrom
  <2>2. ASSUME LeastFrom(Meant(e, name, wall), c, u)
        PROVE  u \in NextOf(e, name, wall)
    <3>1. /\ u \in Int /\ x <= u /\ u <= high
          /\ e.step = NoValue \/ (u - low) % e.step = 0
        BY <2>2, <1>3, <1>5 DEF LeastFrom
    <3>2. v <= u
        BY <3>1, <1>6
    <3>3. v \in Meant(e, name, wall) /\ c <= v
        BY <3>1, <3>2, <1>1, <1>3, <1>4, <1>5, <1>6
    <3>4. u <= v
        BY <2>2, <3>3 DEF LeastFrom
    <3> QED BY <3>1, <3>2, <3>4, <1>2, <1>4, <1>6
  <2> QED BY <2>1, <2>2
<1> QED BY <1>7 DEF name, c

\* The days of a month that are the same weekday, as the first one of them and
\* the weeks after it.
FirstHit(wall, w) == 1 + ((w - Weekday(wall) + DateAt(wall).day - 1) % DaysPerWeek)

LEMMA WeekdayHits ==
    ASSUME NEW wall \in Wall, NEW w \in 0..(DaysPerWeek - 1)
    PROVE  /\ FirstHit(wall, w) \in 1..DaysPerWeek
           /\ \A d \in Int : Weekday(wall + Day * (d - DateAt(wall).day)) = w
                  <=> \E k \in Int : d = FirstHit(wall, w) + DaysPerWeek * k
<1> DEFINE n == DaysPerWeek
           day == DateAt(wall).day
           num == wall \div Day
           x == wall % Day
           hit == FirstHit(wall, w)
<1>1. /\ n \in Nat \ {0} /\ w \in Int /\ day \in Int /\ num \in Int
      /\ x \in 0..(Day - 1) /\ wall = Day * num + x /\ Day \in Nat \ {0}
  <2>1. num \in 0..(Count - 1) /\ x \in 0..(Day - 1) /\ wall = Day * num + x
      BY WallDate
  <2>2. day \in Int
      BY ValueRange, Values
  <2> HIDE DEF num, x, day
  <2> QED BY <2>1, <2>2, UnitsAre, DatesFinite
<1>2. \A d \in Int : Weekday(wall + Day * (d - day)) = (num + d - day) % n
  <2> TAKE d \in Int
  <2> HIDE DEF num, x, day
  <2>1. wall + Day * (d - day) = Day * (num + d - day) + x
      BY <1>1
  <2>2. num + d - day \in Int
      BY <1>1
  <2>3. (Day * (num + d - day) + x) \div Day = num + d - day
      BY <1>1, <2>2, DivUnique
  <2> QED BY <2>1, <2>3 DEF Weekday
<1>3. PICK m \in Int : num = n * m + Weekday(wall) /\ Weekday(wall) \in Int
  <2>1. num = (n * (num \div n)) + (num % n) /\ num \div n \in Int /\ num % n \in 0..(n - 1)
      BY <1>1, DivMod
  <2>2. Weekday(wall) = num % n
      BY DEF Weekday
  <2> QED BY <2>1, <2>2
<1>4. PICK t \in Int : /\ w - Weekday(wall) + day - 1 = n * t + (hit - 1)
                       /\ hit \in 1..n
  <2> DEFINE a == w - Weekday(wall) + day - 1
  <2>1. a \in Int
      BY <1>1, <1>3
  <2>2. hit = 1 + (a % n)
      BY DEF FirstHit
  <2> HIDE DEF a, hit
  <2>3. a = (n * (a \div n)) + (a % n) /\ a \div n \in Int /\ a % n \in 0..(n - 1)
      BY <1>1, <2>1, DivMod
  <2>4. a = n * (a \div n) + (hit - 1) /\ hit \in 1..n
      BY <2>2, <2>3, <1>1
  <2> QED BY <2>3, <2>4 DEF a
<1> HIDE DEF n, day, num, x, hit
<1>5. num + hit - day = w + n * (m - t)
  <2>1. n * m \in Int /\ n * t \in Int /\ n * (m - t) = n * m - n * t
      BY <1>1
  <2> DEFINE nm == n * m
             nt == n * t
  <2>2. /\ num = nm + Weekday(wall) /\ w - Weekday(wall) + day - 1 = nt + (hit - 1)
        /\ hit \in Int /\ nm \in Int /\ nt \in Int /\ Weekday(wall) \in Int
      BY <2>1, <1>1, <1>3, <1>4
  <2> HIDE DEF nm, nt
  <2>3. num + hit - day = w + (nm - nt)
      BY <2>2, <1>1
  <2> QED BY <2>1, <2>3 DEF nm, nt
<1>6. ASSUME NEW d \in Int
      PROVE  (num + d - day) % n = w <=> \E k \in Int : d = hit + n * k
  <2>1. ASSUME (num + d - day) % n = w PROVE \E k \in Int : d = hit + n * k
    <3> DEFINE b == num + d - day
               j == b \div n
               k == j - (m - t)
    <3>1. b = (n * j) + (b % n) /\ j \in Int
        BY <1>1, DivMod
    <3>2. num + d - day = n * j + w
        BY <2>1, <3>1
    <3> HIDE DEF j, b
    <3>3. k \in Int /\ n * k = n * j - n * (m - t) /\ n * j \in Int /\ n * (m - t) \in Int
        BY <3>1, <1>1
    <3>4. d = hit + n * k
      <4> HIDE DEF k
      <4> QED BY <3>2, <3>3, <1>1, <1>4, <1>5
    <3> QED BY <3>3, <3>4
  <2>2. ASSUME NEW k \in Int, d = hit + n * k PROVE (num + d - day) % n = w
    <3>1. n * (m - t + k) = n * (m - t) + n * k /\ n * (m - t) \in Int /\ n * k \in Int
        BY <1>1
    <3>2. num + d - day = n * (m - t + k) + w
        BY <2>2, <3>1, <1>1, <1>4, <1>5
    <3>3. m - t + k \in Int /\ w \in 0..(n - 1)
        BY DEF n
    <3>4. (n * (m - t + k) + w) % n = w
        BY <3>3, <1>1, DivUnique
    <3> QED BY <3>2, <3>4
  <2> QED BY <2>1, <2>2
<1> QED BY <1>2, <1>4, <1>6 DEF hit, n, day

\* The days that are a weekday, counted.
LEMMA CountHits ==
    ASSUME NEW n \in Nat \ {0}, NEW hit \in 1..n, NEW last \in Nat, NEW k \in Nat,
           hit + n * k <= last
    PROVE  LET days == {d \in 1..last : \E i \in Int : d = hit + n * i}
           IN  Cardinality({x \in days : x < hit + n * k}) = k
<1> DEFINE days == {d \in 1..last : \E i \in Int : d = hit + n * i}
           S == {x \in days : x < hit + n * k}
           f == [i \in 0..(k - 1) |-> hit + n * i]
<1>1. n * k \in Int /\ n \in Int /\ hit \in Int /\ 1 <= hit /\ hit <= n
    OBVIOUS
<1>2. ASSUME NEW i \in 0..(k - 1) PROVE hit + n * i \in S
  <2>1. n * i + n <= n * k /\ n * i \in Int
      BY MulMono
  <2>2. n * 0 <= n * i
      BY MulMono
  <2>3. hit + n * i \in 1..last /\ hit + n * i < hit + n * k
      BY <1>1, <2>1, <2>2
  <2>4. i \in Int
      OBVIOUS
  <2> QED BY <2>3, <2>4
<1>3. ASSUME NEW i \in Int, hit + n * i \in S PROVE i \in 0..(k - 1)
  <2>1. hit + n * i < hit + n * k /\ 1 <= hit + n * i /\ n * i \in Int
      BY <1>3
  <2>2. ~ (i < 0)
    <3> SUFFICES ASSUME i < 0 PROVE FALSE
        OBVIOUS
    <3>1. n * i + n <= n * 0
        BY MulMono
    <3> QED BY <3>1, <2>1, <1>1
  <2>3. ~ (k <= i)
    <3> SUFFICES ASSUME k <= i PROVE FALSE
        OBVIOUS
    <3>1. k = i \/ n * k + n <= n * i
        BY MulMono
    <3> QED BY <3>1, <2>1, <1>1
  <2> QED BY <2>2, <2>3
<1>4. \A x \in S : \E i \in 0..(k - 1) : x = hit + n * i
  <2> TAKE x \in S
  <2>1. PICK i \in Int : x = hit + n * i
      OBVIOUS
  <2> HIDE DEF S
  <2> QED BY <2>1, <1>3
<1>5. \A i, j \in 0..(k - 1) : hit + n * i = hit + n * j => i = j
  <2> TAKE i, j \in 0..(k - 1)
  <2> HAVE hit + n * i = hit + n * j
  <2>1. i < j => n * i + n <= n * j
      BY MulMono
  <2>2. j < i => n * j + n <= n * i
      BY MulMono
  <2>3. n * i \in Int /\ n * j \in Int
      OBVIOUS
  <2> QED BY <2>1, <2>2, <2>3, <1>1
<1> HIDE DEF S
<1>6. f \in Bijection(0..(k - 1), S)
  <2>1. f \in [0..(k - 1) -> S]
      BY <1>2
  <2>2. \A i, j \in 0..(k - 1) : f[i] = f[j] => i = j
      BY <1>5
  <2>3. \A x \in S : \E i \in 0..(k - 1) : f[i] = x
      BY <1>4
  <2> HIDE DEF f
  <2> QED BY <2>1, <2>2, <2>3 DEF Bijection, Injection, Surjection, IsInjective
<1>7. IsFiniteSet(0..(k - 1)) /\ Cardinality(0..(k - 1)) = k
    BY FS_Interval
<1>8. Cardinality(S) = Cardinality(0..(k - 1))
  <2> HIDE DEF f
  <2> QED BY <1>6, <1>7, FS_Bijection DEF ExistsBijection
<1> QED BY <1>7, <1>8 DEF S

Nth(wall, e) ==
    FirstHit(wall, e.last) + DaysPerWeek * (IF e.first < 5 THEN e.first
        ELSE (MonthLength(wall) - FirstHit(wall, e.last)) \div DaysPerWeek)

LEMMA MeantWeekday ==
    ASSUME NEW wall \in Wall, NEW e, Sound("day", e), e.kind = "weekday"
    PROVE  Meant(e, "day", wall) =
               IF Nth(wall, e) \in 1..MonthLength(wall) THEN {Nth(wall, e)} ELSE {}
<1> DEFINE n == DaysPerWeek
           hit == FirstHit(wall, e.last)
           last == MonthLength(wall)
           nth == Nth(wall, e)
           D == {d \in 1..last : \E i \in Int : d = hit + n * i}
<1>1. /\ n \in Nat \ {0} /\ hit \in 1..n /\ hit \in Int /\ last \in Nat
      /\ e.first \in 0..5
  <2>1. hit \in 1..n /\ n \in Nat \ {0}
      BY WeekdayHits, UnitsAre DEF Sound
  <2>2. last \in Nat
      BY ValueRange, Maxima DEF MonthLength
  <2> QED BY <2>1, <2>2 DEF Sound
<1>2. Meant(e, "day", wall) =
          {d \in D : IF e.first = 5 THEN \A x \in D : x <= d
                     ELSE Cardinality({x \in D : x < d}) = e.first}
  <2> DEFINE days == {d \in 1..last : Weekday(wall + Day * (d - DateAt(wall).day)) = e.last}
  <2>1. days = D
    <3>1. \A d \in 1..last : Weekday(wall + Day * (d - DateAt(wall).day)) = e.last
                                 <=> \E i \in Int : d = hit + n * i
        BY WeekdayHits DEF Sound
    <3> HIDE DEF n, hit, last
    <3> QED BY <3>1
  <2>2. MinValue("day")..MaxAt("day", wall) = 1..last
      BY Minima DEF MaxAt
  <2>3. Meant(e, "day", wall) =
            {d \in days : IF e.first = 5 THEN \A x \in days : x <= d
                          ELSE Cardinality({x \in days : x < d}) = e.first}
      BY <2>2 DEF Meant
  <2> HIDE DEF D, days
  <2> QED BY <2>1, <2>3
<1>3. nth = hit + n * (IF e.first < 5 THEN e.first ELSE (last - hit) \div n)
    BY DEF Nth
<1> HIDE DEF n, hit, last, nth
<1>4. ASSUME NEW d \in D PROVE \E i \in Nat : d = hit + n * i
  <2>1. PICK i \in Int : d = hit + n * i /\ 1 <= d
      OBVIOUS
  <2>2. ~ (i < 0)
    <3> SUFFICES ASSUME i < 0 PROVE FALSE
        OBVIOUS
    <3>1. n * i + n <= n * 0 /\ n * i \in Int
        BY <1>1, MulMono
    <3>2. hit <= n /\ n \in Int
        BY <1>1
    <3> QED BY <3>1, <3>2, <2>1, <1>1
  <2> QED BY <2>1, <2>2
<1>5. CASE e.first # 5
  <2> DEFINE k == e.first
  <2>1. k \in Nat /\ nth = hit + n * k
      BY <1>1, <1>3, <1>5
  <2>2. ASSUME NEW i \in Nat, hit + n * i \in D
        PROVE  Cardinality({x \in D : x < hit + n * i}) = i
    <3>1. hit + n * i <= last
        BY <2>2
    <3> QED BY <3>1, <1>1, CountHits
  <2> HIDE DEF D, k
  <2>3. ASSUME NEW d PROVE d \in Meant(e, "day", wall) <=> nth \in D /\ d = nth
    <3>1. ASSUME d \in Meant(e, "day", wall) PROVE nth \in D /\ d = nth
      <4>1. d \in D /\ Cardinality({x \in D : x < d}) = k
          BY <1>2, <1>5, <3>1 DEF k
      <4>2. PICK i \in Nat : d = hit + n * i
          BY <4>1, <1>4
      <4>3. i = k
          BY <4>1, <4>2, <2>2
      <4> QED BY <4>1, <4>2, <4>3, <2>1
    <3>2. ASSUME nth \in D, d = nth PROVE d \in Meant(e, "day", wall)
      <4>1. Cardinality({x \in D : x < d}) = k
          BY <2>1, <2>2, <3>2
      <4> QED BY <4>1, <3>2, <1>2, <1>5 DEF k
    <3> QED BY <3>1, <3>2
  <2>4. nth \in D <=> nth \in 1..last
      BY <2>1 DEF D
  <2> QED BY <2>3, <2>4 DEF nth, last
<1>6. CASE e.first = 5
  <2> DEFINE q == (last - hit) \div n
             r == (last - hit) % n
  <2>1. q \in Int /\ r \in 0..(n - 1) /\ last - hit = n * q + r /\ nth = hit + n * q
    <3>1. last - hit \in Int /\ n \in Nat \ {0}
        BY <1>1
    <3>2. q \in Int /\ r \in 0..(n - 1) /\ last - hit = n * q + r
        BY <3>1, DivMod
    <3>3. nth = hit + n * q
        BY <1>3, <1>6
    <3> QED BY <3>2, <3>3
  <2> HIDE DEF q, r
  <2>2. ASSUME NEW i \in Nat, hit + n * i \in D
        PROVE  hit + n * i <= nth
    <3>1. hit + n * i <= last
        BY <2>2
    <3>2. ~ (q < i)
      <4> SUFFICES ASSUME q < i PROVE FALSE
          BY <2>1
      <4>1. n * q + n <= n * i /\ n * i \in Int /\ n * q \in Int
          BY <1>1, <2>1, MulMono
      <4>2. r < n /\ r \in Int
          BY <1>1, <2>1
      <4> QED BY <4>1, <4>2, <3>1, <2>1, <1>1
    <3>3. i = q \/ n * i + n <= n * q
        BY <3>2, <1>1, <2>1, MulMono
    <3>4. n * i \in Int /\ n * q \in Int
        BY <1>1, <2>1
    <3> QED BY <3>3, <3>4, <2>1, <1>1
  <2>3. nth <= last /\ nth \in Int
    <3>1. n * q \in Int /\ r \in Int /\ 0 <= r
        BY <1>1, <2>1
    <3> QED BY <3>1, <2>1, <1>1
  <2>4. \A d \in D : d \in Int /\ 1 <= d /\ d <= nth
    <3> TAKE d \in D
    <3>1. d \in Int /\ 1 <= d
        BY <1>1
    <3>2. PICK i \in Nat : d = hit + n * i
        BY <1>4
    <3> HIDE DEF D
    <3> QED BY <3>1, <3>2, <2>2
  <2>5. nth \in D <=> nth \in 1..last
      BY <2>1 DEF D
  <2>6. \A d \in D : nth \in 1..last
      BY <2>3, <2>4, <1>1
  <2> HIDE DEF D
  <2>7. ASSUME NEW d PROVE d \in Meant(e, "day", wall) <=> nth \in D /\ d = nth
      BY <1>2, <1>6, <2>3, <2>4, <2>5, <2>6
  <2> QED BY <2>5, <2>7 DEF nth, last
<1> QED BY <1>5, <1>6

\* What an expression of a field means, has no value below the current one
\* that NextOf would have to answer.
LEMMA NextOfIs ==
    ASSUME NEW wall \in Wall, NEW n \in 1..7, NEW e, Sound(FieldNames[n], e)
    PROVE  \A v : v \in NextOf(e, FieldNames[n], wall)
                   <=> LeastFrom(Meant(e, FieldNames[n], wall), Value(FieldNames[n], wall), v)
<1>1. e.kind \in {"all", "range", "weekday", "last"}
    BY DEF Sound, Expressions
<1>2. CASE e.kind \in {"all", "range"}
    BY <1>2, NextOfAll
<1> DEFINE day == DateAt(wall).day
           last == MonthLength(wall)
<1>3. day \in 1..last /\ last \in Nat /\ Value("day", wall) = day
    BY ValueRange, Values, Maxima DEF MonthLength
<1>4. CASE e.kind = "weekday"
  <2>1. FieldNames[n] = "day"
      BY <1>4 DEF Sound, Accepted
  <2>2. Meant(e, "day", wall) = IF Nth(wall, e) \in 1..last THEN {Nth(wall, e)} ELSE {}
      BY <1>4, <2>1, MeantWeekday
  <2>3. NextOf(e, "day", wall) =
            IF day <= Nth(wall, e) /\ Nth(wall, e) <= last THEN {Nth(wall, e)} ELSE {}
      BY <1>4 DEF NextOf, NextNth, Nth, FirstHit
  <2>4. Nth(wall, e) \in Int
    <3>1. FirstHit(wall, e.last) \in 1..DaysPerWeek /\ e.first \in 0..5
        BY <1>4, WeekdayHits DEF Sound
    <3>2. FirstHit(wall, e.last) \in Int /\ DaysPerWeek \in Nat \ {0} /\ e.first \in Int
        BY <3>1, UnitsAre
    <3>3. (last - FirstHit(wall, e.last)) \div DaysPerWeek \in Int
        BY <3>2, <1>3, DivMod
    <3> QED BY <3>2, <3>3 DEF Nth
  <2> HIDE DEF day, last
  <2> QED BY <1>3, <2>1, <2>2, <2>3, <2>4 DEF LeastFrom
<1>5. CASE e.kind = "last"
  <2>1. FieldNames[n] = "day"
      BY <1>5 DEF Sound, Accepted
  <2>2. NextOf(e, "day", wall) = {last} /\ Meant(e, "day", wall) = {last}
      BY <1>5 DEF NextOf, Meant
  <2> HIDE DEF day, last
  <2> QED BY <2>1, <2>2, <1>3 DEF LeastFrom
<1> QED BY <1>1, <1>2, <1>4, <1>5

\* What an expression means lies in the range of its field.
LEMMA MeantRange ==
    ASSUME NEW wall, NEW e, NEW name, e.kind = "last" => name = "day",
           e.kind \in {"all", "range", "weekday", "last"}
    PROVE  Meant(e, name, wall) \subseteq MinValue(name)..MaxAt(name, wall) \cup
               (IF e.kind = "last" THEN {MonthLength(wall)} ELSE {})
<1> DEFINE range == MinValue(name)..MaxAt(name, wall)
           days == {d \in range : Weekday(wall + Day * (d - DateAt(wall).day)) = e.last}
<1>1. days \subseteq range
    OBVIOUS
<1>2. CASE e.kind = "all"
    BY <1>2 DEF Meant
<1>3. CASE e.kind = "range"
    BY <1>3 DEF Meant
<1>4. CASE e.kind = "weekday"
  <2>1. Meant(e, name, wall) = {d \in days : IF e.first = 5 THEN \A x \in days : x <= d
                               ELSE Cardinality({x \in days : x < d}) = e.first}
      BY <1>4 DEF Meant
  <2> HIDE DEF days, range
  <2> QED BY <1>1, <2>1 DEF range
<1>5. CASE e.kind = "last"
    BY <1>5 DEF Meant
<1> QED BY <1>2, <1>3, <1>4, <1>5

\* The values that a field's expressions mean, in a date.
Wanted(exprs, name, wall) == UNION {Meant(e, name, wall) : e \in exprs}

LEMMA WantedRange ==
    ASSUME NEW wall \in Wall, NEW n \in 1..7, NEW exprs, \A e \in exprs : Sound(FieldNames[n], e)
    PROVE  Wanted(exprs, FieldNames[n], wall)
               \subseteq MinValue(FieldNames[n])..MaxAt(FieldNames[n], wall)
<1> SUFFICES ASSUME NEW e \in exprs, NEW v \in Meant(e, FieldNames[n], wall)
             PROVE  v \in MinValue(FieldNames[n])..MaxAt(FieldNames[n], wall)
    BY DEF Wanted
<1>1. e.kind \in {"all", "range", "weekday", "last"} /\ (e.kind = "last" => FieldNames[n] = "day")
    BY DEF Sound, Expressions, Accepted
<1>2. MonthLength(wall) \in MinValue("day")..MaxAt("day", wall)
    BY Minima, Maxima, ValueRange DEF MonthLength
<1> QED BY <1>1, <1>2, MeantRange

LEMMA NextValueIs ==
    ASSUME NEW wall \in Wall, NEW n \in 1..7, NEW exprs, \A e \in exprs : Sound(FieldNames[n], e)
    PROVE  LET c == Value(FieldNames[n], wall)
               W == Wanted(exprs, FieldNames[n], wall)
               v == NextValue(exprs, FieldNames[n], wall)
           IN  /\ v = NoValue => \A u \in W : u < c
               /\ v # NoValue => LeastFrom(W, c, v)
<1> DEFINE name == FieldNames[n]
           c == Value(name, wall)
           W == Wanted(exprs, name, wall)
           found == UNION {NextOf(e, name, wall) : e \in exprs}
           v == NextValue(exprs, name, wall)
<1>1. c \in Int /\ \A u \in W : u \in Nat
  <2>1. c \in Int /\ MinValue(name) \in {0, 1} /\ MaxAt(name, wall) \in Int
      BY FieldTypes
  <2>2. W \subseteq MinValue(name)..MaxAt(name, wall)
      BY WantedRange
  <2> QED BY <2>1, <2>2
<1>2. \A u : u \in found <=> \E e \in exprs : LeastFrom(Meant(e, name, wall), c, u)
    BY NextOfIs
<1>3. \A u : u \in W <=> \E e \in exprs : u \in Meant(e, name, wall)
    BY DEF Wanted
<1>4. v = IF found = {} THEN NoValue ELSE LeastOf(found)
    BY DEF NextValue
<1> HIDE DEF name, c, W, found, v
<1>5. ASSUME NEW u \in W, c <= u PROVE \E x \in found : x <= u
  <2>1. PICK e \in exprs : u \in Meant(e, name, wall)
      BY <1>3
  <2> DEFINE S == {x \in Meant(e, name, wall) : c <= x}
  <2>2. S \in SUBSET Nat /\ S # {}
      BY <2>1, <1>1, <1>3, <1>5
  <2>3. PICK x \in S : \A y \in S : x <= y
    <3> HIDE DEF S
    <3> QED BY <2>2, LeastNat
  <2>4. LeastFrom(Meant(e, name, wall), c, x) /\ x <= u
      BY <2>1, <2>3, <1>5 DEF LeastFrom
  <2> QED BY <2>4, <1>2
<1>6. found \subseteq W /\ \A x \in found : c <= x
    BY <1>2, <1>3 DEF LeastFrom
<1>7. CASE found = {}
  <2>1. v = NoValue
      BY <1>4, <1>7
  <2>2. \A u \in W : u < c
      BY <1>1, <1>5, <1>7
  <2> QED BY <2>1, <2>2 DEF name, c, W, v
<1>8. CASE found # {}
  <2>1. v \in found /\ \A x \in found : v <= x
    <3>1. found \in SUBSET Nat
        BY <1>1, <1>6
    <3> QED BY <1>4, <1>8, <3>1, LeastOfIs
  <2>2. LeastFrom(W, c, v)
    <3>1. v \in W /\ c <= v
        BY <2>1, <1>6
    <3>2. ASSUME NEW u \in W, c <= u PROVE v <= u
      <4>1. PICK x \in found : x <= u
          BY <3>2, <1>5
      <4> QED BY <4>1, <2>1, <1>1, <1>6
    <3> QED BY <3>1, <3>2 DEF LeastFrom
  <2>3. v # NoValue
      BY <2>1, <1>1, <1>6 DEF NoValue
  <2> QED BY <2>2, <2>3 DEF name, c, W, v
<1> QED BY <1>7, <1>8

-----------------------------------------------------------------------------
(* The clocks of the time zone.                                            *)

\* The datetimes of the time zone that a search works with.
Times == {dt \in [zone : {"local"}, at : Wall, fold : {0, 1}, past : {0}] :
              dt.fold = 1 => Back <= dt.at}

\* The readings that the clocks jump over.
Skipped(wall) == Forward <= wall /\ wall < Forward + Hour

LEMMA Changes ==
    /\ Hour \in Nat \ {0} /\ Forward \in Nat /\ Back \in Nat /\ End \in Nat
    /\ Forward + 2 * Hour <= Back /\ Back + Hour <= End
    BY SummerAssumption, UnitsAre, EndIs

LEMMA TimeIs ==
    ASSUME NEW dt \in Times
    PROVE  /\ dt = Local(dt.at, dt.fold)
           /\ dt.at \in Wall /\ dt.at \in Int /\ 0 <= dt.at /\ dt.at < End
           /\ dt.fold \in {0, 1} /\ dt.zone = "local" /\ dt.past = 0
           /\ dt.fold = 1 => Back <= dt.at
           /\ dt # None
<1>1. dt \in [zone : {"local"}, at : Wall, fold : {0, 1}, past : {0}] /\ (dt.fold = 1 => Back <= dt.at)
    BY DEF Times
<1>2. dt.at \in Wall /\ dt.at \in Int /\ 0 <= dt.at /\ dt.at < End
    BY <1>1, Changes DEF Wall
<1> QED BY <1>1, <1>2 DEF Local, None

LEMMA TimesAre ==
    /\ \A wall \in Wall : Local(wall, 0) \in Times
    /\ \A wall \in Wall : Back <= wall => Local(wall, 1) \in Times
    BY DEF Times, Local

LEMMA LocalIs ==
    ASSUME NEW wall, NEW fold
    PROVE  /\ Local(wall, fold).at = wall /\ Local(wall, fold).fold = fold
           /\ Local(wall, fold).zone = "local" /\ Local(wall, fold).past = 0
           /\ Instant(Local(wall, fold)) = Timestamp(wall, fold)
    BY DEF Local, Instant

\* A clock shows each instant, and reading it gives the instant back.
LEMMA RoundTrip ==
    ASSUME NEW t \in Nat, t < End
    PROVE  /\ FromTimestamp(t) \in Times
           /\ Instant(FromTimestamp(t)) = t
           /\ ~ Skipped(FromTimestamp(t).at)
           /\ FromTimestamp(t).fold = 1 => Repeated(FromTimestamp(t).at)
<1>1. CASE Forward <= t /\ t < Back
  <2>1. FromTimestamp(t) = Local(t + Hour, 0) /\ t + Hour \in Wall
      BY <1>1, Changes DEF FromTimestamp, Wall
  <2>2. Timestamp(t + Hour, 0) = t /\ ~ Skipped(t + Hour)
      BY <1>1, Changes DEF Timestamp, InSummer, Skipped
  <2> QED BY <2>1, <2>2, TimesAre, LocalIs
<1>2. CASE Back <= t /\ t < Back + Hour
  <2>1. FromTimestamp(t) = Local(t, 1) /\ t \in Wall
      BY <1>2, Changes DEF FromTimestamp, Wall
  <2>2. Timestamp(t, 1) = t /\ ~ Skipped(t) /\ Repeated(t)
      BY <1>2, Changes DEF Timestamp, InSummer, Skipped, Repeated
  <2> QED BY <1>2, <2>1, <2>2, TimesAre, LocalIs
<1>3. CASE t < Forward \/ Back + Hour <= t
  <2>1. FromTimestamp(t) = Local(t, 0) /\ t \in Wall
      BY <1>3, Changes DEF FromTimestamp, Wall
  <2>2. Timestamp(t, 0) = t /\ ~ Skipped(t)
      BY <1>3, Changes DEF Timestamp, InSummer, Skipped
  <2> QED BY <2>1, <2>2, TimesAre, LocalIs
<1> QED BY <1>1, <1>2, <1>3, Changes

LEMMA InstantIs ==
    ASSUME NEW wall \in Wall, NEW fold \in {0, 1}, fold = 1 => Back <= wall
    PROVE  /\ Timestamp(wall, fold) \in Nat
           /\ Timestamp(wall, fold) <= wall
           /\ wall - Hour <= Timestamp(wall, fold)
           /\ wall < Forward + Hour /\ fold = 0 => Timestamp(wall, fold) = wall
           /\ Forward + Hour <= wall /\ wall < Back => Timestamp(wall, fold) = wall - Hour
           /\ Repeated(wall) => Timestamp(wall, fold) = IF fold = 0 THEN wall - Hour ELSE wall
           /\ Back + Hour <= wall => Timestamp(wall, fold) = wall
    BY Changes DEF Wall, Timestamp, InSummer, Repeated

\* A later reading is a later instant, but for those that are jumped over.
LEMMA InstantOrder ==
    ASSUME NEW a \in Wall, NEW b \in Wall, a < b, ~ Skipped(a)
    PROVE  /\ Timestamp(a, 0) < Timestamp(b, 0)
           /\ Skipped(b) => Timestamp(a, 0) < Forward
    BY InstantIs, Changes DEF Wall, Skipped, Repeated

-----------------------------------------------------------------------------
(* Types.                                                                  *)

\* What now and previous_fire_time are.
Readings == {dt \in [zone : {"local", "other"}, at : Wall, fold : {0, 1}, past : {0, 2}] :
                 dt.fold = 1 => dt.zone = "local" /\ Back <= dt.at}

TypeInv ==
    /\ trig \in Triggers
    /\ stored \in {"object", "text"}
    /\ clock \in Wall
    /\ now \in Readings
    /\ prev = None \/ (prev \in Readings /\ prev.past = 0)
    /\ pc \in States
    /\ answers \in Seq(Times \cup {None}) /\ Len(answers) <= Len(trig.parts)
    /\ pc \in {"cron", "months", "calendar"} => Len(answers) < Len(trig.parts)
    /\ pc = "cron" => Part.kind = "cron" /\ next \in Times /\ fieldnum \in 0..8
    /\ pc = "months" => /\ Part.kind = "calendar"
                        /\ since \in Dates
                        /\ fieldnum \in Nat /\ MonthNumber(since) <= fieldnum
    /\ pc = "calendar" => /\ Part.kind = "calendar"
                          /\ next = Local(next.at, 0) /\ next.at \in Nat /\ next.at % Day = 0
    /\ pc = "found" => next \in Times

\* The parts of a trigger are what the constructors make.
LEMMA PartsAre ==
    ASSUME NEW t \in Triggers
    PROVE  /\ t.mode \in {"single", "or", "and"}
           /\ Len(t.parts) \in Nat \ {0}
           /\ DOMAIN t.parts = 1..Len(t.parts)
           /\ t.mode = "single" => Len(t.parts) = 1
           /\ \A i \in 1..Len(t.parts) :
                  /\ t.parts[i].kind \in {"cron", "calendar"}
                  /\ t.parts[i].kind = "cron" => CronPart(t.parts[i])
                  /\ t.parts[i].kind = "calendar" => CalendarPart(t.parts[i])
<1>1. \A part : CronPart(part) => part.kind = "cron"
    BY DEF CronPart
<1>2. \A part : CalendarPart(part) => part.kind = "calendar"
    BY DEF CalendarPart
<1>3. /\ t.mode \in {"single", "or", "and"}
      /\ Len(t.parts) \in Nat \ {0}
      /\ t.mode = "single" => Len(t.parts) = 1
      /\ t.parts = [i \in 1..Len(t.parts) |-> t.parts[i]]
      /\ \A i \in 1..Len(t.parts) : CronPart(t.parts[i]) \/ CalendarPart(t.parts[i])
    BY TriggersAssumption
<1> HIDE DEF CronPart, CalendarPart
<1>4. DOMAIN t.parts = 1..Len(t.parts)
  <2> DEFINE f == [i \in 1..Len(t.parts) |-> t.parts[i]]
  <2>1. DOMAIN f = 1..Len(t.parts)
      OBVIOUS
  <2>2. t.parts = f
      BY <1>3
  <2> HIDE DEF f
  <2> QED BY <2>1, <2>2
<1> QED BY <1>1, <1>2, <1>3, <1>4

LEMMA CronPartIs ==
    ASSUME NEW part, CronPart(part)
    PROVE  /\ part.kind = "cron"
           /\ \A n \in 1..7 : \A e \in part.fields[n] : Sound(FieldNames[n], e)
           /\ part.start \in Moments /\ part.end \in Moments /\ part.jitter \in Nat
<1>1. /\ part.kind = "cron"
      /\ part.fields \in [1..7 -> SUBSET Expressions]
      /\ part.start \in Moments /\ part.end \in Moments /\ part.jitter \in Nat
  <2>1. DOMAIN FieldNames = 1..7
      BY Names
  <2> QED BY <2>1 DEF CronPart
<1>2. ASSUME NEW n \in 1..7, NEW e \in part.fields[n]
      PROVE  Sound(FieldNames[n], e)
  <2>1. n \in DOMAIN FieldNames
      BY Names
  <2>2. e \in Expressions
      BY <1>1
  <2> QED BY <2>1, <2>2 DEF CronPart, Sound
<1> QED BY <1>1, <1>2

LEMMA CalendarPartIs ==
    ASSUME NEW part, CalendarPart(part)
    PROVE  /\ part.kind = "calendar"
           /\ part.start \in Moments \ {None} /\ part.end \in Moments /\ part.jitter = 0
           /\ part.months \in Nat /\ part.days \in Nat /\ part.months + part.days > 0
           /\ part.time \in 0..(Day - 1) /\ part.start.at % Day = 0
    BY DEF CalendarPart

LEMMA MomentsAre ==
    /\ \A dt \in Moments : dt # None => dt \in Times /\ dt = Local(dt.at, 0)
    /\ \A dt \in Times : dt # None
<1>1. ASSUME NEW dt \in Moments, dt # None PROVE dt \in Times /\ dt = Local(dt.at, 0)
  <2>1. PICK wall \in Wall : dt = Local(wall, 0)
      BY <1>1 DEF Moments, Wall
  <2>2. dt.at = wall
      BY <2>1, LocalIs
  <2> QED BY <2>1, <2>2, TimesAre
<1>2. \A dt \in Times : dt # None
    BY TimeIs
<1> QED BY <1>1, <1>2

\* The part that is asked.
LEMMA PartIs ==
    ASSUME TypeInv, Len(answers) < Len(trig.parts)
    PROVE  /\ Part.kind \in {"cron", "calendar"}
           /\ Part.kind = "cron" => CronPart(Part)
           /\ Part.kind = "calendar" => CalendarPart(Part)
           /\ Part = trig.parts[Len(answers) + 1]
           /\ Len(answers) + 1 \in DOMAIN trig.parts
<1>1. Len(answers) + 1 \in 1..Len(trig.parts) /\ trig \in Triggers
    BY PartsAre DEF TypeInv
<1> QED BY <1>1, PartsAre DEF Part
-----------------------------------------------------------------------------
(* Turns of a cron search.                                                 *)

LEMMA CarryIs ==
    ASSUME NEW wall \in Wall, NEW n \in 0..7
    PROVE  LET i == Carry(n, wall)
           IN  /\ i \in 0..n
               /\ i # 0 => /\ i \in RealFields
                           /\ Settable(wall, i, Value(FieldNames[i], wall) + 1)
               /\ \A k \in RealFields : i < k /\ k <= n =>
                      Value(FieldNames[k], wall) = MaxAt(FieldNames[k], wall)
<1> DEFINE able == {i \in 1..n : /\ Real(FieldNames[i])
                                 /\ Value(FieldNames[i], wall) # MaxAt(FieldNames[i], wall)}
           i == Carry(n, wall)
<1>1. i = IF able = {} THEN 0 ELSE GreatestOf(able)
    BY DEF Carry
<1>2. able \in SUBSET Nat /\ (\A k \in able : k <= 7) /\ 7 \in Nat
    OBVIOUS
<1>3. \A k \in RealFields : k <= n /\ k \notin able =>
          Value(FieldNames[k], wall) = MaxAt(FieldNames[k], wall)
    BY Names DEF RealFields
<1>4. \A k \in able : k \in 1..n /\ k \in RealFields /\ Settable(wall, k, Value(FieldNames[k], wall) + 1)
  <2> TAKE k \in able
  <2>1. k \in 1..7 /\ k \in RealFields /\ k # 4
      BY Names DEF RealFields
  <2>2. /\ Value(FieldNames[k], wall) \in Int /\ MaxAt(FieldNames[k], wall) \in Int
        /\ MinValue(FieldNames[k]) \in Int
        /\ MinValue(FieldNames[k]) <= Value(FieldNames[k], wall)
        /\ Value(FieldNames[k], wall) <= MaxAt(FieldNames[k], wall)
      BY <2>1, FieldTypes
  <2>3. Value(FieldNames[k], wall) # MaxAt(FieldNames[k], wall)
      OBVIOUS
  <2> QED BY <2>1, <2>2, <2>3 DEF Settable
<1> HIDE DEF able, i
<1>5. CASE able = {}
    BY <1>1, <1>3, <1>5 DEF i
<1>6. CASE able # {}
  <2>1. i \in able /\ \A k \in able : k <= i
      BY <1>1, <1>2, <1>6, GreatestOfIs
  <2>2. i \in Nat /\ \A k \in RealFields : i < k => k \notin able
      BY <1>2, <2>1 DEF RealFields
  <2> QED BY <1>3, <1>4, <2>1, <2>2 DEF i
<1> QED BY <1>5, <1>6

\* Incrementing a field leads to a later instant of the calendar.
LEMMA IncrementIs ==
    ASSUME NEW dt \in Times, NEW n \in 0..7
    PROVE  LET i == Carry(n, dt.at)
               goal == Reading(dt.at, i, Value(FieldNames[i], dt.at) + 1)
               t == Instant(dt) + goal - dt.at
           IN  /\ i = 0 => Incremented(dt, n) = Local(0, 0)
               /\ i # 0 => /\ goal \in Wall /\ dt.at < goal
                           /\ t \in Nat /\ t < End /\ Instant(dt) < t
                           /\ Incremented(dt, n) = FromTimestamp(t)
               /\ Incremented(dt, n) \in Times
<1> DEFINE i == Carry(n, dt.at)
           goal == Reading(dt.at, i, Value(FieldNames[i], dt.at) + 1)
           t == Instant(dt) + goal - dt.at
<1>1. Incremented(dt, n) = IF i = 0 THEN Local(0, 0) ELSE FromTimestamp(t)
    BY DEF Incremented
<1>2. dt.at \in Wall /\ dt.at \in Int /\ dt = Local(dt.at, dt.fold) /\ dt.fold \in {0, 1}
      /\ (dt.fold = 1 => Back <= dt.at)
    BY TimeIs
<1>3. CASE i = 0
  <2>1. 0 \in Wall
      BY EndIs DEF Wall
  <2> HIDE DEF i
  <2> QED BY <1>1, <1>3, <2>1, TimesAre DEF i
<1>4. CASE i # 0
  <2>1. Settable(dt.at, i, Value(FieldNames[i], dt.at) + 1) /\ i \in 1..7
      BY <1>2, <1>4, CarryIs
  <2>2. Value(FieldNames[i], dt.at) \in Int
      BY <1>2, <2>1, FieldTypes
  <2> HIDE DEF i
  <2>3. goal \in Wall
      BY <1>2, <2>1, ReadingIs
  <2>4. dt.at < goal
    <3>1. Value(FieldNames[i], dt.at) < Value(FieldNames[i], dt.at) + 1
        BY <2>2
    <3> QED BY <1>2, <2>1, <3>1, ReadingAbove
  <2>5. Instant(dt) \in Nat /\ Instant(dt) <= dt.at
      BY <1>2, InstantIs, LocalIs
  <2>6. goal \in Int /\ goal < End /\ End \in Int
      BY <2>3, EndIs DEF Wall
  <2> HIDE DEF goal
  <2>7. t \in Nat /\ t < End /\ Instant(dt) < t
      BY <1>2, <2>4, <2>5, <2>6
  <2> HIDE DEF t
  <2>8. FromTimestamp(t) \in Times
      BY <2>7, RoundTrip
  <2> QED BY <1>1, <1>4, <2>3, <2>4, <2>7, <2>8 DEF i, goal, t
<1> QED BY <1>3, <1>4

\* What a turn makes of next_date.
Steps(from, to) ==
    \/ to = from
    \/ to = Local(to.at, from.fold) /\ from.at < to.at
    \/ /\ Instant(from) < Instant(to)
       /\ to = FromTimestamp(Instant(to)) /\ Instant(to) \in Nat /\ Instant(to) < End

LEMMA TurnIs ==
    ASSUME TypeInv, pc = "cron", fieldnum \in 1..7
    PROVE  /\ Turn(Part)[1] \in Times
           /\ Turn(Part)[2] \in 0..8
           /\ Turn(Part)[2] # 0 => Steps(next, Turn(Part)[1])
<1> DEFINE name == FieldNames[fieldnum]
           c == Value(name, next.at)
           v == NextValue(Part.fields[fieldnum], name, next.at)
<1>1. CronPart(Part) /\ next \in Times
    BY PartIs DEF TypeInv
<1>2. next.at \in Wall /\ next.fold \in {0, 1} /\ (next.fold = 1 => Back <= next.at)
      /\ next.at \in Int
    BY <1>1, TimeIs
<1>3. \A e \in Part.fields[fieldnum] : Sound(name, e)
    BY <1>1, CronPartIs
<1>4. ASSUME NEW n \in 0..7
      PROVE  /\ Incremented(next, n) \in Times /\ Carry(n, next.at) \in 0..8
             /\ Carry(n, next.at) # 0 => Steps(next, Incremented(next, n))
  <2> DEFINE i == Carry(n, next.at)
  <2>1. i \in 0..n
      BY <1>2, CarryIs
  <2>2. Incremented(next, n) \in Times
      BY <1>1, IncrementIs
  <2>3. ASSUME i # 0 PROVE Steps(next, Incremented(next, n))
    <3>1. PICK t \in Nat : t < End /\ Instant(next) < t /\ Incremented(next, n) = FromTimestamp(t)
        BY <1>1, <2>3, IncrementIs
    <3>2. Instant(FromTimestamp(t)) = t
        BY <3>1, RoundTrip
    <3> QED BY <3>1, <3>2 DEF Steps
  <2> HIDE DEF i
  <2>4. i \in 0..8
      BY <2>1
  <2> QED BY <2>2, <2>3, <2>4 DEF i
<1>5. CASE v = NoValue
  <2>1. Turn(Part) = <<Incremented(next, fieldnum - 1), Carry(fieldnum - 1, next.at)>>
    <3>1. c # NoValue
      <4>1. c \in Int /\ MinValue(name) \in {0, 1} /\ MinValue(name) <= c
          BY <1>2, FieldTypes
      <4> QED BY <4>1 DEF NoValue
    <3> QED BY <1>5, <3>1 DEF Turn
  <2>2. fieldnum - 1 \in 0..7
      OBVIOUS
  <2> QED BY <1>4, <2>1, <2>2
<1>6. CASE v # NoValue /\ v = c
  <2>1. Turn(Part) = <<next, fieldnum + 1>>
      BY <1>6 DEF Turn
  <2> QED BY <1>1, <2>1 DEF Steps
<1>7. CASE v # NoValue /\ v # c /\ ~ Real(name)
  <2>1. Turn(Part) = <<Incremented(next, fieldnum), Carry(fieldnum, next.at)>>
      BY <1>7 DEF Turn
  <2>2. fieldnum \in 0..7
      OBVIOUS
  <2> QED BY <1>4, <2>1, <2>2
<1>8. CASE v # NoValue /\ v # c /\ Real(name)
  <2> DEFINE r == Reading(next.at, fieldnum, v)
  <2>1. Turn(Part) = <<Local(r, next.fold), fieldnum + 1>>
      BY <1>8 DEF Turn
  <2>2. v \in Wanted(Part.fields[fieldnum], name, next.at) /\ c <= v
      BY <1>2, <1>3, <1>8, NextValueIs DEF LeastFrom
  <2>3. v \in MinValue(name)..MaxAt(name, next.at) /\ c \in Int
      BY <1>2, <1>3, <2>2, WantedRange, FieldTypes
  <2>4. Settable(next.at, fieldnum, v) /\ c < v
    <3>1. fieldnum \in RealFields
        BY <1>8, Names
    <3>2. v \in Int
        BY <2>3
    <3> HIDE DEF c, v, name
    <3> QED BY <1>8, <2>2, <2>3, <3>1, <3>2 DEF Settable, name
  <2>5. r \in Wall /\ next.at < r
      BY <1>2, <2>4, ReadingIs, ReadingAbove
  <2> HIDE DEF r
  <2>6. Local(r, next.fold) \in Times
    <3>1. r \in Int /\ (next.fold = 1 => Back <= r)
        BY <1>2, <2>5, Changes DEF Wall
    <3> QED BY <1>2, <2>5, <3>1, TimesAre
  <2>7. Steps(next, Local(r, next.fold))
      BY <2>5, LocalIs DEF Steps
  <2> QED BY <2>1, <2>6, <2>7
<1> QED BY <1>5, <1>6, <1>7, <1>8

-----------------------------------------------------------------------------
(* Where a search begins, and what becomes of its answers.                 *)

\* A reading, or a microsecond after one.
Moving == {dt \in [zone : {"local", "other"}, at : Wall, fold : {0, 1}, past : {0, 1, 2}] :
               dt.fold = 1 => dt.zone = "local" /\ Back <= dt.at}

LEMMA MovingIs ==
    /\ Times \subseteq Readings /\ Readings \subseteq Moving
    /\ \A dt \in Moving : JustAfter(dt) \in Moving
    /\ \A dt \in Moving : dt # None /\ dt.at \in Wall /\ dt.zone \in {"local", "other"}
    /\ None \notin Times
<1>1. Times \subseteq Readings /\ Readings \subseteq Moving
    BY DEF Times, Readings, Moving
<1>2. \A dt \in Moving : JustAfter(dt) \in Moving
    BY DEF Moving, JustAfter
<1>3. \A dt \in Moving : dt # None /\ dt.at \in Wall /\ dt.zone \in {"local", "other"}
    BY DEF Moving, None
<1> QED BY <1>1, <1>2, <1>3

LEMMA BeginIs ==
    ASSUME NEW dt \in Moving
    PROVE  LET c == AsLocal(Ceil(dt))
               at == IF dt.past > 0 THEN dt.at + 1 ELSE dt.at
           IN  /\ at \in Nat /\ at <= End
               /\ dt.zone = "local" => c = Local(at, IF dt.past > 0 THEN 0 ELSE dt.fold)
               /\ dt.zone = "other" => c = FromTimestamp(at)
               /\ ~ Overflows(c) => c \in Times
<1> DEFINE c == AsLocal(Ceil(dt))
           at == IF dt.past > 0 THEN dt.at + 1 ELSE dt.at
           fold == IF dt.past > 0 THEN 0 ELSE dt.fold
<1>1. /\ dt.at \in Wall /\ dt.at \in Int /\ 0 <= dt.at /\ dt.at < End /\ dt.past \in {0, 1, 2}
      /\ dt.fold \in {0, 1} /\ dt.zone \in {"local", "other"}
      /\ dt = [zone |-> dt.zone, at |-> dt.at, fold |-> dt.fold, past |-> dt.past]
      /\ dt.fold = 1 => dt.zone = "local" /\ Back <= dt.at
    BY Changes DEF Moving, Wall
<1>2. at \in Nat /\ at <= End /\ fold \in {0, 1} /\ (fold = 1 => dt.zone = "local" /\ Back <= at)
    BY <1>1, Changes
<1>3. Ceil(dt) = [zone |-> dt.zone, at |-> at, fold |-> fold, past |-> 0]
  <2>1. CASE dt.past > 0
      BY <1>1, <2>1 DEF Ceil, Plus
  <2>2. CASE dt.past = 0
    <3>1. Ceil(dt) = dt /\ at = dt.at /\ fold = dt.fold
        BY <2>2 DEF Ceil
    <3> HIDE DEF at, fold
    <3> QED BY <1>1, <2>2, <3>1
  <2> QED BY <1>1, <2>1, <2>2
<1>4. FromTimestamp(at) = [FromTimestamp(at) EXCEPT !.past = 0]
    BY DEF FromTimestamp, Local
<1> HIDE DEF at, fold
<1>5. dt.zone = "local" => c = Local(at, fold)
    BY <1>3 DEF AsLocal, Local
<1>6. dt.zone = "other" => c = FromTimestamp(at)
    BY <1>1, <1>2, <1>3, <1>4 DEF AsLocal
<1>7. ASSUME ~ Overflows(c) PROVE c \in Times
  <2>1. CASE dt.zone = "local"
    <3>1. at < End
        BY <1>2, <1>5, <1>7, <2>1, LocalIs, Changes DEF Overflows
    <3>2. at \in Wall
        BY <3>1, <1>2, Changes DEF Wall
    <3> QED BY <3>2, <1>2, <1>5, <2>1, TimesAre
  <2>2. CASE dt.zone = "other"
    <3>1. CASE at < End
        BY <3>1, <2>2, <1>2, <1>6, RoundTrip
    <3>2. CASE at = End
      <4>1. FromTimestamp(at) = Local(at, 0)
          BY <3>2, Changes DEF FromTimestamp
      <4> QED BY <4>1, <3>2, <2>2, <1>6, <1>7, LocalIs, Changes DEF Overflows
    <3> QED BY <3>1, <3>2, <1>2, Changes
  <2> QED BY <2>1, <2>2, <1>1
<1> QED BY <1>2, <1>5, <1>6, <1>7 DEF at, fold

LEMMA StartIs ==
    ASSUME TypeInv, NEW part, CronPart(part)
    PROVE  /\ Start(part) \in Moving
           /\ prev # None => LET after == Earliest(now, JustAfter(prev)) IN
                  Start(part) = IF Same(after, prev) THEN JustAfter(after) ELSE after
<1>1. part.start = None \/ part.start \in Moving
    BY CronPartIs, MomentsAre, MovingIs
<1>2. now \in Moving /\ (prev # None => prev \in Moving)
    BY MovingIs DEF TypeInv
<1>3. CASE prev = None
  <2>1. Start(part) = IF part.start = None THEN now ELSE Latest(now, part.start)
      BY <1>3 DEF Start
  <2> QED BY <2>1, <1>1, <1>2, <1>3 DEF Latest
<1>4. CASE prev # None
  <2> DEFINE after == Earliest(now, JustAfter(prev))
  <2>1. Start(part) = IF Same(after, prev) THEN JustAfter(after) ELSE after
    <3>1. CASE Same(after, prev)
        BY <1>4, <3>1 DEF Start
    <3>2. CASE ~ Same(after, prev)
        BY <1>4, <3>2 DEF Start
    <3> QED BY <3>1, <3>2
  <2>2. after \in Moving
      BY <1>2, <1>4, MovingIs DEF Earliest
  <2> HIDE DEF after
  <2>3. Start(part) \in Moving
      BY <2>1, <2>2, MovingIs
  <2> QED BY <2>1, <2>3 DEF after
<1> QED BY <1>3, <1>4

LEMMA TimesOrder ==
    ASSUME NEW a \in Times, NEW b \in Times
    PROVE  Before(a, b) <=> a.at < b.at
    BY TimeIs DEF Before

LEMMA FirstAndFinal ==
    ASSUME NEW S \in SUBSET Times, S # {}
    PROVE  First(S) \in S /\ Final(S) \in S
<1>1. \A a \in S : a.at \in Nat /\ a.at <= End
    BY TimeIs, Changes
<1>2. \E a \in S : \A b \in S : ~ Before(b, a)
  <2> DEFINE A == {n \in Nat : \E a \in S : n = a.at}
  <2>1. A # {} /\ A \in SUBSET Nat
      BY <1>1
  <2>2. PICK n \in A : \A m \in A : n <= m
    <3> HIDE DEF A
    <3> QED BY <2>1, LeastNat
  <2>3. PICK a \in S : n = a.at
      OBVIOUS
  <2>4. ASSUME NEW b \in S PROVE ~ Before(b, a)
    <3>1. b.at \in A
        BY <1>1
    <3>2. n <= b.at
        BY <3>1, <2>2
    <3>3. a \in Times /\ b \in Times
        OBVIOUS
    <3> QED BY <3>2, <3>3, <2>3, <1>1, TimesOrder
  <2> QED BY <2>4
<1>3. \E a \in S : \A b \in S : ~ Before(a, b)
  <2> DEFINE A == {n \in Nat : \E a \in S : n = End - a.at}
  <2>1. A # {} /\ A \in SUBSET Nat
    <3>1. PICK a \in S : TRUE
        OBVIOUS
    <3>2. End - a.at \in Nat
        BY <1>1, Changes
    <3> QED BY <3>2
  <2>2. PICK n \in A : \A m \in A : n <= m
    <3> HIDE DEF A
    <3> QED BY <2>1, LeastNat
  <2>3. PICK a \in S : n = End - a.at
      OBVIOUS
  <2>4. ASSUME NEW b \in S PROVE ~ Before(a, b)
    <3>1. End - b.at \in A
        BY <1>1, Changes
    <3>2. n <= End - b.at
        BY <3>1, <2>2
    <3>3. a \in Times /\ b \in Times
        OBVIOUS
    <3> QED BY <3>2, <3>3, <2>3, <1>1, TimesOrder, Changes
  <2> QED BY <2>4
<1> QED BY <1>2, <1>3 DEF First, Final

\* An answer that a jitter or an end date has changed.
LEMMA AnswerIs ==
    ASSUME NEW part, CronPart(part), NEW dt \in Times, NEW d \in 0..part.jitter,
           ~ Overflows(Jittered(part, dt, d))
    PROVE  LET j == Jittered(part, dt, d)
               a == IF part.end = None THEN j ELSE Earliest(j, part.end)
           IN  /\ a \in Times
               /\ \/ a = dt
                  \/ part.jitter > 0 /\ a = Local(a.at, 0) /\ dt.at <= a.at
                  \/ a = part.end /\ part.end # None /\ Before(a, j)
<1>1. part.jitter \in Nat /\ part.end \in Moments
    BY CronPartIs
<1> DEFINE j == Jittered(part, dt, d)
           a == IF part.end = None THEN j ELSE Earliest(j, part.end)
<1>2. j \in Times /\ (j = dt \/ (part.jitter > 0 /\ j = Local(j.at, 0) /\ dt.at <= j.at))
  <2>1. CASE part.jitter = 0
      BY <2>1 DEF Jittered
  <2>2. CASE part.jitter # 0
    <3>1. j = Local(dt.at + d, 0)
      <4>1. dt = Local(dt.at, dt.fold)
          BY TimeIs
      <4>2. d \in Nat /\ dt.at \in Int
          BY <1>1, TimeIs
      <4>3. Plus(Local(dt.at, dt.fold), d) = Local(dt.at + d, 0)
        <5> DEFINE r == Local(dt.at, dt.fold)
                   q == [r EXCEPT !.at = dt.at + d]
        <5>1. q = Local(dt.at + d, dt.fold)
            BY DEF Local
        <5>2. [q EXCEPT !.fold = 0] = Local(dt.at + d, 0)
          <6> HIDE DEF q
          <6> QED BY <5>1 DEF Local
        <5>3. r.at = dt.at
            BY DEF Local
        <5> QED BY <5>2, <5>3 DEF Plus
      <4>4. j = Plus(dt, d)
          BY <2>2 DEF Jittered
      <4> QED BY <4>1, <4>3, <4>4
    <3>2. j.at = dt.at + d /\ dt.at + d < End /\ dt.at \in Nat /\ d \in Nat
        BY <1>1, <3>1, LocalIs, TimeIs, Changes DEF Overflows
    <3>3. dt.at + d \in Wall
        BY <3>2, Changes DEF Wall
    <3> QED BY <3>1, <3>2, <3>3, <2>2, <1>1, TimesAre
  <2> QED BY <2>1, <2>2
<1> HIDE DEF j
<1>3. CASE part.end = None
    BY <1>2, <1>3 DEF j
<1>4. CASE part.end # None
  <2>1. part.end \in Times
      BY <1>1, <1>4, MomentsAre
  <2>2. a = IF Before(part.end, j) THEN part.end ELSE j
      BY <1>4 DEF Earliest
  <2> QED BY <2>1, <2>2, <1>2, <1>4 DEF j
<1> QED BY <1>3, <1>4

-----------------------------------------------------------------------------
(* Type correctness.                                                       *)

LEMMA TypeInit == Init => TypeInv
<1> SUFFICES ASSUME Init PROVE TypeInv
    OBVIOUS
<1>1. trig \in Triggers /\ answers = <<>> /\ pc = "ask" /\ prev = None
    BY DEF Init
<1>2. clock \in Wall
    BY BoundsAssumption DEF Init, Wall
<1>3. now \in Readings
    BY <1>2 DEF Init, Other, Readings
<1>4. answers \in Seq(Times \cup {None}) /\ Len(answers) = 0
    BY <1>1
<1>5. Len(trig.parts) \in Nat
    BY <1>1, PartsAre
<1> QED BY <1>1, <1>2, <1>3, <1>4, <1>5 DEF Init, TypeInv, States

\* Local and fixed-offset times as local ones.
LEMMA AsLocalIs ==
    ASSUME NEW dt \in Readings
    PROVE  AsLocal(dt).at \in Wall
<1>1. CASE dt.zone = "local"
    BY <1>1 DEF AsLocal, Readings
<1>2. CASE dt.zone = "other"
  <2>1. dt.at \in Nat /\ dt.at < End
      BY Changes DEF Readings, Wall
  <2>2. FromTimestamp(dt.at) \in Times
      BY <2>1, RoundTrip
  <2>3. AsLocal(dt).at = FromTimestamp(dt.at).at
      BY <1>2, <2>2 DEF AsLocal, Times
  <2> QED BY <2>2, <2>3, TimeIs
<1> QED BY <1>1, <1>2 DEF Readings

LEMMA MonthNumberIs ==
    ASSUME NEW date \in Dates
    PROVE  MonthNumber(date) \in Nat
<1>1. date.year \in Years /\ date.month \in Months
    BY DatesAre
<1>2. MonthNumber(date) = (date.year - 1) * Len(MonthDays[1]) + date.month - 1
    BY DEF MonthNumber, MaxValue
<1>3. date.year - 1 \in Nat /\ date.month - 1 \in Nat /\ Len(MonthDays[1]) \in Nat
    BY <1>1, MonthLengths DEF Years, Months
<1>4. (date.year - 1) * Len(MonthDays[1]) \in Nat
    BY <1>3
<1> QED BY <1>2, <1>3, <1>4

\* A call begins with its first part, or goes on with the next one.
LEMMA TypeAsk ==
    ASSUME TypeInv, Ask
    PROVE  TypeInv'
<1>1. /\ Len(answers) < Len(trig.parts)
      /\ UNCHANGED <<trig, stored, clock, fires, prev, now, answers, earlier>>
    BY DEF Ask
<1>2. Part' = Part
    BY <1>1 DEF Part
<1>3. /\ Part.kind = "cron" => CronPart(Part)
      /\ Part.kind = "calendar" => CalendarPart(Part)
    BY <1>1, PartIs
<1>4. CASE AskCron
  <2>1. Start(Part) \in Moving
      BY <1>3, <1>4, StartIs DEF AskCron
  <2>2. next' = AsLocal(Ceil(Start(Part))) /\ fieldnum' = 1
      BY <1>4 DEF AskCron
  <2>3. CASE Overflows(next')
    <3>1. pc' = "raised"
        BY <1>4, <2>3 DEF AskCron
    <3> QED BY <3>1, <1>1 DEF TypeInv, States
  <2>4. CASE ~ Overflows(next')
    <3>1. pc' = "cron"
        BY <1>4, <2>4 DEF AskCron
    <3>2. next' \in Times
        BY <2>1, <2>2, <2>4, BeginIs
    <3>3. Part'.kind = "cron"
        BY <1>2, <1>4 DEF AskCron
    <3> QED BY <3>1, <3>2, <3>3, <2>2, <1>1 DEF TypeInv, States
  <2> QED BY <2>3, <2>4
<1>5. CASE AskCalendar
  <2>1. Part'.kind = "calendar" /\ CalendarPart(Part)
      BY <1>2, <1>3, <1>5 DEF AskCalendar
  <2>2. CASE prev = None
    <3>1. pc' = "calendar" /\ next' = Part.start
        BY <1>5, <2>2 DEF AskCalendar
    <3>2. Part.start \in Times /\ Part.start = Local(Part.start.at, 0) /\ Part.start.at % Day = 0
        BY <2>1, CalendarPartIs, MomentsAre
    <3>3. Part.start.at \in Nat
        BY <3>2, TimeIs
    <3> QED BY <3>1, <3>2, <3>3, <2>1, <1>1 DEF TypeInv, States
  <2>3. CASE prev # None
    <3>1. pc' = "months" /\ since' = DateAt(AsLocal(prev).at) /\ fieldnum' = MonthNumber(since')
        BY <1>5, <2>3 DEF AskCalendar
    <3>2. AsLocal(prev).at \in Wall
        BY <2>3, AsLocalIs DEF TypeInv
    <3>3. since' \in Dates
        BY <3>1, <3>2, WallDate
    <3>4. MonthNumber(since') \in Nat
        BY <3>3, MonthNumberIs
    <3>5. fieldnum' \in Nat /\ MonthNumber(since)' <= fieldnum'
        BY <3>1, <3>4 DEF MonthNumber
    <3> QED BY <3>1, <3>3, <3>5, <2>1, <1>1 DEF TypeInv, States
  <2> QED BY <2>2, <2>3
<1> QED BY <1>4, <1>5 DEF Ask

\* An answer is one more time, or None.
LEMMA TypeAnswer ==
    ASSUME TypeInv, Len(answers) < Len(trig.parts),
           NEW dt \in Times \cup {None}, Answer(dt), UNCHANGED <<trig, stored, clock, now, prev>>
    PROVE  TypeInv'
<1>1. answers \in Seq(Times \cup {None}) /\ trig \in Triggers
    BY DEF TypeInv
<1>2. Len(trig.parts) \in Nat
    BY <1>1, PartsAre
<1>3. answers' = Append(answers, dt) /\ pc' = "ask"
    BY DEF Answer
<1>4. answers' \in Seq(Times \cup {None}) /\ Len(answers') = Len(answers) + 1
    BY <1>1, <1>3
<1>5. Len(answers) \in Nat
    BY <1>1
<1>6. Len(answers') <= Len(trig.parts)
    BY <1>2, <1>4, <1>5
<1> QED BY <1>3, <1>4, <1>6 DEF TypeInv, States

LEMMA TypeCronTurn ==
    ASSUME TypeInv, CronTurn
    PROVE  TypeInv'
<1>1. /\ pc = "cron" /\ fieldnum \in 1..7 /\ next' = Turn(Part)[1] /\ fieldnum' = Turn(Part)[2]
      /\ UNCHANGED <<trig, stored, clock, now, prev>>
    BY Names DEF CronTurn
<1>2. next' \in Times /\ fieldnum' \in 0..8
    BY <1>1, TurnIs
<1>3. Len(answers) < Len(trig.parts) /\ Part.kind = "cron"
    BY <1>1 DEF TypeInv
<1>4. CASE PastEnd(Part, next')
  <2>1. Answer(None)
      BY <1>4 DEF CronTurn
  <2> QED BY <2>1, <1>1, <1>3, TypeAnswer
<1>5. CASE ~ PastEnd(Part, next')
  <2>1. UNCHANGED <<answers, pc>>
      BY <1>5 DEF CronTurn
  <2>2. Part' = Part
      BY <2>1, <1>1 DEF Part
  <2> QED BY <2>1, <2>2, <1>1, <1>2, <1>3 DEF TypeInv
<1> QED BY <1>4, <1>5

LEMMA TypeCronAnswers ==
    ASSUME TypeInv, CronAnswers
    PROVE  TypeInv'
<1>1. /\ pc = "cron" /\ fieldnum \notin 1..7
      /\ UNCHANGED <<trig, stored, clock, fires, prev, now, search, earlier>>
    BY Names DEF CronAnswers
<1>2. /\ Len(answers) < Len(trig.parts) /\ CronPart(Part)
      /\ next \in Times /\ fieldnum \in 0..8
    BY <1>1, PartIs DEF TypeInv
<1>3. CASE fieldnum = 0
  <2>1. Answer(None)
      BY <1>3 DEF CronAnswers
  <2> QED BY <2>1, <1>1, <1>2, TypeAnswer
<1>4. CASE fieldnum # 0
  <2>1. PICK d \in 0..Part.jitter :
            LET dt == Jittered(Part, next, d)
            IN  IF Overflows(dt)
                THEN pc' = "raised" /\ UNCHANGED answers
                ELSE Answer(IF Part.end = None THEN dt ELSE Earliest(dt, Part.end))
      BY <1>4 DEF CronAnswers
  <2>2. CASE Overflows(Jittered(Part, next, d))
      BY <2>1, <2>2, <1>1 DEF TypeInv, States
  <2>3. CASE ~ Overflows(Jittered(Part, next, d))
    <3> DEFINE a == IF Part.end = None THEN Jittered(Part, next, d)
                    ELSE Earliest(Jittered(Part, next, d), Part.end)
    <3>1. Answer(a)
        BY <2>1, <2>3
    <3>2. a \in Times
        BY <2>3, <1>2, AnswerIs
    <3> HIDE DEF a
    <3> QED BY <3>1, <3>2, <1>1, <1>2, TypeAnswer
  <2> QED BY <2>2, <2>3
<1> QED BY <1>3, <1>4

LEMMA QuotientNat ==
    ASSUME NEW x \in Nat, NEW d \in Nat \ {0}
    PROVE  x \div d \in Nat
<1> DEFINE q == x \div d
<1>1. q \in Int /\ x % d \in 0..(d - 1) /\ x = (d * q) + (x % d)
    BY DivMod
<1> HIDE DEF q
<1>2. ASSUME q < 0 PROVE FALSE
  <2>1. d * q \in Int /\ d * q + d <= d * 0
      BY <1>1, <1>2, MulMono
  <2>2. d * 0 = 0
      OBVIOUS
  <2> QED BY <2>1, <2>2, <1>1
<1> QED BY <1>1, <1>2 DEF q

\* A month that is reached by counting months from the first of all.
LEMMA MonthReached ==
    ASSUME NEW at \in Nat, NEW date \in Dates,
           at \div MaxValue("month") + 1 <= MaxValue("year"),
           date.day \in 1..MonthDays[at \div MaxValue("month") + 1][(at % MaxValue("month")) + 1]
    PROVE  DateIs(at \div MaxValue("month") + 1, (at % MaxValue("month")) + 1, date.day) \in Dates
<1>1. MaxValue("month") = Len(MonthDays[1]) /\ MaxValue("year") = Len(MonthDays)
    BY DEF MaxValue
<1>2. Len(MonthDays[1]) \in Nat \ {0} /\ Len(MonthDays) \in Nat
    BY MonthLengths
<1> DEFINE q == at \div MaxValue("month")  r == at % MaxValue("month")
<1>3. q \in Nat /\ r \in 0..(Len(MonthDays[1]) - 1)
  <2>1. MaxValue("month") \in Nat \ {0}
      BY <1>1, <1>2
  <2>2. q \in Nat
      BY <2>1, QuotientNat
  <2>3. r \in 0..(MaxValue("month") - 1)
    <3> DEFINE n == MaxValue("month")
    <3>1. n \in Nat \ {0}
        BY <2>1
    <3> HIDE DEF n
    <3>2. at % n \in 0..(n - 1)
        BY <3>1
    <3> QED BY <3>2 DEF n
  <2> QED BY <2>2, <2>3, <1>1
<1>4. q + 1 <= Len(MonthDays)
    BY <1>1
<1> HIDE DEF q, r
<1>5. q + 1 \in Years /\ r + 1 \in Months
    BY <1>2, <1>3, <1>4 DEF Years, Months
<1> QED BY <1>5, DatesAre DEF q, r

LEMMA TypeAddMonths ==
    ASSUME TypeInv, AddMonths
    PROVE  TypeInv'
<1>1. /\ pc = "months"
      /\ UNCHANGED <<trig, stored, clock, fires, prev, now, answers, since, start, earlier>>
    BY DEF AddMonths
<1>2. /\ Len(answers) < Len(trig.parts) /\ CalendarPart(Part) /\ Part.kind = "calendar"
      /\ since \in Dates /\ fieldnum \in Nat /\ MonthNumber(since) <= fieldnum
    BY <1>1, PartIs DEF TypeInv
<1>3. Part' = Part /\ MonthNumber(since)' = MonthNumber(since)
    BY <1>1 DEF Part, MonthNumber
<1>4. /\ Part.months \in Nat /\ Part.days \in Nat
      /\ fieldnum + Part.months \in Nat /\ MonthNumber(since) \in Nat
    BY <1>2, CalendarPartIs, MonthNumberIs
<1> DEFINE at == fieldnum + Part.months
           year == at \div MaxValue("month") + 1
           month == (at % MaxValue("month")) + 1
<1>5. CASE year > MaxValue("year")
  <2>1. UNCHANGED <<next, fieldnum, pc>>
      BY <1>5 DEF AddMonths
  <2> QED BY <2>1, <1>1, <1>2, <1>3 DEF TypeInv
<1>6. CASE ~(year > MaxValue("year")) /\ since.day \in 1..MonthDays[year][month]
  <2>1. /\ next' = Local(Midnight(year, month, since.day) + Part.days * Day, 0)
        /\ pc' = "calendar"
      BY <1>6 DEF AddMonths
  <2>2. year <= MaxValue("year")
    <3>1. MaxValue("month") \in Nat \ {0} /\ MaxValue("year") \in Nat
        BY MonthLengths DEF MaxValue
    <3>2. year \in Nat
        BY <3>1, <1>4
    <3> HIDE DEF year
    <3> QED BY <3>1, <3>2, <1>6
  <2>3. DateIs(year, month, since.day) \in Dates
      BY <2>2, <1>2, <1>4, <1>6, MonthReached
  <2> DEFINE n == Number[DateIs(year, month, since.day)]
  <2>4. n \in Nat /\ Midnight(year, month, since.day) = Day * n
      BY <2>3, NumberOrder, DateIsWall
  <2> HIDE DEF n, year, month
  <2>5. Day \in Nat \ {0} /\ Part.days * Day = Day * Part.days
      BY <1>4, UnitsAre
  <2>6. next'.at = Day * (n + Part.days) /\ next' = Local(next'.at, 0)
      BY <2>1, <2>4, <2>5, <1>4, LocalIs
  <2>7. n + Part.days \in Nat /\ (Day * (n + Part.days) + 0) % Day = 0
    <3>1. n + Part.days \in Int /\ 0 \in 0..(Day - 1)
        BY <2>4, <2>5, <1>4
    <3>2. (Day * (n + Part.days) + 0) % Day = 0
        BY <3>1, <2>5, DivUnique
    <3> QED BY <3>2, <2>4, <1>4
  <2>8. next'.at \in Nat /\ next'.at % Day = 0
    <3> DEFINE k == n + Part.days
    <3>1. k \in Nat /\ (Day * k + 0) % Day = 0 /\ next'.at = Day * k
        BY <2>6, <2>7
    <3> HIDE DEF k
    <3>2. Day * k \in Nat
        BY <3>1, <2>5
    <3>3. Day * k + 0 = Day * k
        BY <3>2
    <3> QED BY <3>1, <3>2, <3>3
  <2> QED BY <2>1, <2>6, <2>8, <1>1, <1>2, <1>3 DEF TypeInv, States
<1>7. CASE ~(year > MaxValue("year")) /\ ~(since.day \in 1..MonthDays[year][month])
  <2>1. fieldnum' = at /\ UNCHANGED <<next, pc>>
      BY <1>7 DEF AddMonths
  <2>2. at \in Nat /\ MonthNumber(since) <= at
      BY <1>2, <1>4
  <2> HIDE DEF at
  <2> QED BY <2>1, <2>2, <1>1, <1>2, <1>3 DEF TypeInv
<1> QED BY <1>5, <1>6, <1>7

\* The time of day on a date.
LEMMA OnDate ==
    ASSUME NEW at \in Nat, at < End, at % Day = 0, NEW time \in 0..(Day - 1)
    PROVE  /\ at + time \in Wall
           /\ (at + time) \div Day = at \div Day
           /\ (at + time) % Day = time
           /\ at = Day * (at \div Day)
<1>1. at \in Wall
    BY Changes DEF Wall
<1>2. DateAt(at) \in Dates /\ at = Day * Number[DateAt(at)] + 0 /\ Number[DateAt(at)] = at \div Day
    BY <1>1, WallDate
<1>3. Day * Number[DateAt(at)] \in Nat
    BY <1>2, DateWall, UnitsAre
<1>4. at = Day * Number[DateAt(at)]
    BY <1>2, <1>3
<1>5. /\ Day * Number[DateAt(at)] + time \in Wall
      /\ (Day * Number[DateAt(at)] + time) \div Day = Number[DateAt(at)]
      /\ (Day * Number[DateAt(at)] + time) % Day = time
    BY <1>2, DateWall
<1> QED BY <1>2, <1>4, <1>5

LEMMA TypeCalendarTurn ==
    ASSUME TypeInv, CalendarTurn
    PROVE  TypeInv'
<1>1. /\ pc = "calendar"
      /\ UNCHANGED <<trig, stored, clock, fires, prev, now, next, start, earlier>>
    BY DEF CalendarTurn
<1>2. /\ Len(answers) < Len(trig.parts) /\ CalendarPart(Part) /\ Part.kind = "calendar"
      /\ next = Local(next.at, 0) /\ next.at \in Nat /\ next.at % Day = 0
    BY <1>1, PartIs DEF TypeInv
<1> DEFINE dt == FromTimestamp(Timestamp(next.at + Part.time, 0))
<1>3. CASE Overflows(next)
  <2>1. pc' = "raised" /\ UNCHANGED <<answers, since, fieldnum>>
      BY <1>3 DEF CalendarTurn
  <2> QED BY <2>1, <1>1 DEF TypeInv, States
<1>4. CASE ~ Overflows(next) /\ PastEnd(Part, next)
  <2>1. Answer(None)
      BY <1>4 DEF CalendarTurn
  <2> QED BY <2>1, <1>1, <1>2, TypeAnswer
<1>5. CASE ~ Overflows(next) /\ ~ PastEnd(Part, next)
  <2>1. next.at + Part.time \in Wall
    <3>1. next.at < End /\ Part.time \in 0..(Day - 1)
        BY <1>2, <1>5, CalendarPartIs, Changes DEF Overflows
    <3> QED BY <3>1, <1>2, OnDate
  <2>2. dt \in Times
    <3>1. /\ Timestamp(next.at + Part.time, 0) \in Nat
          /\ Timestamp(next.at + Part.time, 0) <= next.at + Part.time
        BY <2>1, InstantIs
    <3>2. Timestamp(next.at + Part.time, 0) < End
        BY <2>1, <3>1, Changes DEF Wall
    <3> QED BY <3>1, <3>2, RoundTrip
  <2>3. IF TimeExists(dt, Part.time)
        THEN Answer(dt) /\ UNCHANGED <<since, fieldnum>>
        ELSE /\ since' = DateAt(dt.at)
             /\ fieldnum' = MonthNumber(since')
             /\ pc' = "months"
             /\ UNCHANGED answers
    <3> HIDE DEF dt
    <3> QED BY <1>5 DEF CalendarTurn, dt
  <2> HIDE DEF dt
  <2>4. CASE TimeExists(dt, Part.time)
    <3>1. Answer(dt)
        BY <2>3, <2>4
    <3> QED BY <3>1, <2>2, <1>1, <1>2, TypeAnswer
  <2>5. CASE ~ TimeExists(dt, Part.time)
    <3>1. since' = DateAt(dt.at) /\ fieldnum' = MonthNumber(since') /\ pc' = "months" /\ answers' = answers
        BY <2>3, <2>5
    <3>2. since' \in Dates
        BY <3>1, <2>2, TimeIs, WallDate
    <3>3. fieldnum' \in Nat /\ MonthNumber(since)' <= fieldnum'
        BY <3>1, <3>2, MonthNumberIs DEF MonthNumber
    <3>4. Part' = Part
        BY <3>1, <1>1 DEF Part
    <3> QED BY <3>1, <3>2, <3>3, <3>4, <1>1, <1>2 DEF TypeInv, States
  <2> QED BY <2>4, <2>5
<1> QED BY <1>3, <1>4, <1>5

\* Nothing has been answered but times, or one of the parts is over.
LEMMA AnsweredIs ==
    ASSUME TypeInv, Len(answers) = Len(trig.parts)
    PROVE  /\ Answered \subseteq Times \cup {None} /\ Answered # {}
           /\ answers[1] \in Answered
           /\ ~ NoFireTime /\ trig.mode # "or" => Answered \subseteq Times
           /\ ~ NoFireTime /\ trig.mode = "or" => Answered \ {None} \subseteq Times
                                                 /\ Answered \ {None} # {}
<1>1. answers \in Seq(Times \cup {None}) /\ Len(trig.parts) \in Nat \ {0}
    BY PartsAre DEF TypeInv
<1>2. DOMAIN answers = 1..Len(answers) /\ 1 \in DOMAIN answers
    BY <1>1
<1>3. Answered \subseteq Times \cup {None}
    BY <1>1, <1>2 DEF Answered
<1>4. answers[1] \in Answered
    BY <1>2 DEF Answered
<1> QED BY <1>3, <1>4 DEF NoFireTime

LEMMA TypeAskAgain ==
    ASSUME TypeInv, AskAgain
    PROVE  TypeInv'
<1>1. /\ pc = "ask" /\ Len(answers) = Len(trig.parts) /\ ~ NoFireTime /\ trig.mode = "and"
      /\ now' = Final(Answered) /\ answers' = <<>>
      /\ UNCHANGED <<trig, stored, clock, prev, pc>>
    BY DEF AskAgain, Agreed
<1>2. Answered \subseteq Times /\ Answered # {}
    BY <1>1, AnsweredIs
<1>3. now' \in Readings
    BY <1>1, <1>2, FirstAndFinal, MovingIs
<1>4. answers' \in Seq(Times \cup {None}) /\ Len(answers') = 0 /\ Len(trig.parts) \in Nat
    BY <1>1, PartsAre DEF TypeInv
<1> QED BY <1>1, <1>3, <1>4 DEF TypeInv

LEMMA TypeFound ==
    ASSUME TypeInv, Found
    PROVE  TypeInv' /\ next' \in Answered \ {None}
<1>1. /\ pc = "ask" /\ Len(answers) = Len(trig.parts) /\ ~ NoFireTime /\ pc' = "found"
      /\ next' = IF trig.mode = "or" THEN First(Answered \ {None}) ELSE answers[1]
      /\ UNCHANGED <<trig, stored, clock, prev, now, answers>>
    BY DEF Found
<1>2. next' \in Times /\ next' \in Answered \ {None}
  <2>1. CASE trig.mode = "or"
    <3>1. Answered \ {None} \in SUBSET Times /\ Answered \ {None} # {}
        BY <2>1, <1>1, AnsweredIs
    <3> QED BY <3>1, <2>1, <1>1, FirstAndFinal
  <2>2. CASE trig.mode # "or"
    <3>1. answers[1] \in Times
        BY <2>2, <1>1, AnsweredIs
    <3> QED BY <3>1, <2>2, <1>1, AnsweredIs, MovingIs
  <2> QED BY <2>1, <2>2
<1> QED BY <1>1, <1>2 DEF TypeInv, States

\* What the store has kept is the fire time, at the same instant.
LEMMA KeptIs ==
    ASSUME TypeInv, next \in Times
    PROVE  /\ Kept(next) \in Readings /\ Kept(next).past = 0 /\ Kept(next) # None
           /\ Instant(Kept(next)) = Instant(next)
           /\ Kept(next).zone = "local" => Kept(next) = next
           /\ Instant(next) \in Wall
<1>1. Instant(next) = Timestamp(next.at, next.fold)
    BY TimeIs DEF Instant
<1>2. Instant(next) \in Wall
  <2>1. Instant(next) \in Nat /\ Instant(next) <= next.at
      BY <1>1, InstantIs, TimeIs
  <2> QED BY <2>1, TimeIs, Changes DEF Wall
<1>3. CASE stored = "object"
    BY <1>2, <1>3, TimeIs, MovingIs DEF Kept
<1>4. CASE stored # "object"
  <2>1. Kept(next) = Other(Instant(next))
      BY <1>4 DEF Kept
  <2>2. Other(Instant(next)) \in Readings
      BY <1>2 DEF Other, Readings
  <2> HIDE DEF Readings
  <2>3. /\ Other(Instant(next)).past = 0 /\ Other(Instant(next)).zone = "other"
        /\ Instant(Other(Instant(next))) = Instant(next)
        /\ Other(Instant(next)) # None
    <3> DEFINE i == Instant(next)
    <3> HIDE DEF i
    <3>1. Instant(Other(i)) = i
        BY DEF Instant, Other
    <3> QED BY <3>1 DEF Other, None, i
  <2> QED BY <2>1, <2>2, <2>3, <1>2
<1> QED BY <1>3, <1>4

\* The loop's clock.
LEMMA LoopNowIs ==
    ASSUME NEW t \in Nat, t < End
    PROVE  /\ LoopNow(t) \in Readings
           /\ LoopNow(t) = [zone |-> "local", at |-> FromTimestamp(t).at,
                            fold |-> FromTimestamp(t).fold, past |-> 2]
<1>1. FromTimestamp(t) \in Times
    BY RoundTrip
<1>2. LoopNow(t) = [zone |-> "local", at |-> FromTimestamp(t).at,
                    fold |-> FromTimestamp(t).fold, past |-> 2]
    BY <1>1 DEF LoopNow, Times
<1> QED BY <1>1, <1>2 DEF Times, Readings

LEMMA TypeFire ==
    ASSUME TypeInv, Fire
    PROVE  TypeInv'
<1>1. /\ pc = "found" /\ next \in Times
      /\ prev' = Kept(next) /\ now' = LoopNow(clock') /\ answers' = <<>> /\ pc' = "ask"
      /\ UNCHANGED <<trig, stored>>
    BY DEF Fire, TypeInv
<1>2. /\ clock' \in clock..GreatestOf({clock, Instant(next) + Delay})
      /\ clock' < End
    BY DEF Fire
<1>3. clock' \in Nat
  <2>1. clock \in Nat
      BY Changes DEF TypeInv, Wall
  <2>2. clock' \in Int /\ clock <= clock'
      BY <1>2
  <2> QED BY <2>1, <2>2
<1>4. now' \in Readings
    BY <1>1, <1>2, <1>3, LoopNowIs
<1>5. clock' \in Wall
    BY <1>2, <1>3, Changes DEF Wall
<1>6. answers' \in Seq(Times \cup {None}) /\ Len(answers') = 0 /\ Len(trig.parts) \in Nat
    BY <1>1, PartsAre DEF TypeInv
<1> QED BY <1>1, <1>4, <1>5, <1>6, KeptIs DEF TypeInv, States

LEMMA TypeStep ==
    ASSUME TypeInv, [Next]_vars
    PROVE  TypeInv'
<1>1. CASE Over
    BY <1>1 DEF Over, TypeInv, States
<1>2. CASE UNCHANGED vars
    BY <1>2 DEF vars, search, TypeInv, States, Part
<1> QED BY <1>1, <1>2, TypeAsk, TypeCronTurn, TypeCronAnswers, TypeAddMonths,
           TypeCalendarTurn, TypeAskAgain, TypeFound, TypeFire DEF Next, Turns

\* The search never has a value of a wrong kind: while it works on a part, that
\* part is of the kind its loop is for, next_date is a time that exists in the
\* calendar, and a month is only counted on from the one of an earlier fire time.
THEOREM TypeCorrect == Spec => []TypeInv
<1>1. Init => TypeInv
    BY TypeInit
<1>2. TypeInv /\ [Next]_vars => TypeInv'
    BY TypeStep
<1> QED BY <1>1, <1>2, PTL DEF Spec

-----------------------------------------------------------------------------
(* Fire times go forward.                                                  *)

\* A job's fire times go forward, provided that the hour that occurs twice is on
\* one date.
RepeatedOnOneDate == (Back % Day) + Hour <= Day

\* dt is after the instant p, and so is the time a later reading is of.
Ahead(p, dt) ==
    /\ p < Instant(dt)
    /\ dt.fold = 0 /\ Skipped(dt.at) => p < Forward

\* With a jitter, it may be the first of two equal readings.
Later(p, jittery, dt) ==
    \/ Ahead(p, dt)
    \/ jittery /\ Repeated(dt.at) /\ p < Back + Hour

Jittery(t) == \E i \in DOMAIN t.parts : t.parts[i].jitter > 0

LaterThanPrev(dt) == Later(Instant(prev), Jittery(trig), dt)

ForwardInv ==
    /\ pc = "cron" /\ fieldnum # 1 => ~ PastEnd(Part, next)
    /\ prev # None /\ ~ Doubtful(prev) =>
           /\ \A i \in DOMAIN answers : answers[i] # None => LaterThanPrev(answers[i])
           /\ \/ now.past = 2 /\ Before(JustAfter(prev), now)
              \/ now \in Times /\ LaterThanPrev(now)
           /\ (pc = "cron" /\ fieldnum # 0) \/ pc = "found" => LaterThanPrev(next)
           /\ pc = "months" => AsLocal(prev).at \div Day <= Number[since]
           /\ pc = "calendar" => Day * (AsLocal(prev).at \div Day) + Day <= next.at

\* A later reading stays later: a field that is set, or a time that is moved on.
LEMMA AheadByReading ==
    ASSUME NEW p \in Int, NEW jittery \in BOOLEAN, NEW a \in Times, NEW b \in Times,
           Later(p, jittery, a), a.at < b.at, b.fold = a.fold
    PROVE  Later(p, jittery, b)
<1>1. /\ a = Local(a.at, a.fold) /\ b = Local(b.at, b.fold) /\ a.fold \in {0, 1}
      /\ a.at \in Wall /\ b.at \in Wall /\ (a.fold = 1 => Back <= a.at)
    BY TimeIs
<1>2. Instant(a) = Timestamp(a.at, a.fold) /\ Instant(b) = Timestamp(b.at, a.fold)
    BY <1>1, LocalIs
<1>3. a.at \in Nat /\ b.at \in Nat
    BY <1>1, Changes DEF Wall
<1>4. CASE Ahead(p, a)
  <2>1. p < Timestamp(a.at, a.fold) /\ (a.fold = 0 /\ Skipped(a.at) => p < Forward)
      BY <1>2, <1>4 DEF Ahead
  <2>2. p < Timestamp(b.at, a.fold) /\ (a.fold = 0 /\ Skipped(b.at) => p < Forward)
      BY <2>1, <1>1, <1>3, Changes DEF Timestamp, InSummer, Skipped
  <2> QED BY <2>2, <1>2 DEF Later, Ahead
<1>5. CASE jittery /\ Repeated(a.at) /\ p < Back + Hour
  <2>1. CASE Repeated(b.at)
      BY <2>1, <1>5 DEF Later
  <2>2. CASE ~ Repeated(b.at)
    <3>1. Back + Hour <= b.at
        BY <2>2, <1>3, <1>5, Changes DEF Repeated
    <3>2. Timestamp(b.at, a.fold) = b.at /\ ~ Skipped(b.at)
        BY <3>1, <1>1, <1>3, Changes DEF Timestamp, InSummer, Skipped
    <3> QED BY <3>1, <3>2, <1>2, <1>3, <1>5, Changes DEF Later, Ahead
  <2> QED BY <2>1, <2>2
<1> QED BY <1>4, <1>5 DEF Later

LEMMA AheadByInstant ==
    ASSUME NEW p \in Int, NEW jittery \in BOOLEAN, NEW a \in Times, NEW b \in Times,
           Later(p, jittery, a), Instant(a) < Instant(b),
           Instant(b) \in Nat, Instant(b) < End, b = FromTimestamp(Instant(b))
    PROVE  Later(p, jittery, b)
<1>1. /\ a = Local(a.at, a.fold) /\ a.fold \in {0, 1} /\ a.at \in Wall
      /\ (a.fold = 1 => Back <= a.at) /\ Instant(a) = Timestamp(a.at, a.fold)
    BY TimeIs, LocalIs
<1>2. Instant(a) \in Int /\ a.at \in Nat
    BY <1>1, InstantIs, Changes DEF Wall
<1> DEFINE t == Instant(b)
<1>3. t \in Nat /\ t < End /\ Instant(a) < t /\ b = FromTimestamp(t)
    OBVIOUS
<1>4. ~ Skipped(b.at)
    BY <1>3, RoundTrip
<1>5. CASE Ahead(p, a)
    BY <1>2, <1>3, <1>4, <1>5 DEF Later, Ahead
<1>6. CASE jittery /\ Repeated(a.at) /\ p < Back + Hour
  <2>1. Back - Hour <= t
      BY <1>1, <1>2, <1>3, <1>6, InstantIs, Changes DEF Repeated
  <2>2. CASE t < Back + Hour
    <3>1. b.at = IF t < Back THEN t + Hour ELSE t
        BY <1>3, <2>1, <2>2, Changes, LocalIs DEF FromTimestamp
    <3>2. Repeated(b.at)
        BY <3>1, <2>1, <2>2, <1>3, Changes DEF Repeated
    <3> QED BY <3>2, <1>6 DEF Later
  <2>3. CASE Back + Hour <= t
      BY <2>3, <1>3, <1>4, <1>6, Changes DEF Later, Ahead
  <2> QED BY <2>2, <2>3, <1>3, Changes
<1> QED BY <1>5, <1>6 DEF Later

\* ... a turn of the cron loop does one of the two.
LEMMA LaterBySteps ==
    ASSUME NEW p \in Int, NEW jittery \in BOOLEAN, NEW a \in Times, NEW b \in Times,
           Later(p, jittery, a), Steps(a, b)
    PROVE  Later(p, jittery, b)
<1>1. CASE b = a
    BY <1>1
<1>2. CASE b = Local(b.at, a.fold) /\ a.at < b.at
  <2>1. b.fold = a.fold
      BY <1>2, LocalIs
  <2> QED BY <2>1, <1>2, AheadByReading
<1>3. CASE /\ Instant(a) < Instant(b)
           /\ b = FromTimestamp(Instant(b)) /\ Instant(b) \in Nat /\ Instant(b) < End
    BY <1>3, AheadByInstant
<1> QED BY <1>1, <1>2, <1>3 DEF Steps

\* A reading that is not below a later one, when there is a jitter.
LEMMA LaterByJitter ==
    ASSUME NEW p \in Int, NEW a \in Times, NEW w \in Wall,
           Later(p, TRUE, a), a.at <= w
    PROVE  Later(p, TRUE, Local(w, 0))
<1> DEFINE b == Local(w, 0)
<1>1. b \in Times /\ b.at = w /\ b.fold = 0 /\ Instant(b) = Timestamp(w, 0)
    BY TimesAre, LocalIs
<1> HIDE DEF b
<1>2. /\ a = Local(a.at, a.fold) /\ a.fold \in {0, 1} /\ a.at \in Wall
      /\ (a.fold = 1 => Back <= a.at) /\ Instant(a) = Timestamp(a.at, a.fold)
    BY TimeIs, LocalIs
<1>3. a.at \in Nat /\ w \in Nat
    BY <1>2, Changes DEF Wall
<1>4. CASE a.at < w /\ a.fold = 0
    BY <1>1, <1>4, AheadByReading DEF b
<1>5. CASE a.at = w /\ a.fold = 0
    BY <1>2, <1>5
<1>6. CASE a.fold = 1 \/ ~ Ahead(p, a)
  <2>1. (Back <= a.at /\ p < a.at) \/ (Repeated(a.at) /\ p < Back + Hour)
    <3>1. CASE Ahead(p, a)
      <4>1. a.fold = 1 /\ Timestamp(a.at, 1) = a.at
          BY <3>1, <1>2, <1>3, <1>6, Changes DEF Timestamp, InSummer
      <4> QED BY <4>1, <3>1, <1>2 DEF Ahead
    <3>2. CASE ~ Ahead(p, a)
        BY <3>2 DEF Later
    <3> QED BY <3>1, <3>2
  <2>2. CASE w < Back + Hour
    <3>1. Repeated(w) /\ p < Back + Hour
        BY <2>1, <2>2, <1>3, Changes DEF Repeated
    <3> QED BY <3>1, <1>1 DEF Later, b
  <2>3. CASE Back + Hour <= w
    <3>1. Timestamp(w, 0) = w /\ ~ Skipped(w) /\ p < w
        BY <2>1, <2>3, <1>3, Changes DEF Timestamp, InSummer, Skipped, Repeated
    <3> QED BY <3>1, <1>1 DEF Later, Ahead, b
  <2>4. w < Back + Hour \/ Back + Hour <= w
      BY <1>3, Changes
  <2> QED BY <2>2, <2>3, <2>4
<1>7. a.fold = 1 \/ (a.fold = 0 /\ a.at < w) \/ (a.fold = 0 /\ a.at = w)
    BY <1>2, <1>3
<1> QED BY <1>4, <1>5, <1>6, <1>7

LEMMA JustAfterIs ==
    ASSUME NEW dt \in Moving
    PROVE  JustAfter(dt) = [zone |-> dt.zone, at |-> dt.at, fold |-> 0, past |-> 1]
<1> DEFINE r == [zone |-> dt.zone, at |-> dt.at, fold |-> dt.fold, past |-> dt.past]
           q == [r EXCEPT !.past = 1]
<1>1. dt = r
    BY DEF Moving
<1>2. q = [zone |-> dt.zone, at |-> dt.at, fold |-> dt.fold, past |-> 1]
    OBVIOUS
<1>3. [q EXCEPT !.fold = 0] = [zone |-> dt.zone, at |-> dt.at, fold |-> 0, past |-> 1]
  <2> HIDE DEF q
  <2> QED BY <1>2
<1> HIDE DEF r
<1>4. JustAfter(dt) = [q EXCEPT !.fold = 0]
    BY <1>1 DEF JustAfter
<1> QED BY <1>3, <1>4

\* A previous fire time that is not doubtful is what the clocks showed then.
LEMMA PrevIs ==
    ASSUME TypeInv, prev # None, ~ Doubtful(prev)
    PROVE  /\ prev \in Readings /\ prev.past = 0 /\ prev.zone \in {"local", "other"}
           /\ Instant(prev) \in Nat /\ Instant(prev) < End
           /\ AsLocal(prev) = FromTimestamp(Instant(prev))
           /\ prev.zone = "other" => Instant(prev) = prev.at
           /\ prev.zone = "local" => /\ Instant(prev) = Timestamp(prev.at, 0)
                                     /\ prev.at \in Wall /\ ~ Skipped(prev.at)
<1>1. prev \in Readings /\ prev.past = 0
    BY DEF TypeInv
<1>2. prev.zone \in {"local", "other"} /\ prev.at \in Wall /\ prev.fold \in {0, 1}
    BY <1>1 DEF Readings
<1>3. CASE prev.zone = "local"
  <2>1. prev.fold = 0 /\ FromTimestamp(Instant(prev)) = prev
      BY <1>2, <1>3 DEF Doubtful
  <2>2. Instant(prev) = Timestamp(prev.at, 0)
      BY <1>3, <2>1 DEF Instant
  <2>3. Instant(prev) \in Nat /\ Instant(prev) <= prev.at
      BY <1>2, <2>2, InstantIs
  <2>4. Instant(prev) < End
      BY <1>2, <2>3, Changes DEF Wall
  <2>5. ~ Skipped(prev.at)
      BY <2>1, <2>3, <2>4, RoundTrip
  <2> QED BY <1>1, <1>2, <1>3, <2>1, <2>2, <2>3, <2>4, <2>5 DEF AsLocal
<1>4. CASE prev.zone = "other"
  <2>1. Instant(prev) = prev.at
      BY <1>4 DEF Instant
  <2>2. prev.at \in Nat /\ prev.at < End
      BY <1>2, Changes DEF Wall
  <2>3. FromTimestamp(prev.at) \in Times
      BY <2>2, RoundTrip
  <2>4. AsLocal(prev) = FromTimestamp(prev.at)
      BY <1>1, <1>4, <2>3 DEF AsLocal, Times
  <2> QED BY <1>1, <1>2, <1>4, <2>1, <2>2, <2>4
<1> QED BY <1>2, <1>3, <1>4

\* A microsecond after the previous fire time, rounded up to a unit.
LEMMA NextUnitIsLater ==
    ASSUME TypeInv, prev # None, ~ Doubtful(prev), NEW jittery \in BOOLEAN,
           NEW dt \in Moving, dt.past = 1, dt.zone = prev.zone, dt.at = prev.at,
           ~ Overflows(AsLocal(Ceil(dt)))
    PROVE  Later(Instant(prev), jittery, AsLocal(Ceil(dt)))
<1> DEFINE c == AsLocal(Ceil(dt))  p == Instant(prev)
<1>1. /\ p \in Nat /\ p < End /\ prev.zone \in {"local", "other"}
      /\ prev.zone = "other" => p = prev.at
      /\ prev.zone = "local" => p = Timestamp(prev.at, 0) /\ prev.at \in Wall /\ ~ Skipped(prev.at)
    BY PrevIs
<1>2. /\ dt.zone = "local" => c = Local(dt.at + 1, 0)
      /\ dt.zone = "other" => c = FromTimestamp(dt.at + 1)
      /\ c \in Times
    BY BeginIs
<1> HIDE DEF c, p
<1>3. CASE prev.zone = "local"
  <2>1. c = Local(prev.at + 1, 0)
      BY <1>2, <1>3
  <2>2. prev.at + 1 \in Wall /\ prev.at < prev.at + 1
      BY <2>1, <1>1, <1>2, <1>3, LocalIs, TimeIs, Changes DEF Wall
  <2>3. /\ Timestamp(prev.at, 0) < Timestamp(prev.at + 1, 0)
        /\ Skipped(prev.at + 1) => Timestamp(prev.at, 0) < Forward
      BY <2>2, <1>1, <1>3, InstantOrder
  <2>4. Instant(c) = Timestamp(prev.at + 1, 0) /\ c.at = prev.at + 1
      BY <2>1, LocalIs
  <2> QED BY <2>3, <2>4, <1>1, <1>3 DEF Later, Ahead, c, p
<1>4. CASE prev.zone = "other"
  <2>1. c = FromTimestamp(p + 1)
      BY <1>1, <1>2, <1>4
  <2>2. p + 1 < End
    <3>1. CASE p + 1 = End
      <4>1. c = Local(End, 0)
          BY <2>1, <3>1, Changes DEF FromTimestamp
      <4>2. c.at = End
          BY <4>1, LocalIs
      <4> QED BY <4>2, <1>2, TimeIs, Changes
    <3> QED BY <3>1, <1>1, Changes
  <2>3. Instant(c) = p + 1 /\ ~ Skipped(c.at)
      BY <2>1, <2>2, <1>1, RoundTrip
  <2> QED BY <2>3, <1>1 DEF Later, Ahead, c, p
<1> QED BY <1>1, <1>3, <1>4

\* The search of a cron part begins after the previous fire time.
LEMMA StartIsLater ==
    ASSUME TypeInv, ForwardInv, prev # None, ~ Doubtful(prev), NEW part, CronPart(part),
           ~ Overflows(AsLocal(Ceil(Start(part))))
    PROVE  LaterThanPrev(AsLocal(Ceil(Start(part))))
<1> DEFINE after == Earliest(now, JustAfter(prev))
<1>1. /\ Start(part) \in Moving
      /\ Start(part) = IF Same(after, prev) THEN JustAfter(after) ELSE after
    BY StartIs
<1>2. prev \in Moving /\ now \in Moving /\ prev.past = 0 /\ prev.zone \in {"local", "other"}
      /\ Instant(prev) \in Nat
    BY PrevIs, MovingIs DEF TypeInv
<1>3. Jittery(trig) \in BOOLEAN
    BY DEF Jittery
<1>4. CASE Before(JustAfter(prev), now)
  <2>1. after = JustAfter(prev)
      BY <1>4 DEF Earliest
  <2>2. JustAfter(prev) = [zone |-> prev.zone, at |-> prev.at, fold |-> 0, past |-> 1]
      BY <1>2, JustAfterIs
  <2>3. prev.at \in Int
      BY <1>2, Changes DEF Moving, Wall
  <2>4. Before(prev, JustAfter(prev))
      BY <2>2, <2>3, <1>2 DEF Before
  <2>5. Start(part) = JustAfter(prev)
      BY <1>1, <2>1, <2>4 DEF Same
  <2>6. Start(part).past = 1 /\ Start(part).zone = prev.zone /\ Start(part).at = prev.at
      BY <2>2, <2>5
  <2> QED BY <2>6, <1>1, <1>3, NextUnitIsLater DEF LaterThanPrev
<1>5. CASE ~ Before(JustAfter(prev), now)
  <2>1. after = now /\ now \in Times /\ LaterThanPrev(now)
      BY <1>5 DEF Earliest, ForwardInv
  <2>2. now = Local(now.at, now.fold) /\ now.past = 0 /\ now.zone = "local"
        /\ now.at \in Wall /\ now.at \in Int
      BY <2>1, TimeIs
  <2>3. CASE ~ Same(now, prev)
    <3>1. Start(part) = now
        BY <1>1, <2>1, <2>3
    <3>2. AsLocal(Ceil(now)) = now
        BY <2>2 DEF Ceil, AsLocal
    <3> QED BY <3>1, <3>2, <2>1
  <2>4. CASE Same(now, prev)
    <3>1. Start(part) = JustAfter(now)
        BY <1>1, <2>1, <2>4
    <3>2. JustAfter(now) = [zone |-> "local", at |-> now.at, fold |-> 0, past |-> 1]
        BY <1>2, <2>2, JustAfterIs
    <3>3. JustAfter(now).past = 1 /\ JustAfter(now).zone = "local" /\ JustAfter(now).at = now.at
        BY <3>2
    <3>4. CASE prev.zone = "local"
      <4>1. prev.at \in Int
          BY <1>2, Changes DEF Moving, Wall
      <4>2. now.at = prev.at
          BY <2>2, <2>4, <3>4, <4>1 DEF Same, Before
      <4> QED BY <4>2, <3>1, <3>3, <3>4, <1>1, <1>3, NextUnitIsLater DEF LaterThanPrev
    <3>5. CASE prev.zone = "other"
      <4>1. Instant(now) \in Int
          BY <2>1, <2>2, InstantIs, LocalIs, TimeIs
      <4>2. Instant(now) = Instant(prev)
          BY <2>2, <2>4, <3>5, <4>1, <1>2 DEF Same, Before
      <4>3. Jittery(trig) /\ Repeated(now.at) /\ Instant(prev) < Back + Hour
          BY <2>1, <4>1, <4>2 DEF LaterThanPrev, Later, Ahead
      <4> DEFINE c == AsLocal(Ceil(JustAfter(now)))
      <4>4. c = Local(now.at + 1, 0) /\ c \in Times
          BY <3>1, <3>3, <1>1, BeginIs
      <4> HIDE DEF c
      <4>5. c.at = now.at + 1 /\ c.fold = 0 /\ Instant(c) = Timestamp(now.at + 1, 0)
          BY <4>4, LocalIs
      <4>6. CASE now.at + 1 < Back + Hour
        <5>1. Repeated(c.at)
            BY <4>3, <4>5, <4>6, <2>2, Changes DEF Repeated
        <5> QED BY <5>1, <4>3, <3>1 DEF LaterThanPrev, Later, c
      <4>7. CASE ~(now.at + 1 < Back + Hour)
        <5>1. Timestamp(now.at + 1, 0) = now.at + 1 /\ ~ Skipped(c.at)
              /\ Instant(prev) < now.at + 1
            BY <4>3, <4>5, <4>7, <2>2, <1>2, Changes DEF Timestamp, InSummer, Skipped
        <5>2. Later(Instant(prev), Jittery(trig), c)
            BY <5>1, <4>5 DEF Later, Ahead
        <5> QED BY <5>2, <3>1 DEF LaterThanPrev, c
      <4> QED BY <4>6, <4>7
    <3> QED BY <3>4, <3>5, <1>2
  <2> QED BY <2>3, <2>4
<1> QED BY <1>4, <1>5

\* A step to another answer, with all the rest of the invariant as it was.
LEMMA ForwardAnswer ==
    ASSUME TypeInv, ForwardInv, NEW dt, Answer(dt), UNCHANGED <<trig, prev, now>>,
           prev # None /\ ~ Doubtful(prev) /\ dt # None => LaterThanPrev(dt)
    PROVE  ForwardInv'
<1>1. answers' = Append(answers, dt) /\ pc' = "ask" /\ UNCHANGED <<trig, prev, now>>
    BY DEF Answer
<1>2. \A i \in DOMAIN answers' : answers'[i] = dt \/ (i \in DOMAIN answers /\ answers'[i] = answers[i])
  <2>1. answers \in Seq(Times \cup {None})
      BY DEF TypeInv
  <2> QED BY <2>1, <1>1
<1>3. \A x : LaterThanPrev(x)' <=> LaterThanPrev(x)
    BY <1>1 DEF LaterThanPrev
<1>4. ASSUME prev # None, ~ Doubtful(prev)
      PROVE  /\ \A i \in DOMAIN answers' : answers'[i] # None => LaterThanPrev(answers[i])'
             /\ \/ now.past = 2 /\ Before(JustAfter(prev), now)
                \/ now \in Times /\ LaterThanPrev(now)
  <2>1. \A i \in DOMAIN answers' : answers'[i] # None => LaterThanPrev(answers'[i])
      BY <1>2, <1>4 DEF ForwardInv
  <2> QED BY <2>1, <1>1, <1>4 DEF ForwardInv, LaterThanPrev
<1> QED BY <1>1, <1>4 DEF ForwardInv, LaterThanPrev

LEMMA ForwardAsk ==
    ASSUME TypeInv, ForwardInv, Ask
    PROVE  ForwardInv'
<1>1. /\ Len(answers) < Len(trig.parts)
      /\ UNCHANGED <<trig, prev, now, answers>>
    BY DEF Ask
<1>2. CASE AskCron
  <2>1. CronPart(Part)
      BY <1>1, <1>2, PartIs DEF AskCron
  <2>2. /\ next' = AsLocal(Ceil(Start(Part))) /\ fieldnum' = 1
        /\ pc' = IF Overflows(next') THEN "raised" ELSE "cron"
      BY <1>2 DEF AskCron
  <2>3. prev # None /\ ~ Doubtful(prev) /\ pc' = "cron" => LaterThanPrev(next')
      BY <2>1, <2>2, StartIsLater
  <2> QED BY <2>2, <2>3, <1>1 DEF ForwardInv, LaterThanPrev
<1>3. CASE AskCalendar
  <2>1. CASE prev = None
      BY <2>1, <1>1, <1>3 DEF ForwardInv, AskCalendar
  <2>2. CASE prev # None
    <3>1. pc' = "months" /\ since' = DateAt(AsLocal(prev).at)
        BY <1>3, <2>2 DEF AskCalendar
    <3>2. AsLocal(prev).at \in Wall
        BY <2>2, AsLocalIs DEF TypeInv
    <3>3. Number[since'] = AsLocal(prev).at \div Day /\ Number[since'] \in Int
        BY <3>1, <3>2, WallDate
    <3>4. (AsLocal(prev).at \div Day)' <= Number[since]'
        BY <3>3, <1>1
    <3> QED BY <3>1, <3>4, <1>1 DEF ForwardInv, LaterThanPrev
  <2> QED BY <2>1, <2>2
<1> QED BY <1>2, <1>3 DEF Ask

LEMMA ForwardCronTurn ==
    ASSUME TypeInv, ForwardInv, CronTurn
    PROVE  ForwardInv'
<1>1. /\ pc = "cron" /\ fieldnum \in 1..7 /\ next' = Turn(Part)[1] /\ fieldnum' = Turn(Part)[2]
      /\ UNCHANGED <<trig, prev, now>>
    BY Names DEF CronTurn
<1>2. CASE PastEnd(Part, next')
  <2>1. Answer(None)
      BY <1>2 DEF CronTurn
  <2> QED BY <2>1, <1>1, ForwardAnswer
<1>3. CASE ~ PastEnd(Part, next')
  <2>1. UNCHANGED <<answers, pc>>
      BY <1>3 DEF CronTurn
  <2>2. PastEnd(Part, next)' = PastEnd(Part, next')
      BY <2>1, <1>1 DEF PastEnd, Part
  <2>3. ASSUME prev # None, ~ Doubtful(prev), fieldnum' # 0
        PROVE  LaterThanPrev(next')
    <3>1. LaterThanPrev(next) /\ next \in Times
        BY <1>1, <2>3 DEF ForwardInv, TypeInv
    <3>2. next' \in Times /\ Steps(next, next')
        BY <1>1, <2>3, TurnIs
    <3>3. Instant(prev) \in Int /\ Jittery(trig) \in BOOLEAN
        BY <2>3, PrevIs DEF Jittery
    <3> QED BY <3>1, <3>2, <3>3, LaterBySteps DEF LaterThanPrev
  <2>4. fieldnum' # 1 => ~ PastEnd(Part, next)'
      BY <2>2, <1>3
  <2> QED BY <2>1, <2>3, <2>4, <1>1 DEF ForwardInv, LaterThanPrev
<1> QED BY <1>2, <1>3

LEMMA ForwardCronAnswers ==
    ASSUME TypeInv, ForwardInv, CronAnswers
    PROVE  ForwardInv'
<1>1. /\ pc = "cron" /\ fieldnum \notin 1..7
      /\ UNCHANGED <<trig, prev, now, next, fieldnum, since>>
    BY Names DEF CronAnswers, search
<1>2. /\ Len(answers) < Len(trig.parts) /\ CronPart(Part)
      /\ next \in Times /\ fieldnum \in 0..8
    BY <1>1, PartIs DEF TypeInv
<1>3. CASE fieldnum = 0
  <2>1. Answer(None)
      BY <1>3 DEF CronAnswers
  <2> QED BY <2>1, <1>1, ForwardAnswer
<1>4. CASE fieldnum # 0
  <2>1. PICK d \in 0..Part.jitter :
            LET dt == Jittered(Part, next, d)
            IN  IF Overflows(dt)
                THEN pc' = "raised" /\ UNCHANGED answers
                ELSE Answer(IF Part.end = None THEN dt ELSE Earliest(dt, Part.end))
      BY <1>4 DEF CronAnswers
  <2>2. CASE Overflows(Jittered(Part, next, d))
    <3>1. pc' = "raised" /\ UNCHANGED answers
        BY <2>1, <2>2
    <3> QED BY <3>1, <1>1 DEF ForwardInv, LaterThanPrev
  <2>3. CASE ~ Overflows(Jittered(Part, next, d))
    <3> DEFINE j == Jittered(Part, next, d)
               a == IF Part.end = None THEN j ELSE Earliest(j, Part.end)
    <3>1. Answer(a)
        BY <2>1, <2>3
    <3>2. /\ a \in Times
          /\ \/ a = next
             \/ Part.jitter > 0 /\ a = Local(a.at, 0) /\ next.at <= a.at
             \/ a = Part.end /\ Part.end # None /\ Before(a, j)
        BY <2>3, <1>2, AnswerIs
    <3>3. ASSUME prev # None, ~ Doubtful(prev)
          PROVE  LaterThanPrev(a)
      <4>1. LaterThanPrev(next)
          BY <1>1, <1>4, <3>3 DEF ForwardInv
      <4>2. CASE a = next
          BY <4>1, <4>2
      <4>3. ASSUME Part.jitter > 0, a = Local(a.at, 0), next.at <= a.at
            PROVE  LaterThanPrev(a)
        <5>1. Jittery(trig)
            BY <4>3, <1>2, PartIs DEF Jittery
        <5>2. Instant(prev) \in Int /\ a.at \in Wall
            BY <3>2, <3>3, PrevIs, TimeIs
        <5> HIDE DEF a
        <5>3. Later(Instant(prev), TRUE, next)
            BY <5>1, <4>1 DEF LaterThanPrev, Later
        <5>4. Later(Instant(prev), TRUE, Local(a.at, 0))
            BY <5>2, <5>3, <4>3, <1>2, LaterByJitter
        <5>5. Later(Instant(prev), TRUE, a)
            BY <5>4, <4>3
        <5> QED BY <5>1, <5>5 DEF LaterThanPrev, Later
      <4>4. CASE a = Part.end /\ Part.end # None /\ Before(a, j)
        <5>1. ~ Before(Part.end, next)
            BY <1>1, <1>2, <1>4, <4>4 DEF ForwardInv, PastEnd
        <5>2. next.at <= a.at
            BY <5>1, <4>4, <3>2, <1>2, TimesOrder, TimeIs
        <5>3. Part.jitter > 0
          <6>1. CASE Part.jitter = 0
              BY <6>1, <5>1, <4>4 DEF Jittered
          <6> QED BY <6>1, <1>2, CronPartIs
        <5>4. a = Local(a.at, 0)
          <6> HIDE DEF a
          <6> QED BY <4>4, <1>2, CronPartIs, MomentsAre
        <5> QED BY <5>2, <5>3, <5>4, <4>3
      <4> QED BY <3>2, <4>2, <4>3, <4>4
    <3> HIDE DEF a
    <3> QED BY <3>1, <3>3, <1>1, ForwardAnswer
  <2> QED BY <2>2, <2>3
<1> QED BY <1>3, <1>4

\* A month that is later than that of a date, and a later day of the same month.
LEMMA MonthsLater ==
    ASSUME NEW date \in Dates, NEW at \in Nat, MonthNumber(date) <= at,
           at \div MaxValue("month") + 1 <= MaxValue("year"),
           date.day \in 1..MonthDays[at \div MaxValue("month") + 1][(at % MaxValue("month")) + 1]
    PROVE  LET reached == DateIs(at \div MaxValue("month") + 1,
                                 (at % MaxValue("month")) + 1, date.day)
           IN  /\ reached \in Dates
               /\ MonthNumber(date) < at => Earlier(date, reached)
               /\ MonthNumber(date) = at => reached = date
<1> DEFINE L == Len(MonthDays[1])  y == date.year - 1  m == date.month - 1
           q == at \div L  r == at % L
<1>1. MaxValue("month") = L
    BY DEF MaxValue
<1>2. L \in Nat \ {0} /\ date.year \in Years /\ date.month \in Months
      /\ date = DateIs(date.year, date.month, date.day)
    BY MonthLengths, DatesAre
<1>3. y \in Nat /\ m \in 0..(L - 1) /\ date.year \in Nat /\ date.month \in Nat
    BY <1>2, MonthLengths DEF Years, Months
<1>4. MonthNumber(date) = (L * y) + m
  <2>1. MonthNumber(date) = (date.year - 1) * MaxValue("month") + date.month - 1
      BY DEF MonthNumber
  <2>2. y * L = L * y /\ L * y \in Nat
      BY <1>2, <1>3
  <2> HIDE DEF L
  <2> QED BY <2>1, <2>2, <1>1, <1>3
<1>5. q \in Int /\ r \in 0..(L - 1) /\ at = (L * q) + r
  <2> HIDE DEF L
  <2> QED BY <1>2, DivMod
<1>6. DateIs(q + 1, r + 1, date.day) \in Dates
    BY <1>1, MonthReached
<1> HIDE DEF L, y, m, q, r
<1>7. L * y \in Int /\ L * q \in Int
    BY <1>2, <1>3, <1>5
<1>8. y <= q
  <2>1. ASSUME q < y PROVE FALSE
    <3>1. L * q + L <= L * y
        BY <2>1, <1>2, <1>3, <1>5, MulMono
    <3> QED BY <3>1, <1>2, <1>3, <1>4, <1>5, <1>7
  <2> QED BY <2>1, <1>3, <1>5
<1>9. y = q => (MonthNumber(date) < at <=> m < r) /\ (MonthNumber(date) = at <=> m = r)
    BY <1>3, <1>4, <1>5, <1>7
<1>10. y < q => MonthNumber(date) < at
  <2> SUFFICES ASSUME y < q PROVE MonthNumber(date) < at
      OBVIOUS
  <2>1. L * y + L <= L * q
      BY <1>2, <1>3, <1>5, MulMono
  <2> QED BY <2>1, <1>2, <1>3, <1>4, <1>5, <1>7
<1>11. date.year = y + 1 /\ date.month = m + 1
    BY <1>3 DEF y, m
<1>12. MonthNumber(date) < at => Earlier(date, DateIs(q + 1, r + 1, date.day))
  <2> SUFFICES ASSUME MonthNumber(date) < at
               PROVE  Earlier(date, DateIs(q + 1, r + 1, date.day))
      OBVIOUS
  <2>1. y < q \/ (y = q /\ m < r)
      BY <1>3, <1>5, <1>8, <1>9
  <2> QED BY <2>1, <1>3, <1>5, <1>11 DEF Earlier, DateIs
<1>13. MonthNumber(date) = at => DateIs(q + 1, r + 1, date.day) = date
  <2> SUFFICES ASSUME MonthNumber(date) = at
               PROVE  DateIs(q + 1, r + 1, date.day) = date
      OBVIOUS
  <2>1. MonthNumber(date) \in Int /\ ~(MonthNumber(date) < at)
      BY <1>3, <1>4, <1>7
  <2>2. y = q /\ m = r
      BY <2>1, <1>3, <1>5, <1>8, <1>9, <1>10
  <2> QED BY <2>2, <1>2, <1>11
<1> QED BY <1>1, <1>6, <1>12, <1>13 DEF q, r

LEMMA ForwardAddMonths ==
    ASSUME TypeInv, ForwardInv, AddMonths
    PROVE  ForwardInv'
<1>1. /\ pc = "months"
      /\ UNCHANGED <<trig, prev, now, answers, since>>
    BY DEF AddMonths
<1>2. /\ CalendarPart(Part)
      /\ since \in Dates /\ fieldnum \in Nat /\ MonthNumber(since) <= fieldnum
      /\ MonthNumber(since) \in Nat
    BY <1>1, PartIs, MonthNumberIs DEF TypeInv
<1>3. /\ Part.months \in Nat /\ Part.days \in Nat /\ Part.months + Part.days > 0
      /\ fieldnum + Part.months \in Nat
    BY <1>2, CalendarPartIs
<1> DEFINE at == fieldnum + Part.months
           year == at \div MaxValue("month") + 1
           month == (at % MaxValue("month")) + 1
<1>4. CASE year > MaxValue("year")
  <2>1. UNCHANGED <<next, fieldnum, pc>>
      BY <1>4 DEF AddMonths
  <2> QED BY <2>1, <1>1 DEF ForwardInv, LaterThanPrev
<1>5. CASE ~(year > MaxValue("year")) /\ ~(since.day \in 1..MonthDays[year][month])
  <2>1. UNCHANGED <<next, pc>>
      BY <1>5 DEF AddMonths
  <2> QED BY <2>1, <1>1 DEF ForwardInv, LaterThanPrev
<1>6. CASE ~(year > MaxValue("year")) /\ since.day \in 1..MonthDays[year][month]
  <2>1. /\ next' = Local(Midnight(year, month, since.day) + Part.days * Day, 0)
        /\ pc' = "calendar"
      BY <1>6 DEF AddMonths
  <2>2. year <= MaxValue("year")
    <3>1. MaxValue("month") \in Nat \ {0} /\ MaxValue("year") \in Nat
        BY MonthLengths DEF MaxValue
    <3>2. year \in Nat
        BY <3>1, <1>3
    <3> HIDE DEF year
    <3> QED BY <3>1, <3>2, <1>6
  <2> DEFINE reached == DateIs(year, month, since.day)
  <2>3. MonthNumber(since) <= at
      BY <1>2, <1>3
  <2>4. /\ reached \in Dates
        /\ MonthNumber(since) < at => Earlier(since, reached)
        /\ MonthNumber(since) = at => reached = since
      BY <2>2, <2>3, <1>2, <1>3, <1>6, MonthsLater
  <2>5. Midnight(year, month, since.day) = Day * Number[reached]
      BY <2>4, DateIsWall
  <2>6. Number[reached] \in Nat /\ Number[since] \in Nat
        /\ (Earlier(since, reached) <=> Number[since] < Number[reached])
      BY <2>4, <1>2, NumberOrder
  <2>7. Number[since] + 1 <= Number[reached] + Part.days
    <3>1. CASE MonthNumber(since) < at
        BY <3>1, <2>4, <2>6, <1>3
    <3>2. CASE MonthNumber(since) = at
        BY <3>2, <2>4, <2>6, <1>2, <1>3
    <3> QED BY <3>1, <3>2, <2>3, <1>2, <1>3
  <2> HIDE DEF at, year, month, reached
  <2>8. next'.at = Day * (Number[reached] + Part.days)
    <3>1. Part.days * Day = Day * Part.days
        BY <1>3, UnitsAre
    <3>2. next'.at = Day * Number[reached] + Day * Part.days
        BY <2>1, <2>5, <3>1, LocalIs
    <3> QED BY <3>2, <2>6, <1>3, UnitsAre
  <2>9. ASSUME prev # None, ~ Doubtful(prev)
        PROVE  Day * (AsLocal(prev).at \div Day) + Day <= next'.at
    <3> DEFINE k == AsLocal(prev).at \div Day  n == Number[reached] + Part.days
    <3>1. k <= Number[since] /\ k \in Int
      <4>1. AsLocal(prev).at \in Wall
          BY <2>9, AsLocalIs DEF TypeInv
      <4> QED BY <4>1, <2>9, <1>1, WallDate DEF ForwardInv
    <3>2. n \in Int /\ k < n
        BY <3>1, <2>6, <2>7, <1>3
    <3> HIDE DEF k, n
    <3>3. Day * k + Day <= Day * n
        BY <3>1, <3>2, UnitsAre, MulMono
    <3> QED BY <3>3, <2>8 DEF k, n
  <2> QED BY <2>1, <2>9, <1>1 DEF ForwardInv, LaterThanPrev
<1> QED BY <1>4, <1>5, <1>6

\* A reading put into the trigger's time zone: it stays, unless the clocks jump
\* over it.
LEMMA ShownIs ==
    ASSUME NEW w \in Wall
    PROVE  LET dt == FromTimestamp(Timestamp(w, 0))
           IN  /\ Timestamp(w, 0) \in Nat /\ Timestamp(w, 0) < End
               /\ dt \in Times /\ Instant(dt) = Timestamp(w, 0) /\ ~ Skipped(dt.at)
               /\ dt.at = IF Skipped(w) THEN w + Hour ELSE w
               /\ dt.fold = 0 \/ (dt.fold = 1 /\ ~ Repeated(w))
               /\ Repeated(w) => dt.fold = 0
<1> DEFINE t == Timestamp(w, 0)
<1>1. t \in Nat /\ t <= w /\ w \in Nat /\ w < End
    BY InstantIs, Changes DEF Wall
<1>2. t < End
    BY <1>1, Changes
<1>3. FromTimestamp(t) \in Times /\ Instant(FromTimestamp(t)) = t /\ ~ Skipped(FromTimestamp(t).at)
    BY <1>1, <1>2, RoundTrip
<1>4. t = IF Forward + Hour <= w /\ w < Back + Hour THEN w - Hour ELSE w
    BY DEF Timestamp, InSummer
<1>5. FromTimestamp(t) = IF Forward <= t /\ t < Back THEN Local(t + Hour, 0)
                         ELSE Local(t, IF Back <= t /\ t < Back + Hour THEN 1 ELSE 0)
    BY DEF FromTimestamp
<1> HIDE DEF t
<1>6. CASE Skipped(w)
  <2>1. t = w /\ Forward <= t /\ t < Back /\ ~ Repeated(w)
      BY <1>4, <1>6, <1>1, Changes DEF Skipped, Repeated
  <2>2. FromTimestamp(t) = Local(w + Hour, 0)
      BY <2>1, <1>5
  <2> QED BY <2>1, <2>2, <1>1, <1>2, <1>3, <1>6, LocalIs DEF t
<1>7. CASE ~ Skipped(w) /\ w < Back + Hour
  <2>1. FromTimestamp(t) = Local(w, 0)
    <3>1. CASE w < Forward
      <4>1. t = w /\ ~(Forward <= t) /\ ~(Back <= t)
          BY <3>1, <1>1, <1>4, Changes
      <4> QED BY <4>1, <1>5
    <3>2. CASE Forward + Hour <= w
      <4>1. Forward <= t /\ t < Back /\ t + Hour = w
          BY <3>2, <1>1, <1>4, <1>7, Changes
      <4> QED BY <4>1, <1>5
    <3> QED BY <3>1, <3>2, <1>1, <1>7, Changes DEF Skipped
  <2> QED BY <2>1, <1>1, <1>2, <1>3, <1>7, LocalIs DEF t
<1>8. CASE Back + Hour <= w
  <2>1. t = w /\ ~(t < Back) /\ ~(t < Back + Hour) /\ ~ Repeated(w) /\ ~ Skipped(w)
      BY <1>8, <1>1, <1>4, Changes DEF Repeated, Skipped
  <2>2. FromTimestamp(t) = Local(w, 0)
      BY <2>1, <1>5
  <2> QED BY <2>1, <2>2, <1>1, <1>2, <1>3, <1>8, LocalIs DEF t
<1>9. w < Back + Hour \/ Back + Hour <= w
    BY <1>1, Changes
<1> QED BY <1>6, <1>7, <1>8, <1>9

\* A time on a later date than the previous fire time's is later.
LEMMA LaterDate ==
    ASSUME RepeatedOnOneDate, TypeInv, prev # None, ~ Doubtful(prev),
           NEW w \in Wall, Day * (AsLocal(prev).at \div Day) + Day <= w
    PROVE  Instant(prev) < Timestamp(w, 0)
<1> DEFINE p == Instant(prev)  x == AsLocal(prev).at  f == FromTimestamp(p).fold  k == x \div Day
<1>1. p \in Nat /\ p < End /\ x = FromTimestamp(p).at
    BY PrevIs
<1>2. /\ FromTimestamp(p) \in Times /\ Instant(FromTimestamp(p)) = p
      /\ ~ Skipped(x) /\ (f = 1 => Repeated(x))
    BY <1>1, RoundTrip
<1>3. x \in Wall /\ f \in {0, 1} /\ FromTimestamp(p) = Local(x, f)
    BY <1>1, <1>2, TimeIs
<1>4. p = Timestamp(x, f)
    BY <1>2, <1>3, LocalIs
<1> HIDE DEF p, x, f
<1>5. x \in Nat /\ w \in Nat /\ k \in Int /\ x % Day \in 0..(Day - 1) /\ x = (Day * k) + (x % Day)
  <2>1. x \in Nat /\ w \in Nat
      BY <1>3, Changes DEF Wall
  <2>2. x \in Int /\ Day \in Nat \ {0}
      BY <2>1, UnitsAre
  <2> QED BY <2>1, <2>2, DivMod
<1>6. Day * k + Day <= w
    BY DEF x
<1> HIDE DEF k
<1>7. Day * k \in Int /\ Day \in Nat \ {0}
    BY <1>5, UnitsAre
<1>8. x < Day * k + Day
    BY <1>5, <1>7
<1>9. x < w
    BY <1>5, <1>6, <1>7, <1>8
<1>10. CASE f = 0
  <2>1. Timestamp(x, 0) < Timestamp(w, 0)
      BY <1>2, <1>3, <1>9, InstantOrder
  <2> QED BY <2>1, <1>4, <1>10 DEF p
<1>11. CASE f = 1
  <2>1. Repeated(x) /\ p = x
    <3>1. f = 1 => Repeated(x)
        BY <1>2, <1>3
    <3>2. Repeated(x)
        BY <3>1, <1>11
    <3>3. Timestamp(x, 1) = x
        BY <3>2, <1>5, Changes DEF Timestamp, InSummer, Repeated
    <3> QED BY <3>2, <3>3, <1>4, <1>11
  <2> DEFINE b == Back \div Day
  <2>2. b \in Int /\ Back % Day \in 0..(Day - 1) /\ Back = (Day * b) + (Back % Day)
    <3>1. Back \in Int /\ Day \in Nat \ {0}
        BY <1>7, Changes
    <3> QED BY ONLY <3>1, DivMod DEF b
  <2> HIDE DEF b
  <2>3. Day * b \in Int /\ Back + Hour <= Day * b + Day
      BY <2>2, <1>7, Changes DEF RepeatedOnOneDate
  <2>4. ASSUME k < b PROVE FALSE
    <3>1. Day * k + Day <= Day * b
        BY <2>2, <2>4, <1>5, <1>7, MulMono
    <3> QED BY <3>1, <2>1, <2>2, <2>3, <1>5, <1>7, <1>8, Changes DEF Repeated
  <2>5. Day * b + Day <= Day * k + Day
    <3>1. CASE b < k
      <4>1. Day * b + Day <= Day * k
          BY <3>1, <2>2, <1>5, <1>7, MulMono
      <4> QED BY <4>1, <2>3, <1>7
    <3>2. CASE b = k
        BY <3>2, <2>3, <1>7
    <3> QED BY <3>1, <3>2, <2>2, <2>4, <1>5
  <2>6. Back + Hour <= w
      BY <2>3, <2>5, <1>5, <1>6, <1>7, Changes
  <2>7. Timestamp(w, 0) = w
      BY <2>6, <1>5, Changes DEF Timestamp, InSummer
  <2> QED BY <2>1, <2>7, <1>9 DEF p
<1> QED BY <1>3, <1>10, <1>11

LEMMA ForwardCalendarTurn ==
    ASSUME RepeatedOnOneDate, TypeInv, ForwardInv, CalendarTurn
    PROVE  ForwardInv'
<1>1. /\ pc = "calendar"
      /\ UNCHANGED <<trig, prev, now, next>>
    BY DEF CalendarTurn
<1>2. /\ Len(answers) < Len(trig.parts) /\ CalendarPart(Part)
      /\ next.at \in Nat /\ next.at % Day = 0
    BY <1>1, PartIs DEF TypeInv
<1> DEFINE w == next.at + Part.time
           dt == FromTimestamp(Timestamp(next.at + Part.time, 0))
<1>3. CASE Overflows(next)
  <2>1. pc' = "raised" /\ UNCHANGED <<answers, since, fieldnum>>
      BY <1>3 DEF CalendarTurn
  <2> QED BY <2>1, <1>1 DEF ForwardInv, LaterThanPrev
<1>4. CASE ~ Overflows(next) /\ PastEnd(Part, next)
  <2>1. Answer(None)
      BY <1>4 DEF CalendarTurn
  <2> QED BY <2>1, <1>1, ForwardAnswer
<1>5. CASE ~ Overflows(next) /\ ~ PastEnd(Part, next)
  <2>1. w \in Wall /\ next.at <= w
    <3>1. next.at < End /\ Part.time \in 0..(Day - 1)
        BY <1>2, <1>5, CalendarPartIs, Changes DEF Overflows
    <3>2. w \in Wall
        BY <3>1, <1>2, OnDate
    <3>3. next.at <= w
        BY <3>1, <1>2, UnitsAre
    <3> QED BY <3>2, <3>3
  <2>2. IF TimeExists(dt, Part.time)
        THEN Answer(dt) /\ UNCHANGED <<since, fieldnum>>
        ELSE /\ since' = DateAt(dt.at)
             /\ fieldnum' = MonthNumber(since')
             /\ pc' = "months"
             /\ UNCHANGED answers
    <3> HIDE DEF dt
    <3> QED BY <1>5 DEF CalendarTurn, dt
  <2>3. /\ dt \in Times /\ Instant(dt) = Timestamp(w, 0) /\ ~ Skipped(dt.at)
        /\ dt.at = IF Skipped(w) THEN w + Hour ELSE w
      BY <2>1, ShownIs
  <2> HIDE DEF w, dt
  <2>4. ASSUME prev # None, ~ Doubtful(prev)
        PROVE  Day * (AsLocal(prev).at \div Day) + Day <= w
    <3> DEFINE n == Day * (AsLocal(prev).at \div Day) + Day
    <3>1. n <= next.at
        BY <2>4, <1>1 DEF ForwardInv
    <3>2. AsLocal(prev).at \in Wall
        BY <2>4, AsLocalIs DEF TypeInv
    <3>3. n \in Int
        BY <3>2, WallDate, UnitsAre
    <3> HIDE DEF n
    <3>4. w \in Int
        BY <2>1, Changes DEF Wall
    <3>5. n <= w
        BY <3>1, <3>3, <3>4, <2>1, <1>2
    <3> QED BY <3>5 DEF n
  <2>5. CASE TimeExists(dt, Part.time)
    <3>1. Answer(dt)
        BY <2>2, <2>5
    <3>2. ASSUME prev # None, ~ Doubtful(prev)
          PROVE  LaterThanPrev(dt)
      <4>1. Instant(prev) < Timestamp(w, 0)
          BY <2>1, <2>4, <3>2, LaterDate
      <4> QED BY <4>1, <2>3 DEF LaterThanPrev, Later, Ahead
    <3> QED BY <3>1, <3>2, <1>1, ForwardAnswer
  <2>6. CASE ~ TimeExists(dt, Part.time)
    <3>1. since' = DateAt(dt.at) /\ pc' = "months" /\ answers' = answers
        BY <2>2, <2>6
    <3>2. dt.at \in Wall /\ Number[since'] = dt.at \div Day /\ Number[since'] \in Nat
        BY <3>1, <2>3, TimeIs, WallDate, NumberOrder
    <3>3. ASSUME prev # None, ~ Doubtful(prev)
          PROVE  AsLocal(prev).at \div Day <= Number[since']
      <4> DEFINE k == AsLocal(prev).at \div Day  n == dt.at \div Day
      <4>1. k \in Int
        <5>1. AsLocal(prev).at \in Wall
            BY <3>3, AsLocalIs DEF TypeInv
        <5> QED BY <5>1, WallDate
      <4>2. Day * k + Day <= w
          BY <2>4, <3>3
      <4>3. w <= dt.at /\ w \in Int /\ dt.at \in Int
          BY <2>1, <2>3, <3>2, Changes DEF Wall
      <4>4. n \in Int /\ dt.at % Day \in 0..(Day - 1) /\ dt.at = (Day * n) + (dt.at % Day)
          BY <4>3, UnitsAre, DivMod
      <4> HIDE DEF k, n
      <4>5. ASSUME n < k PROVE FALSE
        <5>1. Day * n + Day <= Day * k /\ Day * n \in Int /\ Day * k \in Int
            BY <4>1, <4>4, <4>5, UnitsAre, MulMono
        <5> QED BY <5>1, <4>2, <4>3, <4>4, UnitsAre
      <4>6. k <= n
          BY <4>1, <4>4, <4>5
      <4> QED BY <4>6, <3>2 DEF k, n
    <3> QED BY <3>1, <3>3, <1>1 DEF ForwardInv, LaterThanPrev
  <2> QED BY <2>5, <2>6
<1> QED BY <1>3, <1>4, <1>5

LEMMA ForwardAskAgain ==
    ASSUME TypeInv, ForwardInv, AskAgain
    PROVE  ForwardInv'
<1>1. /\ pc = "ask" /\ Len(answers) = Len(trig.parts) /\ ~ NoFireTime /\ trig.mode = "and"
      /\ now' = Final(Answered) /\ answers' = <<>>
      /\ UNCHANGED <<trig, prev, pc>>
    BY DEF AskAgain, Agreed
<1>2. Answered \subseteq Times /\ Answered # {}
    BY <1>1, AnsweredIs
<1>3. now' \in Times /\ now' \in Answered
    BY <1>1, <1>2, FirstAndFinal
<1>4. prev # None /\ ~ Doubtful(prev) => LaterThanPrev(now')
    BY <1>3, MovingIs DEF ForwardInv, Answered
<1>5. DOMAIN answers' = {}
    BY <1>1
<1> QED BY <1>1, <1>3, <1>4, <1>5 DEF ForwardInv, LaterThanPrev

LEMMA ForwardFound ==
    ASSUME TypeInv, ForwardInv, Found
    PROVE  ForwardInv'
<1>1. /\ pc' = "found" /\ UNCHANGED <<trig, prev, now, answers>>
    BY DEF Found
<1>2. next' \in Answered \ {None}
    BY TypeFound
<1>3. prev # None /\ ~ Doubtful(prev) => LaterThanPrev(next')
    BY <1>2 DEF ForwardInv, Answered
<1> QED BY <1>1, <1>3 DEF ForwardInv, LaterThanPrev

\* The loop has found the fire time due: a microsecond later is past, too.
LEMMA FireIsDue ==
    ASSUME TypeInv, Fire
    PROVE  Before(JustAfter(prev'), now')
<1>1. /\ next \in Times
      /\ prev' = Kept(next) /\ now' = LoopNow(clock') /\ answers' = <<>> /\ pc' = "ask"
      /\ clock' \in clock..GreatestOf({clock, Instant(next) + Delay})
      /\ clock' < End /\ Before(Kept(next), LoopNow(clock'))
    BY DEF Fire, TypeInv, DueAt
<1>2. clock' \in Nat
  <2>1. clock \in Nat
      BY Changes DEF TypeInv, Wall
  <2>2. clock' \in Int /\ clock <= clock'
      BY <1>1
  <2> QED BY <2>1, <2>2
<1>3. /\ now' \in Readings /\ now'.past = 2 /\ now'.zone = "local"
    BY <1>1, <1>2, LoopNowIs
<1>4. prev' \in Readings /\ prev'.past = 0
    BY <1>1, KeptIs
<1>5. JustAfter(prev') = [zone |-> prev'.zone, at |-> prev'.at, fold |-> 0, past |-> 1]
    BY <1>4, MovingIs, JustAfterIs
<1>6. /\ prev'.zone \in {"local", "other"} /\ prev'.at \in Int
      /\ now'.at \in Int
    BY <1>3, <1>4, Changes DEF Readings, Wall
<1>7. Before(prev', now')
    BY <1>1
<1>8. CASE prev'.zone = "local"
    BY <1>6, <1>7, <1>8, <1>3, <1>4, <1>5 DEF Before
<1>9. CASE prev'.zone = "other"
  <2>1. Instant(prev') = prev'.at /\ Instant(JustAfter(prev')) = prev'.at
      BY <1>9, <1>5 DEF Instant
  <2>2. Instant(now') \in Int
      BY <1>1, <1>2, <1>3, LoopNowIs, RoundTrip, Changes DEF Instant, Timestamp
  <2> QED BY <2>1, <2>2, <1>6, <1>7, <1>9, <1>3, <1>4, <1>5 DEF Before
<1> QED BY <1>6, <1>8, <1>9

LEMMA ForwardFire ==
    ASSUME TypeInv, ForwardInv, Fire
    PROVE  ForwardInv'
<1>1. /\ next \in Times
      /\ now' = LoopNow(clock') /\ answers' = <<>> /\ pc' = "ask"
      /\ clock' \in clock..GreatestOf({clock, Instant(next) + Delay}) /\ clock' < End
    BY DEF Fire, TypeInv
<1>2. now'.past = 2
  <2>1. clock \in Nat
      BY Changes DEF TypeInv, Wall
  <2>2. clock' \in Int /\ clock <= clock'
      BY <1>1
  <2>3. clock' \in Nat
      BY <2>1, <2>2
  <2> QED BY <2>3, <1>1, LoopNowIs
<1>3. Before(JustAfter(prev), now)' <=> Before(JustAfter(prev'), now')
    BY DEF Before, JustAfter, Instant
<1>4. DOMAIN answers' = {}
    BY <1>1
<1> QED BY <1>1, <1>2, <1>3, <1>4, FireIsDue DEF ForwardInv

LEMMA ForwardStep ==
    ASSUME RepeatedOnOneDate, TypeInv, ForwardInv, [Next]_vars
    PROVE  ForwardInv'
<1>1. CASE Over
    BY <1>1 DEF Over, ForwardInv, LaterThanPrev
<1>2. CASE UNCHANGED vars
    BY <1>2 DEF vars, search, ForwardInv, LaterThanPrev, Part, PastEnd
<1> QED BY <1>1, <1>2, ForwardAsk, ForwardCronTurn, ForwardCronAnswers, ForwardAddMonths,
           ForwardCalendarTurn, ForwardAskAgain, ForwardFound, ForwardFire DEF Next, Turns

\* No trigger answers a time that is not later than the one its job has just
\* fired at, for any set of triggers in any calendar: only where that time was
\* doubtful, or where a jitter made the second of two equal readings the first.
THEOREM FiresForwardHolds ==
    ASSUME RepeatedOnOneDate
    PROVE  Spec => []FiresForward
<1>1. Init => TypeInv /\ ForwardInv
    BY TypeInit DEF Init, ForwardInv
<1>2. TypeInv /\ ForwardInv /\ [Next]_vars => TypeInv' /\ ForwardInv'
    BY TypeStep, ForwardStep
<1>3. TypeInv /\ ForwardInv => FiresForward
  <2> SUFFICES ASSUME TypeInv, ForwardInv, pc = "found", prev # None, ~ Doubtful(prev), ~ Slipped
               PROVE  Instant(prev) < Instant(next)
      BY DEF FiresForward
  <2>1. LaterThanPrev(next)
      BY DEF ForwardInv
  <2> QED BY <2>1 DEF LaterThanPrev, Later, Ahead, Slipped, Jittery
<1> QED BY <1>1, <1>2, <1>3, PTL DEF Spec

-----------------------------------------------------------------------------
(* Calendar intervals keep their time.                                     *)

\* A CalendarIntervalTrigger keeps its time of day and its interval, provided
\* that the hour the clocks jump over, and the one after it, are on one date.
JumpOnOneDate == (Forward % Day) + 2 * Hour <= Day

\* The k-th month from a date on, by the trigger's step.
MonthFrom(part, date, k) == MonthNumber(date) + k * part.months
YearOf(n) == n \div MaxValue("month") + 1
MonthIn(n) == (n % MaxValue("month")) + 1

\* The months that were passed over do not have that day.
TooShort(part, date, j) ==
    \A i \in 1..j : LET n == MonthFrom(part, date, i)
                    IN  YearOf(n) <= MaxValue("year") /\ MonthDays[YearOf(n)][MonthIn(n)] < date.day

OneInterval(part) == Interval(part, DateAt(AsLocal(prev).at))

\* The date after which the trigger looks, and the date it looks at.
SinceIs(part, date) ==
    \/ date = DateAt(AsLocal(prev).at)
    \/ /\ OneInterval(part) \in Wall /\ OneInterval(part) % Day = 0
       /\ Skipped(OneInterval(part) + part.time)
       /\ date = DateAt(OneInterval(part))

DateFound(part, at) ==
    \/ at = OneInterval(part)
    \/ /\ OneInterval(part) \in Wall
       /\ Skipped(OneInterval(part) + part.time)
       /\ at = Interval(part, DateAt(OneInterval(part)))
       /\ OneInterval(part) + Day <= at

TimeKept(part, dt) ==
    /\ dt = FromTimestamp(Timestamp(dt.at, 0))
    /\ dt.at % Day = part.time
    /\ prev # None => DateFound(part, dt.at - part.time)

KeepInv ==
    trig.mode = "single" /\ trig.parts[1].kind = "calendar" =>
        LET part == trig.parts[1] IN
        /\ \A i \in DOMAIN answers : answers[i] # None => TimeKept(part, answers[i])
        /\ pc = "found" => TimeKept(part, next)
        /\ pc = "months" /\ prev # None =>
               /\ SinceIs(part, since)
               /\ \E j \in Nat : fieldnum = MonthFrom(part, since, j) /\ TooShort(part, since, j)
        /\ pc = "calendar" /\ prev # None => DateFound(part, next.at)

\* The date that AddMonths finds is the one interval on.
LEMMA IntervalIs ==
    ASSUME NEW part, CalendarPart(part), NEW date \in Dates, NEW j \in Nat,
           TooShort(part, date, j),
           YearOf(MonthFrom(part, date, j + 1)) <= MaxValue("year"),
           date.day \in 1..MonthDays[YearOf(MonthFrom(part, date, j + 1))]
                                    [MonthIn(MonthFrom(part, date, j + 1))]
    PROVE  LET at == MonthFrom(part, date, j + 1)
               reached == DateIs(YearOf(at), MonthIn(at), date.day)
           IN  /\ Interval(part, date) =
                      Midnight(YearOf(at), MonthIn(at), date.day) + part.days * Day
               /\ reached \in Dates
               /\ Interval(part, date) = Day * (Number[reached] + part.days)
               /\ Number[date] + 1 <= Number[reached] + part.days
<1> DEFINE at == MonthFrom(part, date, j + 1)
           Length(n) == MonthDays[YearOf(n)][MonthIn(n)]
           L == MaxValue("month")  Y == Len(MonthDays)
           mn == MonthNumber(date)
           Fits(k) == /\ date.day <= Length(MonthFrom(part, date, k))
                      /\ \A i \in 1..(k - 1) : Length(MonthFrom(part, date, i)) < date.day
           reached == DateIs(YearOf(at), MonthIn(at), date.day)
<1>1. L \in Nat \ {0} /\ Y \in Nat \ {0} /\ MaxValue("year") = Y
    BY MonthLengths DEF MaxValue
<1>2. /\ part.months \in Nat /\ part.days \in Nat /\ part.months + part.days > 0
      /\ mn \in Nat /\ date.day \in Nat
  <2>1. MonthDays[date.year][date.month] \in Nat
      BY DatesAre, MonthLengths
  <2>2. date.day \in Nat
      BY <2>1, DatesAre
  <2> QED BY <2>2, CalendarPartIs, MonthNumberIs
<1>3. \A k \in Nat : MonthFrom(part, date, k) \in Nat
    BY <1>2 DEF MonthFrom
<1>4. at \in Nat /\ mn <= at /\ at = mn + (j + 1) * part.months
      /\ (part.months > 0 => mn < at) /\ (part.months = 0 => mn = at)
  <2>1. (j + 1) * part.months \in Nat /\ (part.months > 0 => (j + 1) * part.months > 0)
        /\ (part.months = 0 => (j + 1) * part.months = 0)
      BY <1>2
  <2> QED BY <2>1, <1>2 DEF MonthFrom
<1>5. /\ reached \in Dates
      /\ mn < at => Earlier(date, reached)
      /\ mn = at => reached = date
  <2>1. /\ at \div MaxValue("month") + 1 <= MaxValue("year")
        /\ date.day \in 1..MonthDays[at \div MaxValue("month") + 1][(at % MaxValue("month")) + 1]
      BY DEF YearOf, MonthIn
  <2> HIDE DEF at
  <2> QED BY <2>1, <1>4, MonthsLater DEF YearOf, MonthIn
<1>6. Length(at) \in Nat /\ date.day <= Length(at)
  <2>1. YearOf(at) \in Years /\ MonthIn(at) \in Months
      BY <1>5, DatesAre
  <2>2. Length(at) \in Nat
      BY <2>1, MonthLengths
  <2> QED BY <2>2, <1>2
<1>7. ASSUME NEW i \in 1..j
      PROVE  Length(MonthFrom(part, date, i)) < date.day
    BY <1>7 DEF TooShort
<1>8. Fits(j + 1)
    BY <1>6, <1>7
<1>9. part.months = 0 => j = 0
  <2>1. ASSUME part.months = 0, j # 0 PROVE FALSE
    <3>1. 1 \in 1..j /\ MonthFrom(part, date, 1) = mn
        BY <2>1, <1>2 DEF MonthFrom
    <3>2. at = mn
        BY <2>1, <1>4
    <3>3. Length(mn) < date.day
        BY <1>7, <3>1
    <3> QED BY <3>2, <3>3, <1>2, <1>6
  <2> QED BY <2>1
<1>10. j + 1 \in 1..(Y * L)
  <2>1. Y * L \in Nat \ {0}
      BY <1>1
  <2>2. CASE part.months = 0
      BY <2>1, <2>2, <1>9
  <2>3. CASE part.months # 0
    <3>1. j + 1 <= (j + 1) * part.months
        BY <2>3, <1>2
    <3>2. j + 1 <= at
        BY <3>1, <1>2, <1>4
    <3>3. at < L * Y
      <4> DEFINE q == at \div L
      <4>1. q \in Int /\ at % L \in 0..(L - 1) /\ at = (L * q) + (at % L)
        <5>1. at \in Int /\ L \in Nat \ {0}
            BY <1>1, <1>4
        <5> HIDE DEF at, L
        <5> QED BY <5>1, DivMod
      <4>2. q + 1 <= Y
          BY <1>1 DEF YearOf
      <4> HIDE DEF q, at, L, Y
      <4>3. q < Y /\ q \in Int /\ Y \in Int /\ L \in Nat \ {0}
          BY <4>1, <4>2, <1>1
      <4>4. L * q + L <= L * Y /\ L * q \in Int /\ L * Y \in Int
          BY <4>3, MulMono
      <4> QED BY <4>1, <4>4, <1>1, <1>4
    <3>4. L * Y = Y * L
        BY <1>1
    <3> HIDE DEF at, L, Y
    <3> QED BY <2>1, <3>2, <3>3, <3>4, <1>1, <1>4
  <2> QED BY <2>2, <2>3
<1>11. ASSUME NEW k \in 1..(Y * L), Fits(k)
       PROVE  k = j + 1
  <2>0. k \in Nat /\ 1 <= k
    <3>1. Y * L \in Nat
        BY <1>1
    <3> HIDE DEF Y, L
    <3> QED BY <3>1
  <2>1. ASSUME k < j + 1 PROVE FALSE
    <3>1. k \in 1..j
        BY <2>0, <2>1
    <3>2. Length(MonthFrom(part, date, k)) < date.day /\ date.day <= Length(MonthFrom(part, date, k))
        BY <3>1, <1>7, <1>11
    <3>3. Length(MonthFrom(part, date, k)) \in Int
      <4> DEFINE n == MonthFrom(part, date, k)
      <4>1. YearOf(n) <= Y
          BY <3>1, <1>1 DEF TooShort
      <4>2. n \in Nat
          BY <2>0, <1>3
      <4> HIDE DEF n
      <4>3. n \div L \in Nat /\ n % L \in 0..(L - 1)
        <5> HIDE DEF L
        <5>1. n \div L \in Nat
            BY <4>2, <1>1, QuotientNat
        <5> QED BY <5>1, <4>2, <1>1
      <4>4. L = Len(MonthDays[1])
          BY DEF MaxValue
      <4> HIDE DEF L
      <4>5. YearOf(n) = n \div L + 1 /\ MonthIn(n) = (n % L) + 1
          BY DEF YearOf, MonthIn, L
      <4>6. YearOf(n) \in Years /\ MonthIn(n) \in Months
          BY <4>1, <4>3, <4>4, <4>5, <1>1 DEF Years, Months
      <4> QED BY <4>6, MonthLengths DEF n
    <3> QED BY <3>2, <3>3, <1>2
  <2>2. ASSUME j + 1 < k PROVE FALSE
    <3>1. j + 1 \in 1..(k - 1)
        BY <2>0, <2>2
    <3>2. Length(at) < date.day
        BY <3>1, <1>11
    <3> QED BY <3>2, <1>2, <1>6
  <2> QED BY <2>0, <2>1, <2>2
<1>12. (CHOOSE k \in 1..(Y * L) : Fits(k)) = j + 1
  <2> HIDE DEF Fits
  <2> QED BY <1>8, <1>10, <1>11
<1>13. Interval(part, date) = Midnight(YearOf(at), MonthIn(at), date.day) + part.days * Day
    BY <1>12 DEF Interval, MonthFrom, YearOf, MonthIn
<1>14. Midnight(YearOf(at), MonthIn(at), date.day) = Day * Number[reached]
    BY <1>5, DateIsWall
<1>15. Number[reached] \in Nat /\ Number[date] \in Nat
       /\ (Earlier(date, reached) <=> Number[date] < Number[reached])
    BY <1>5, NumberOrder
<1> HIDE DEF reached, at
<1>16. Interval(part, date) = Day * (Number[reached] + part.days)
    BY <1>2, <1>13, <1>14, <1>15, UnitsAre
<1>17. Number[date] + 1 <= Number[reached] + part.days
  <2>1. CASE part.months = 0
    <3>1. reached = date /\ part.days > 0
        BY <2>1, <1>2, <1>4, <1>5
    <3> QED BY <3>1, <1>2, <1>15
  <2>2. CASE part.months > 0
    <3>1. Number[date] < Number[reached]
        BY <2>2, <1>4, <1>5, <1>15
    <3> QED BY <3>1, <1>2, <1>15
  <2> QED BY <2>1, <2>2, <1>2
<1> QED BY <1>5, <1>13, <1>16, <1>17 DEF at, reached

\* The hour after the one that is jumped over, on the same date.
LEMMA JumpedTime ==
    ASSUME JumpOnOneDate, NEW at \in Nat, at < End, at % Day = 0,
           NEW time \in 0..(Day - 1), Skipped(at + time)
    PROVE  /\ (at + time + Hour) % Day = time + Hour
           /\ (at + time + Hour) \div Day = at \div Day
           /\ time + Hour < Day
<1> DEFINE k == at \div Day  f == Forward \div Day  r == Forward % Day
<1>0. Forward \in Int /\ Day \in Nat \ {0} /\ at \in Int
    BY UnitsAre, Changes
<1>1. at = Day * k /\ k \in Int
  <2>1. at = Day * k
      BY OnDate
  <2> QED BY <2>1, <1>0, DivMod
<1>2. f \in Int /\ r \in 0..(Day - 1) /\ Forward = (Day * f) + r
    BY <1>0, DivMod
<1>3. r + 2 * Hour <= Day
    BY DEF JumpOnOneDate
<1>4. Day \in Nat \ {0} /\ Hour \in Nat \ {0} /\ time \in Nat /\ time < Day
    BY UnitsAre
<1>5. Forward <= at + time /\ at + time < Forward + Hour
    BY DEF Skipped
<1> HIDE DEF k, f, r
<1>6. Day * k \in Int /\ Day * f \in Int
    BY <1>1, <1>2, <1>4
<1>7. k = f
  <2>1. ASSUME k < f PROVE FALSE
    <3>1. Day * k + Day <= Day * f
        BY <2>1, <1>1, <1>2, <1>4, MulMono
    <3> QED BY <3>1, <1>1, <1>2, <1>4, <1>5, <1>6
  <2>2. ASSUME f < k PROVE FALSE
    <3>1. Day * f + Day <= Day * k
        BY <2>2, <1>1, <1>2, <1>4, MulMono
    <3> QED BY <3>1, <1>1, <1>2, <1>3, <1>4, <1>5, <1>6
  <2> QED BY <2>1, <2>2, <1>1, <1>2
<1>8. time + Hour \in 0..(Day - 1)
    BY <1>1, <1>2, <1>3, <1>4, <1>5, <1>6, <1>7
<1>9. /\ (Day * k + (time + Hour)) % Day = time + Hour
      /\ (Day * k + (time + Hour)) \div Day = k
    BY <1>1, <1>4, <1>8, DivUnique
<1>10. at + time + Hour = Day * k + (time + Hour)
    BY <1>1, <1>4, <1>6
<1> QED BY <1>4, <1>8, <1>9, <1>10 DEF k

\* The parts of a single trigger.
SingleCalendar == trig.mode = "single" /\ trig.parts[1].kind = "calendar"

LEMMA SinglePart ==
    ASSUME TypeInv, SingleCalendar, Len(answers) < Len(trig.parts)
    PROVE  answers = <<>> /\ Part = trig.parts[1] /\ CalendarPart(Part)
<1>1. trig \in Triggers /\ answers \in Seq(Times \cup {None})
    BY DEF TypeInv
<1>2. Len(trig.parts) = 1
    BY <1>1, PartsAre DEF SingleCalendar
<1>3. answers = <<>> /\ Len(answers) = 0
    BY <1>1, <1>2
<1>4. Part = trig.parts[1]
    BY <1>3 DEF Part
<1> QED BY <1>3, <1>4, PartIs DEF SingleCalendar

LEMMA KeepAnswer ==
    ASSUME TypeInv, KeepInv, NEW dt, Answer(dt), UNCHANGED <<trig, prev>>,
           SingleCalendar /\ dt # None => TimeKept(trig.parts[1], dt)
    PROVE  KeepInv'
<1>1. answers' = Append(answers, dt) /\ pc' = "ask" /\ UNCHANGED <<trig, prev>>
    BY DEF Answer
<1>2. \A i \in DOMAIN answers' : answers'[i] = dt \/ (i \in DOMAIN answers /\ answers'[i] = answers[i])
  <2>1. answers \in Seq(Times \cup {None})
      BY DEF TypeInv
  <2> QED BY <2>1, <1>1
<1>3. ASSUME SingleCalendar
      PROVE  \A i \in DOMAIN answers' : answers'[i] # None => TimeKept(trig.parts[1], answers'[i])
    BY <1>2, <1>3 DEF KeepInv, SingleCalendar
<1>4. ASSUME SingleCalendar
      PROVE  \A i \in DOMAIN answers' : answers'[i] # None => TimeKept(trig.parts[1], answers[i])'
    BY <1>1, <1>3, <1>4 DEF TimeKept, DateFound, OneInterval
<1> QED BY <1>1, <1>4 DEF KeepInv, SingleCalendar

\* A step that touches neither the answers nor the dates a calendar is at.
LEMMA KeepRest ==
    ASSUME KeepInv, UNCHANGED <<trig, prev, answers>>,
           pc' \notin {"found", "months", "calendar"}
    PROVE  KeepInv'
    BY DEF KeepInv, TimeKept, DateFound, OneInterval

LEMMA KeepAsk ==
    ASSUME TypeInv, KeepInv, Ask
    PROVE  KeepInv'
<1>1. /\ Len(answers) < Len(trig.parts)
      /\ UNCHANGED <<trig, prev, answers>>
    BY DEF Ask
<1>2. CASE AskCron
  <2>1. pc' \in {"raised", "cron"}
      BY <1>2 DEF AskCron
  <2> QED BY <2>1, <1>1, KeepRest
<1>3. CASE AskCalendar
  <2>1. CASE prev = None
    <3>1. pc' = "calendar"
        BY <1>3, <2>1 DEF AskCalendar
    <3> QED BY <3>1, <2>1, <1>1 DEF KeepInv, TimeKept
  <2>2. CASE prev # None
    <3>1. /\ pc' = "months" /\ since' = DateAt(AsLocal(prev).at)
          /\ fieldnum' = MonthNumber(since')
        BY <1>3, <2>2 DEF AskCalendar
    <3>2. CASE SingleCalendar
      <4> DEFINE part == trig.parts[1]
      <4>1. AsLocal(prev).at \in Wall
          BY <2>2, AsLocalIs DEF TypeInv
      <4>2. since' \in Dates /\ MonthNumber(since') \in Nat
          BY <3>1, <4>1, WallDate, MonthNumberIs
      <4>3. part.months \in Nat
          BY <3>2, <1>1, SinglePart, CalendarPartIs
      <4>4. fieldnum' = MonthFrom(part, since', 0) /\ TooShort(part, since', 0)
          BY <3>1, <4>2, <4>3 DEF MonthFrom, TooShort
      <4>5. SinceIs(part, since')
          BY <3>1 DEF SinceIs
      <4>6. SinceIs(part, since') = SinceIs(part, since)'
          BY <1>1 DEF SinceIs, OneInterval
      <4>7. \E j \in Nat : fieldnum' = MonthFrom(part, since', j) /\ TooShort(part, since', j)
          BY <4>4
      <4>8. \A i \in DOMAIN answers : answers[i] # None => TimeKept(part, answers[i])
          BY <3>2 DEF KeepInv, SingleCalendar
      <4>9. \A i \in DOMAIN answers' : answers'[i] # None => TimeKept(part, answers[i])'
          BY <4>8, <1>1 DEF TimeKept, DateFound, OneInterval
      <4> QED BY <3>1, <4>5, <4>6, <4>7, <4>9, <1>1 DEF KeepInv, MonthFrom, TooShort
    <3>3. CASE ~ SingleCalendar
        BY <3>3, <1>1 DEF KeepInv, SingleCalendar
    <3> QED BY <3>2, <3>3
  <2> QED BY <2>1, <2>2
<1> QED BY <1>2, <1>3 DEF Ask

LEMMA KeepAddMonths ==
    ASSUME TypeInv, KeepInv, AddMonths
    PROVE  KeepInv'
<1>1. /\ pc = "months" /\ Len(answers) < Len(trig.parts)
      /\ UNCHANGED <<trig, prev, answers, since>>
    BY DEF AddMonths, TypeInv
<1> SUFFICES ASSUME SingleCalendar PROVE KeepInv'
    BY <1>1 DEF KeepInv, SingleCalendar
<1>2. CalendarPart(Part) /\ Part = trig.parts[1] /\ answers = <<>>
    BY <1>1, SinglePart
<1>3. since \in Dates /\ fieldnum \in Nat /\ MonthNumber(since) \in Nat
    BY <1>1, MonthNumberIs DEF TypeInv
<1>4. Part.months \in Nat /\ Part.days \in Nat
    BY <1>2, CalendarPartIs
<1>5. DOMAIN answers' = {}
    BY <1>1, <1>2
<1> DEFINE at == fieldnum + Part.months
           year == at \div MaxValue("month") + 1
           month == (at % MaxValue("month")) + 1
<1>6. CASE prev = None
  <2>1. pc' \in {"months", "calendar"}
      BY <1>1 DEF AddMonths
  <2> QED BY <2>1, <1>1, <1>5, <1>6 DEF KeepInv
<1>7. CASE prev # None
  <2>1. SinceIs(Part, since)
      BY <1>1, <1>2, <1>7 DEF KeepInv, SingleCalendar
  <2>2. PICK j \in Nat : fieldnum = MonthFrom(Part, since, j) /\ TooShort(Part, since, j)
      BY <1>1, <1>2, <1>7 DEF KeepInv, SingleCalendar
  <2>3. at = MonthFrom(Part, since, j + 1)
    <3>1. (j + 1) * Part.months = j * Part.months + Part.months /\ j * Part.months \in Nat
        BY <1>4
    <3> QED BY <3>1, <2>2, <1>3, <1>4 DEF MonthFrom
  <2>4. year = YearOf(at) /\ month = MonthIn(at)
      BY DEF YearOf, MonthIn
  <2>5. SinceIs(Part, since)'
      BY <2>1, <1>1 DEF SinceIs, OneInterval, Part
  <2>6. at \in Nat /\ year \in Nat /\ MaxValue("year") \in Nat
    <3>1. at \in Nat
        BY <1>3, <1>4
    <3>2. MaxValue("month") \in Nat \ {0} /\ MaxValue("year") \in Nat
        BY MonthLengths DEF MaxValue
    <3> HIDE DEF at
    <3>3. at \div MaxValue("month") \in Nat
        BY <3>1, <3>2, QuotientNat
    <3> QED BY <3>1, <3>2, <3>3
  <2>7. Part' = Part
      BY <1>1 DEF Part
  <2> HIDE DEF at, year, month
  <2>8. CASE year > MaxValue("year")
    <3>1. UNCHANGED <<next, fieldnum, pc>>
        BY <2>8 DEF AddMonths, year, at
    <3>2. \E i \in Nat : fieldnum' = MonthFrom(Part', since', i) /\ TooShort(Part', since', i)
        BY <3>1, <2>2, <2>7, <1>1
    <3> QED BY <3>1, <3>2, <2>5, <2>7, <1>1, <1>2, <1>5 DEF KeepInv, MonthFrom, TooShort
  <2>9. CASE ~(year > MaxValue("year")) /\ ~(since.day \in 1..MonthDays[year][month])
    <3>1. fieldnum' = at /\ UNCHANGED <<next, pc>>
        BY <2>9 DEF AddMonths, year, at, month
    <3>2. YearOf(at) <= MaxValue("year") /\ MonthDays[YearOf(at)][MonthIn(at)] < since.day
      <4>1. year <= MaxValue("year")
          BY <2>6, <2>9
      <4>2. year \in Years /\ month \in Months
        <5> DEFINE n == MaxValue("month")
        <5>1. n \in Nat \ {0} /\ n = Len(MonthDays[1]) /\ MaxValue("year") = Len(MonthDays)
            BY MonthLengths DEF MaxValue
        <5>2. month = (at % n) + 1 /\ year = (at \div n) + 1
            BY DEF month, year
        <5> HIDE DEF n
        <5>3. at % n \in 0..(n - 1)
          <6>1. at \in Nat /\ n \in Nat \ {0}
              BY <2>6, <5>1
          <6> QED BY <6>1
        <5>4. at \div n \in Nat
            BY <2>6, <5>1, QuotientNat
        <5>5. (at % n) + 1 \in 1..n /\ (at \div n) + 1 >= 1
            BY <5>3, <5>4, <5>1
        <5>6. month \in 1..n /\ year >= 1
            BY <5>2, <5>5
        <5> QED BY <4>1, <5>1, <5>6, <2>6 DEF Years, Months
      <4>3. MonthDays[year][month] \in Nat
          BY <4>2, MonthLengths
      <4>4. since.day \in Nat /\ since.day >= 1
        <5>1. MonthDays[since.year][since.month] \in Nat
            BY <1>3, DatesAre, MonthLengths
        <5> QED BY <5>1, <1>3, DatesAre
      <4>5. MonthDays[year][month] < since.day
          BY <4>3, <4>4, <2>9
      <4> QED BY <4>1, <4>5, <2>4
    <3>3. TooShort(Part, since, j + 1)
      <4> SUFFICES ASSUME NEW i \in 1..(j + 1)
                   PROVE  LET n == MonthFrom(Part, since, i)
                          IN  YearOf(n) <= MaxValue("year")
                              /\ MonthDays[YearOf(n)][MonthIn(n)] < since.day
          BY DEF TooShort
      <4>1. CASE i = j + 1
          BY <4>1, <3>2, <2>3
      <4>2. CASE i # j + 1
        <5>1. i \in 1..j
            BY <4>2
        <5> QED BY <5>1, <2>2 DEF TooShort
      <4> QED BY <4>1, <4>2
    <3>4. \E i \in Nat : fieldnum' = MonthFrom(Part', since', i) /\ TooShort(Part', since', i)
        BY <3>1, <3>3, <2>3, <2>7, <1>1
    <3> QED BY <3>1, <3>4, <2>5, <2>7, <1>1, <1>2, <1>5 DEF KeepInv, MonthFrom, TooShort
  <2>10. CASE ~(year > MaxValue("year")) /\ since.day \in 1..MonthDays[year][month]
    <3>1. /\ next' = Local(Midnight(year, month, since.day) + Part.days * Day, 0)
          /\ pc' = "calendar"
        BY <2>10 DEF AddMonths, year, at, month
    <3>2. YearOf(MonthFrom(Part, since, j + 1)) <= MaxValue("year")
        BY <2>3, <2>4, <2>6, <2>10
    <3> DEFINE reached == DateIs(YearOf(at), MonthIn(at), since.day)
    <3>3. /\ Interval(Part, since) = Midnight(year, month, since.day) + Part.days * Day
          /\ reached \in Dates
          /\ Interval(Part, since) = Day * (Number[reached] + Part.days)
          /\ Number[since] + 1 <= Number[reached] + Part.days
        BY <3>2, <2>2, <2>3, <2>4, <2>10, <1>2, <1>3, IntervalIs
    <3>4. next'.at = Interval(Part, since)
        BY <3>1, <3>3, LocalIs
    <3>5. Number[reached] \in Nat /\ Number[since] \in Nat
        BY <3>3, <1>3, NumberOrder
    <3> HIDE DEF reached
    <3>6. ASSUME OneInterval(Part) \in Wall, OneInterval(Part) % Day = 0,
                 since = DateAt(OneInterval(Part))
          PROVE  OneInterval(Part) + Day <= Interval(Part, since)
      <4> DEFINE one == OneInterval(Part)
      <4>1. one = Day * Number[since] + (one % Day)
          BY <3>6, WallDate
      <4> HIDE DEF one
      <4>2. one = Day * Number[since]
          BY <4>1, <3>5, <3>6, UnitsAre DEF one
      <4>3. Day * Number[since] + Day <= Day * (Number[reached] + Part.days)
        <5>1. Number[since] < Number[reached] + Part.days
            BY <3>3, <3>5, <1>4
        <5> QED BY <5>1, <3>5, <1>4, UnitsAre, MulMono
      <4> QED BY <4>2, <4>3, <3>3 DEF one
    <3>7. DateFound(Part, next'.at)
        BY <3>4, <3>6, <2>1 DEF SinceIs, DateFound, OneInterval
    <3>8. DateFound(Part, next.at)'
        BY <3>7, <2>7, <1>1 DEF DateFound, OneInterval
    <3> QED BY <3>1, <3>8, <2>7, <1>1, <1>2, <1>5 DEF KeepInv
  <2> QED BY <2>8, <2>9, <2>10
<1> QED BY <1>6, <1>7

LEMMA KeepCalendarTurn ==
    ASSUME JumpOnOneDate, TypeInv, KeepInv, CalendarTurn
    PROVE  KeepInv'
<1>1. /\ pc = "calendar" /\ Len(answers) < Len(trig.parts)
      /\ UNCHANGED <<trig, prev, next>>
    BY DEF CalendarTurn, TypeInv
<1> SUFFICES ASSUME SingleCalendar PROVE KeepInv'
    BY <1>1 DEF KeepInv, SingleCalendar
<1>2. CalendarPart(Part) /\ Part = trig.parts[1] /\ answers = <<>>
    BY <1>1, SinglePart
<1>3. next.at \in Nat /\ next.at % Day = 0
    BY <1>1 DEF TypeInv
<1>4. Part.time \in 0..(Day - 1)
    BY <1>2, CalendarPartIs
<1> DEFINE w == next.at + Part.time
           dt == FromTimestamp(Timestamp(next.at + Part.time, 0))
<1>5. CASE Overflows(next)
  <2>1. pc' = "raised" /\ UNCHANGED <<answers, since, fieldnum>>
      BY <1>5 DEF CalendarTurn
  <2> QED BY <2>1, <1>1, KeepRest
<1>6. CASE ~ Overflows(next) /\ PastEnd(Part, next)
  <2>1. Answer(None)
      BY <1>6 DEF CalendarTurn
  <2> QED BY <2>1, <1>1, KeepAnswer
<1>7. CASE ~ Overflows(next) /\ ~ PastEnd(Part, next)
  <2>1. next.at < End
      BY <1>3, <1>7, Changes DEF Overflows
  <2>2. w \in Wall /\ w % Day = Part.time /\ w \div Day = next.at \div Day
      BY <2>1, <1>3, <1>4, OnDate
  <2>3. IF TimeExists(dt, Part.time)
        THEN Answer(dt) /\ UNCHANGED <<since, fieldnum>>
        ELSE /\ since' = DateAt(dt.at)
             /\ fieldnum' = MonthNumber(since')
             /\ pc' = "months"
             /\ UNCHANGED answers
    <3> HIDE DEF dt
    <3> QED BY <1>7 DEF CalendarTurn, dt
  <2>4. /\ dt \in Times /\ Instant(dt) = Timestamp(w, 0) /\ dt = FromTimestamp(Instant(dt))
        /\ dt.at = IF Skipped(w) THEN w + Hour ELSE w
      BY <2>2, ShownIs
  <2>5. Skipped(w) => /\ (w + Hour) % Day = Part.time + Hour
                      /\ (w + Hour) \div Day = next.at \div Day
      BY <2>1, <1>3, <1>4, JumpedTime
  <2>6. w \in Int /\ next.at \in Int /\ Part.time \in Int /\ w - Part.time = next.at
        /\ Hour \in Nat \ {0} /\ Hour <= Day /\ Day \in Nat
      BY <1>3, <1>4, UnitsAre
  <2>7. w = next.at + Part.time
      OBVIOUS
  <2> HIDE DEF w, dt
  <2>8. CASE ~ Skipped(w)
    <3>1. dt.at = w
        BY <2>4, <2>8
    <3>2. TimeExists(dt, Part.time)
        BY <3>1, <2>2 DEF TimeExists
    <3>3. Answer(dt)
        BY <2>3, <3>2
    <3>4. TimeKept(Part, dt)
      <4>1. dt = FromTimestamp(Timestamp(dt.at, 0))
          BY <3>1, <2>4
      <4>2. prev # None => DateFound(Part, dt.at - Part.time)
          BY <3>1, <2>6, <1>1, <1>2 DEF KeepInv, SingleCalendar
      <4> QED BY <4>1, <4>2, <3>1, <2>2 DEF TimeKept
    <3> QED BY <3>3, <3>4, <1>1, <1>2, KeepAnswer
  <2>9. CASE Skipped(w)
    <3>1. dt.at = w + Hour
        BY <2>4, <2>9
    <3>2. ~ TimeExists(dt, Part.time)
        BY <3>1, <2>5, <2>6, <2>9 DEF TimeExists
    <3>3. since' = DateAt(dt.at) /\ fieldnum' = MonthNumber(since') /\ pc' = "months" /\ answers' = answers
        BY <2>3, <3>2
    <3>4. since' = DateAt(next.at)
        BY <3>1, <3>3, <2>5, <2>9 DEF DateAt
    <3>5. ASSUME prev # None
          PROVE  SinceIs(Part, since')
      <4>1. DateFound(Part, next.at)
          BY <3>5, <1>1, <1>2 DEF KeepInv, SingleCalendar
      <4>2. CASE next.at = OneInterval(Part)
        <5>1. next.at \in Wall
            BY <2>1, <1>3, Changes DEF Wall
        <5> QED BY <5>1, <4>2, <3>4, <2>7, <2>9, <1>3 DEF SinceIs
      <4>3. ASSUME OneInterval(Part) \in Wall, Skipped(OneInterval(Part) + Part.time),
                   OneInterval(Part) + Day <= next.at
            PROVE  FALSE
        <5>1. OneInterval(Part) \in Int
            BY <4>3, Changes DEF Wall
        <5> QED BY <5>1, <4>3, <2>6, <2>7, <2>9, Changes DEF Skipped
      <4> QED BY <4>1, <4>2, <4>3 DEF DateFound
    <3>6. since' \in Dates /\ MonthNumber(since') \in Nat
        BY <3>3, <2>4, TimeIs, WallDate, MonthNumberIs
    <3>7. Part.months \in Nat
        BY <1>2, CalendarPartIs
    <3>8. fieldnum' = MonthFrom(Part, since', 0) /\ TooShort(Part, since', 0)
        BY <3>3, <3>6, <3>7 DEF MonthFrom, TooShort
    <3>9. Part' = Part /\ DOMAIN answers' = {}
        BY <3>3, <1>1, <1>2 DEF Part
    <3>10. prev # None => SinceIs(Part, since)'
        BY <3>5, <3>9, <1>1 DEF SinceIs, OneInterval
    <3>11. \E j \in Nat : fieldnum' = MonthFrom(Part', since', j) /\ TooShort(Part', since', j)
        BY <3>8, <3>9
    <3> QED BY <3>3, <3>9, <3>10, <3>11, <1>1, <1>2 DEF KeepInv, MonthFrom, TooShort
  <2> QED BY <2>8, <2>9
<1> QED BY <1>5, <1>6, <1>7

LEMMA KeepCron ==
    ASSUME TypeInv, KeepInv, CronTurn \/ CronAnswers
    PROVE  KeepInv'
<1>1. /\ pc = "cron" /\ UNCHANGED <<trig, prev>> /\ Len(answers) < Len(trig.parts)
      /\ Part.kind = "cron"
    BY DEF CronTurn, CronAnswers, TypeInv
<1>2. ~ SingleCalendar
  <2>1. ASSUME SingleCalendar PROVE FALSE
      BY <2>1, <1>1, SinglePart, CalendarPartIs
  <2> QED BY <2>1
<1> QED BY <1>1, <1>2 DEF KeepInv, SingleCalendar

LEMMA KeepFound ==
    ASSUME TypeInv, KeepInv, Found
    PROVE  KeepInv'
<1>1. pc' = "found" /\ UNCHANGED <<trig, prev, answers>>
    BY DEF Found
<1>2. next' \in Answered \ {None}
    BY TypeFound
<1>3. SingleCalendar => TimeKept(trig.parts[1], next')
    BY <1>2 DEF KeepInv, SingleCalendar, Answered
<1>4. SingleCalendar => \A i \in DOMAIN answers : answers[i] # None => TimeKept(trig.parts[1], answers[i])
    BY DEF KeepInv, SingleCalendar
<1> QED BY <1>1, <1>3, <1>4 DEF KeepInv, SingleCalendar, TimeKept, DateFound, OneInterval

LEMMA KeepStep ==
    ASSUME JumpOnOneDate, TypeInv, KeepInv, [Next]_vars
    PROVE  KeepInv'
<1>1. CASE Over
  <2>1. pc' = "end" /\ UNCHANGED <<trig, prev, answers>>
      BY <1>1 DEF Over
  <2> QED BY <2>1, KeepRest
<1>2. CASE AskAgain
  <2>1. pc' = "ask" /\ answers' = <<>>
      BY <1>2 DEF AskAgain
  <2> QED BY <2>1 DEF KeepInv
<1>3. CASE Fire
  <2>1. pc' = "ask" /\ answers' = <<>>
      BY <1>3 DEF Fire
  <2> QED BY <2>1 DEF KeepInv
<1>4. CASE UNCHANGED vars
    BY <1>4 DEF vars, search, KeepInv, TimeKept, DateFound, SinceIs, OneInterval, MonthFrom, TooShort
<1> QED BY <1>1, <1>2, <1>3, <1>4, KeepAsk, KeepCron, KeepAddMonths, KeepCalendarTurn,
           KeepFound DEF Next, Turns

\* A CalendarIntervalTrigger answers its time of day, on the date one interval
\* after the date it fired on, or two where the clocks jump over that time: for
\* every calendar in which the jump does not reach the next date.
THEOREM CalendarKeepsTimeHolds ==
    ASSUME JumpOnOneDate
    PROVE  Spec => []CalendarKeepsTime
<1>1. Init => TypeInv /\ KeepInv
    BY TypeInit DEF Init, KeepInv
<1>2. TypeInv /\ KeepInv /\ [Next]_vars => TypeInv' /\ KeepInv'
    BY TypeStep, KeepStep
<1>3. TypeInv /\ KeepInv => CalendarKeepsTime
  <2> SUFFICES ASSUME TypeInv, KeepInv, pc = "found", SingleCalendar
               PROVE  LET part == trig.parts[1] IN
                      /\ next = FromTimestamp(Timestamp(next.at, 0))
                      /\ next.at % Day = part.time
                      /\ prev # None =>
                            LET one == Interval(part, DateAt(AsLocal(prev).at))
                                gap == one + part.time
                            IN  \/ next.at = gap
                                \/ /\ FromTimestamp(Timestamp(gap, 0)).at # gap
                                   /\ next.at = Interval(part, DateAt(one)) + part.time
      BY DEF CalendarKeepsTime, SingleCalendar
  <2> DEFINE part == trig.parts[1]
  <2>1. TimeKept(part, next)
      BY DEF KeepInv, SingleCalendar
  <2>2. next.at \in Int
      BY TimeIs DEF TypeInv
  <2>3. part.time \in Int /\ 0 <= part.time
    <3>1. CalendarPart(part)
        BY PartsAre DEF TypeInv, SingleCalendar
    <3> QED BY <3>1, CalendarPartIs, UnitsAre
  <2>4. ASSUME prev # None
        PROVE  LET one == OneInterval(part)
                   gap == one + part.time
               IN  \/ next.at = gap
                   \/ /\ FromTimestamp(Timestamp(gap, 0)).at # gap
                      /\ next.at = Interval(part, DateAt(one)) + part.time
    <3>1. DateFound(part, next.at - part.time)
        BY <2>1, <2>4 DEF TimeKept
    <3>2. CASE next.at - part.time = OneInterval(part)
        BY <3>2, <2>2, <2>3
    <3>3. CASE /\ OneInterval(part) \in Wall
               /\ Skipped(OneInterval(part) + part.time)
               /\ next.at - part.time = Interval(part, DateAt(OneInterval(part)))
      <4> DEFINE gap == OneInterval(part) + part.time
      <4>1. gap \in Wall /\ gap \in Int
          BY <3>3, <2>3, Changes DEF Wall, Skipped
      <4> HIDE DEF gap
      <4>2. FromTimestamp(Timestamp(gap, 0)).at = gap + Hour
          BY <4>1, <3>3, ShownIs DEF gap
      <4>3. FromTimestamp(Timestamp(gap, 0)).at # gap
          BY <4>1, <4>2, Changes
      <4>4. next.at = Interval(part, DateAt(OneInterval(part))) + part.time
          BY <3>3, <2>2, <2>3
      <4> QED BY <4>3, <4>4 DEF gap
    <3> QED BY <3>1, <3>2, <3>3 DEF DateFound
  <2> QED BY <2>1, <2>4 DEF TimeKept, OneInterval
<1> QED BY <1>1, <1>2, <1>3, PTL DEF Spec

-----------------------------------------------------------------------------
(* Dates of one month follow each other.                                   *)

LEMMA NumberNext ==
    ASSUME NEW y, NEW m, NEW d \in Nat, DateIs(y, m, d) \in Dates, DateIs(y, m, d + 1) \in Dates
    PROVE  Number[DateIs(y, m, d + 1)] = Number[DateIs(y, m, d)] + 1
<1> DEFINE a == DateIs(y, m, d)  b == DateIs(y, m, d + 1)
           A == {x \in Dates : Earlier(x, a)}  B == {x \in Dates : Earlier(x, b)}
<1>1. y \in Nat /\ m \in Nat
    BY DatesAre, MonthLengths DEF Years, Months
<1>2. \A x \in Dates : x.year \in Nat /\ x.month \in Nat /\ x.day \in Nat
                       /\ x = DateIs(x.year, x.month, x.day)
  <2> SUFFICES ASSUME NEW x \in Dates
               PROVE  x.year \in Nat /\ x.month \in Nat /\ x.day \in Nat
                      /\ x = DateIs(x.year, x.month, x.day)
      OBVIOUS
  <2>1. x.year \in Years /\ x.month \in Months /\ x.day \in 1..MonthDays[x.year][x.month]
        /\ x = DateIs(x.year, x.month, x.day)
      BY DatesAre
  <2>2. MonthDays[x.year][x.month] \in Nat
      BY <2>1, MonthLengths
  <2> QED BY <2>1, <2>2, MonthLengths DEF Years, Months
<1>3. a.year = y /\ a.month = m /\ a.day = d /\ b.year = y /\ b.month = m /\ b.day = d + 1
    BY DEF DateIs
<1>4. \A x \in Dates : Earlier(x, b) <=> Earlier(x, a) \/ x = a
  <2> SUFFICES ASSUME NEW x \in Dates PROVE Earlier(x, b) <=> Earlier(x, a) \/ x = a
      OBVIOUS
  <2>1. x.day < d + 1 <=> x.day < d \/ x.day = d
      BY <1>2
  <2>2. x = a <=> x.year = y /\ x.month = m /\ x.day = d
      BY <1>2, <1>3
  <2>3. ~(y < y) /\ ~(m < m)
      BY <1>1
  <2> HIDE DEF a, b
  <2> QED BY <2>1, <2>2, <2>3, <1>3 DEF Earlier
<1>5. B = A \cup {a} /\ a \notin A
  <2>1. a \in Dates /\ ~ Earlier(a, a)
      BY EarlierOrder
  <2> HIDE DEF a, b
  <2> QED BY <1>4, <2>1
<1>6. IsFiniteSet(A)
    BY DatesFinite, FS_Subset
<1>7. Cardinality(B) = Cardinality(A) + 1
  <2> HIDE DEF A, B, a, b
  <2> QED BY <1>5, <1>6, FS_AddElement
<1> QED BY <1>7 DEF Number

LEMMA NumberInMonth ==
    ASSUME NEW y, NEW m, NEW d \in Nat, DateIs(y, m, d) \in Dates
    PROVE  /\ DateIs(y, m, 1) \in Dates
           /\ Number[DateIs(y, m, d)] = Number[DateIs(y, m, 1)] + d - 1
<1> DEFINE f(k) == Number[DateIs(y, m, k)]
           Wrong == {k \in 1..d : f(k) # f(1) + k - 1}
<1>1. y \in Years /\ m \in Months /\ d \in 1..MonthDays[y][m] /\ MonthDays[y][m] \in Nat
    BY DatesAre, MonthLengths
<1>2. \A k \in 1..d : DateIs(y, m, k) \in Dates /\ f(k) \in Nat
  <2>1. \A k \in 1..d : k \in 1..MonthDays[y][m]
      BY <1>1
  <2> QED BY <1>1, <2>1, DatesAre, NumberOrder
<1>3. 1 \in 1..d /\ d \in 1..d
    BY <1>1
<1>4. ASSUME Wrong # {} PROVE FALSE
  <2>1. Wrong \in SUBSET Nat
      OBVIOUS
  <2>2. PICK k \in Wrong : \A i \in Wrong : k <= i
    <3> HIDE DEF Wrong
    <3> QED BY <2>1, <1>4, LeastNat
  <2>3. k \in 1..d /\ f(k) # f(1) + k - 1
      OBVIOUS
  <2>4. k # 1
      BY <2>3, <1>2, <1>3
  <2>5. k - 1 \in 1..d /\ k - 1 \in Nat /\ k = (k - 1) + 1
      BY <2>3, <2>4
  <2>6. f(k - 1) = f(1) + (k - 1) - 1
    <3>1. k - 1 \notin Wrong
        BY <2>2, <2>5
    <3> QED BY <3>1, <2>5
  <2>7. f(k) = f(k - 1) + 1
      BY <2>3, <2>5, <1>2, NumberNext
  <2> QED BY <2>3, <2>5, <2>6, <2>7, <1>2, <1>3
<1> QED BY <1>2, <1>3, <1>4

\* The hours are counted through the days.
LEMMA HourIs ==
    ASSUME NEW w \in Wall
    PROVE  /\ w \div Hour \in Nat
           /\ w \div Hour = (HoursPerDay * (w \div Day)) + Value("hour", w)
           /\ w % Hour = Value("minute", w)
           /\ w % Hour \in 0..(Hour - 1)
           /\ w = (Hour * (w \div Hour)) + (w % Hour)
<1> DEFINE q == w \div Day  h == Value("hour", w)  m == Value("minute", w)
<1>1. w \in Nat /\ q \in Nat /\ w % Day \in 0..(Day - 1) /\ w = (Day * q) + (w % Day)
  <2>1. w \in Nat
      BY Changes DEF Wall
  <2>2. Day \in Nat \ {0}
      BY UnitsAre
  <2>3. q \in Nat
      BY <2>1, <2>2, QuotientNat
  <2> QED BY <2>1, <2>2, <2>3, DivMod
<1>2. h \in 0..(HoursPerDay - 1) /\ m \in 0..(Hour - 1) /\ w % Day = (Hour * h) + m
    BY ValueRange
<1>3. m = w % Hour
    BY Values
<1> HIDE DEF q, h, m
<1>4. Hour \in Nat \ {0} /\ HoursPerDay \in Nat \ {0} /\ Day = HoursPerDay * Hour
    BY UnitsAre
<1>5. (HoursPerDay * q) + h \in Nat
    BY <1>1, <1>2, <1>4
<1>6. w = (Hour * ((HoursPerDay * q) + h)) + m
    BY <1>1, <1>2, <1>4
<1>7. w \div Hour = (HoursPerDay * q) + h
  <2> DEFINE k == (HoursPerDay * q) + h
  <2>1. k \in Int /\ w = (Hour * k) + m
      BY <1>5, <1>6
  <2> HIDE DEF k
  <2>2. ((Hour * k) + m) \div Hour = k
      BY <2>1, <1>2, <1>4, DivUnique
  <2> QED BY <2>1, <2>2 DEF k
<1> QED BY <1>1, <1>2, <1>3, <1>4, <1>5, <1>6, <1>7 DEF q, h, m

\* a and b agree on the fields before the n-th.
Agree(n, a, b) == \A k \in 1..(n - 1) : Value(FieldNames[k], a) = Value(FieldNames[k], b)

LEMMA AgreeIs ==
    ASSUME NEW a \in Wall, NEW b \in Wall
    PROVE  /\ Agree(1, a, b)
           /\ Agree(2, a, b) <=> DateAt(a).year = DateAt(b).year
           /\ Agree(3, a, b) <=> DateAt(a).year = DateAt(b).year /\ DateAt(a).month = DateAt(b).month
           /\ \A n \in 4..6 : Agree(n, a, b) <=> a \div Day = b \div Day
           /\ Agree(7, a, b) <=> a \div Hour = b \div Hour
           /\ Agree(8, a, b) <=> a = b
           /\ a \div Day = b \div Day <=> DateAt(a) = DateAt(b)
<1> DEFINE E(k) == Value(FieldNames[k], a) = Value(FieldNames[k], b)
<1>1. /\ E(1) <=> DateAt(a).year = DateAt(b).year
      /\ E(2) <=> DateAt(a).month = DateAt(b).month
      /\ E(3) <=> DateAt(a).day = DateAt(b).day
      /\ E(4) <=> Week(a) = Week(b)
      /\ E(5) <=> Weekday(a) = Weekday(b)
      /\ E(6) <=> Value("hour", a) = Value("hour", b)
      /\ E(7) <=> Value("minute", a) = Value("minute", b)
    BY Names, Values
<1>2. a \div Day = b \div Day => Week(a) = Week(b) /\ Weekday(a) = Weekday(b) /\ DateAt(a) = DateAt(b)
    BY DEF Week, Weekday, DateAt
<1>3. DateAt(a) = DateAt(b) => a \div Day = b \div Day
    BY WallDate
<1>4. DateAt(a) = DateAt(b) <=> /\ DateAt(a).year = DateAt(b).year
                                /\ DateAt(a).month = DateAt(b).month
                                /\ DateAt(a).day = DateAt(b).day
  <2>1. /\ DateAt(a) = DateIs(DateAt(a).year, DateAt(a).month, DateAt(a).day)
        /\ DateAt(b) = DateIs(DateAt(b).year, DateAt(b).month, DateAt(b).day)
      BY WallDate, DatesAre
  <2> QED BY <2>1
<1>5. /\ Agree(1, a, b)
      /\ Agree(2, a, b) <=> E(1)
      /\ Agree(3, a, b) <=> E(1) /\ E(2)
      /\ Agree(4, a, b) <=> E(1) /\ E(2) /\ E(3)
      /\ Agree(5, a, b) <=> E(1) /\ E(2) /\ E(3) /\ E(4)
      /\ Agree(6, a, b) <=> E(1) /\ E(2) /\ E(3) /\ E(4) /\ E(5)
      /\ Agree(7, a, b) <=> E(1) /\ E(2) /\ E(3) /\ E(4) /\ E(5) /\ E(6)
      /\ Agree(8, a, b) <=> E(1) /\ E(2) /\ E(3) /\ E(4) /\ E(5) /\ E(6) /\ E(7)
  <2>1. /\ 1..(1 - 1) = {} /\ 1..(2 - 1) = {1} /\ 1..(3 - 1) = {1, 2} /\ 1..(4 - 1) = {1, 2, 3}
        /\ 1..(5 - 1) = {1, 2, 3, 4} /\ 1..(6 - 1) = {1, 2, 3, 4, 5}
        /\ 1..(7 - 1) = {1, 2, 3, 4, 5, 6} /\ 1..(8 - 1) = {1, 2, 3, 4, 5, 6, 7}
      OBVIOUS
  <2> HIDE DEF E
  <2> QED BY <2>1 DEF Agree, E
<1> HIDE DEF E
<1>6. a \div Hour = b \div Hour <=> a \div Day = b \div Day /\ Value("hour", a) = Value("hour", b)
  <2> DEFINE p == a \div Day  q == b \div Day  g == Value("hour", a)  h == Value("hour", b)
  <2>1. p \in Int /\ q \in Int
      BY WallDate
  <2>2. g \in 0..(HoursPerDay - 1) /\ h \in 0..(HoursPerDay - 1) /\ HoursPerDay \in Nat \ {0}
      BY ValueRange, UnitsAre
  <2>3. a \div Hour = (HoursPerDay * p) + g /\ b \div Hour = (HoursPerDay * q) + h
      BY HourIs
  <2> HIDE DEF p, q, g, h
  <2>4. ((HoursPerDay * p) + g) \div HoursPerDay = p /\ ((HoursPerDay * p) + g) % HoursPerDay = g
      BY <2>1, <2>2, DivUnique
  <2>5. ((HoursPerDay * q) + h) \div HoursPerDay = q /\ ((HoursPerDay * q) + h) % HoursPerDay = h
      BY <2>1, <2>2, DivUnique
  <2> QED BY <2>3, <2>4, <2>5 DEF p, q, g, h
<1>7. a = b <=> a \div Hour = b \div Hour /\ Value("minute", a) = Value("minute", b)
    BY HourIs
<1>8. \A n \in 4..6 : n = 4 \/ n = 5 \/ n = 6
    OBVIOUS
<1> QED BY <1>1, <1>2, <1>3, <1>4, <1>5, <1>6, <1>7, <1>8

LEMMA DivMono ==
    ASSUME NEW d \in Nat \ {0}, NEW a \in Int, NEW b \in Int, a <= b
    PROVE  a \div d <= b \div d
<1> DEFINE p == a \div d  q == b \div d
<1>1. p \in Int /\ a % d \in 0..(d - 1) /\ a = (d * p) + (a % d)
    BY DivMod
<1>2. q \in Int /\ b % d \in 0..(d - 1) /\ b = (d * q) + (b % d)
    BY DivMod
<1> HIDE DEF p, q
<1>3. ASSUME q < p PROVE FALSE
  <2>1. d * q + d <= d * p /\ d * q \in Int /\ d * p \in Int
      BY <1>1, <1>2, <1>3, MulMono
  <2> QED BY <2>1, <1>1, <1>2
<1>4. p <= q
    BY <1>1, <1>2, <1>3
<1> QED BY <1>4 DEF p, q

LEMMA DateParts ==
    ASSUME NEW w \in Wall
    PROVE  /\ DateAt(w).year \in Nat \ {0} /\ DateAt(w).month \in Nat \ {0}
           /\ DateAt(w).day \in Nat \ {0}
<1>1. DateAt(w) \in Dates
    BY WallDate
<1>2. /\ DateAt(w).year \in Years /\ DateAt(w).month \in Months
      /\ DateAt(w).day \in 1..MonthDays[DateAt(w).year][DateAt(w).month]
    BY <1>1, DatesAre
<1>3. MonthDays[DateAt(w).year][DateAt(w).month] \in Nat
    BY <1>2, MonthLengths
<1> QED BY <1>2, <1>3, MonthLengths DEF Years, Months

\* A later reading has no earlier date.
LEMMA DateMono ==
    ASSUME NEW a \in Wall, NEW b \in Wall, a <= b
    PROVE  LET A == DateAt(a)  B == DateAt(b)
           IN  \/ A.year < B.year
               \/ A.year = B.year /\ A.month < B.month
               \/ A.year = B.year /\ A.month = B.month /\ A.day <= B.day
<1>1. a = b \/ a < b
    BY Changes DEF Wall
<1>2. /\ DateAt(a).year \in Nat /\ DateAt(a).month \in Nat /\ DateAt(a).day \in Nat
      /\ DateAt(b).year \in Nat /\ DateAt(b).month \in Nat /\ DateAt(b).day \in Nat
  <2>1. ASSUME NEW w \in Wall
        PROVE  DateAt(w).year \in Nat /\ DateAt(w).month \in Nat /\ DateAt(w).day \in Nat
    <3>1. DateAt(w).year \in Years /\ DateAt(w).month \in Months
        BY ValueRange, Values
    <3>2. DateAt(w).day \in 1..MaxAt("day", w)
        BY ValueRange, Values
    <3>3. 1..MaxAt("day", w) \subseteq Nat
        OBVIOUS
    <3>4. Years \subseteq Nat /\ Months \subseteq Nat
        BY MonthLengths DEF Years, Months
    <3>5. DateAt(w).day \in Nat
        BY ONLY <3>2, <3>3
    <3> QED BY ONLY <3>1, <3>4, <3>5
  <2> QED BY <2>1
<1> QED BY <1>1, <1>2, WallOrder DEF Earlier

\* What two readings agree on, those in between agree on.
LEMMA AgreeBetween ==
    ASSUME NEW a \in Wall, NEW x \in Wall, NEW b \in Wall, a <= x, x <= b,
           NEW n \in 1..8, Agree(n, a, b)
    PROVE  Agree(n, a, x)
<1>1. /\ DateAt(a).year \in Nat /\ DateAt(a).month \in Nat
      /\ DateAt(x).year \in Nat /\ DateAt(x).month \in Nat
      /\ DateAt(b).year \in Nat /\ DateAt(b).month \in Nat
    BY DateParts
<1>2. a \in Int /\ x \in Int /\ b \in Int /\ Day \in Nat \ {0} /\ Hour \in Nat \ {0}
    BY UnitsAre, Changes DEF Wall
<1>3. CASE n = 1
    BY <1>3, AgreeIs
<1>4. CASE n = 2
  <2>1. DateAt(a).year = DateAt(b).year
      BY <1>4, AgreeIs
  <2>2. DateAt(a).year <= DateAt(x).year /\ DateAt(x).year <= DateAt(b).year
      BY <1>1, DateMono
  <2> QED BY <2>1, <2>2, <1>1, <1>4, AgreeIs
<1>5. CASE n = 3
  <2>1. DateAt(a).year = DateAt(b).year /\ DateAt(a).month = DateAt(b).month
      BY <1>5, AgreeIs
  <2>2. DateAt(a).year <= DateAt(x).year /\ DateAt(x).year <= DateAt(b).year
      BY <1>1, DateMono
  <2>3. DateAt(a).year = DateAt(x).year
      BY <2>1, <2>2, <1>1
  <2>4. DateAt(a).month <= DateAt(x).month /\ DateAt(x).month <= DateAt(b).month
    <3>1. DateAt(x).year = DateAt(b).year
        BY <2>1, <2>3
    <3>2. DateAt(a).month <= DateAt(x).month
        BY <2>3, <1>1, DateMono
    <3>3. DateAt(x).month <= DateAt(b).month
        BY <3>1, <1>1, DateMono
    <3> QED BY <3>2, <3>3
  <2> QED BY <2>1, <2>3, <2>4, <1>1, <1>5, AgreeIs
<1>6. CASE n \in 4..6
  <2>1. a \div Day = b \div Day
      BY <1>6, AgreeIs
  <2>2. a \div Day <= x \div Day /\ x \div Day <= b \div Day
      BY <1>2, DivMono
  <2>3. a \div Day \in Int /\ x \div Day \in Int
      BY WallDate
  <2>4. a \div Day = x \div Day
      BY <2>1, <2>2, <2>3
  <2> QED BY <2>4, <1>6, AgreeIs
<1>7. CASE n = 7
  <2>1. a \div Hour = b \div Hour
      BY <1>7, AgreeIs
  <2>2. a \div Hour <= x \div Hour /\ x \div Hour <= b \div Hour
      BY <1>2, DivMono
  <2>3. a \div Hour \in Int /\ x \div Hour \in Int
      BY HourIs
  <2>4. a \div Hour = x \div Hour
      BY <2>1, <2>2, <2>3
  <2> QED BY <2>4, <1>7, AgreeIs
<1>8. CASE n = 8
  <2>1. a = b
      BY <1>8, AgreeIs
  <2>2. a = x
      BY <2>1, <1>2
  <2> QED BY <2>2, <1>8, AgreeIs
<1> QED BY <1>3, <1>4, <1>5, <1>6, <1>7, <1>8

\* The value of a field does not fall where the fields before it stay.
LEMMA ValueMono ==
    ASSUME NEW a \in Wall, NEW x \in Wall, a <= x, NEW n \in 1..7, Agree(n, a, x)
    PROVE  /\ Value(FieldNames[n], a) <= Value(FieldNames[n], x)
           /\ n \in {4, 5} => Value(FieldNames[n], a) = Value(FieldNames[n], x)
<1> DEFINE u == Value(FieldNames[n], a)  v == Value(FieldNames[n], x)
<1>1. u \in Int /\ v \in Int
    BY FieldTypes
<1> DEFINE A == DateAt(a)  B == DateAt(x)
<1>8. /\ A.year \in Nat /\ A.month \in Nat /\ A.day \in Nat
      /\ B.year \in Nat /\ B.month \in Nat /\ B.day \in Nat
    BY DateParts
<1>9. \/ A.year < B.year
      \/ A.year = B.year /\ A.month < B.month
      \/ A.year = B.year /\ A.month = B.month /\ A.day <= B.day
    BY DateMono
<1>10. /\ n = 1 => u = A.year /\ v = B.year
       /\ n = 2 => u = A.month /\ v = B.month /\ A.year = B.year
       /\ n = 3 => u = A.day /\ v = B.day /\ A.year = B.year /\ A.month = B.month
    BY Names, Values, AgreeIs
<1>2. CASE n \in {1, 2, 3}
  <2> HIDE DEF A, B, u, v
  <2> QED BY <1>2, <1>8, <1>9, <1>10 DEF u, v
<1>5. CASE n \in {4, 5}
  <2>1. a \div Day = x \div Day
      BY <1>5, AgreeIs
  <2>2. Week(a) = Week(x) /\ Weekday(a) = Weekday(x)
      BY <2>1 DEF Week, Weekday
  <2>3. u = v
      BY <2>2, <1>5, Names, Values
  <2> QED BY <2>3, <1>1
<1>6. CASE n = 6
  <2>1. a \div Day = x \div Day
      BY <1>6, AgreeIs
  <2>2. a \div Hour <= x \div Hour
      BY UnitsAre, DivMono, Changes DEF Wall
  <2>3. /\ a \div Hour = (HoursPerDay * (a \div Day)) + u
        /\ x \div Hour = (HoursPerDay * (x \div Day)) + v
      BY <1>6, Names, HourIs
  <2> DEFINE k == HoursPerDay * (a \div Day)
  <2>4. k \in Int
      BY WallDate, UnitsAre
  <2>5. a \div Hour = k + u /\ x \div Hour = k + v
      BY <2>1, <2>3
  <2> HIDE DEF k, u, v
  <2> QED BY <2>2, <2>4, <2>5, <1>1, <1>6 DEF u, v
<1>7. CASE n = 7
  <2>1. a \div Hour = x \div Hour
      BY <1>7, AgreeIs
  <2> DEFINE k == Hour * (a \div Hour)
  <2>2. a = k + u /\ x = k + v
      BY <2>1, <1>7, Names, HourIs
  <2>3. k \in Int
      BY HourIs, UnitsAre
  <2> HIDE DEF k, u, v
  <2> QED BY <2>2, <2>3, <1>1, <1>7 DEF u, v
<1> QED BY <1>2, <1>5, <1>6, <1>7

LEMMA MaxAgree ==
    ASSUME NEW a \in Wall, NEW b \in Wall, NEW n \in 1..7, Agree(n, a, b)
    PROVE  MaxAt(FieldNames[n], a) = MaxAt(FieldNames[n], b)
<1>1. n = 3 => MonthLength(a) = MonthLength(b)
    BY AgreeIs DEF MonthLength
<1>2. FieldNames[n] = "day" <=> n = 3
    BY Names
<1> QED BY <1>1, <1>2 DEF MaxAt

\* A field at its maximum stays there, while the ones before it stay.
LEMMA Climb ==
    ASSUME NEW a \in Wall, NEW x \in Wall, a <= x, NEW n \in 1..6, Agree(n, a, x),
           n \in RealFields => Value(FieldNames[n], a) = MaxAt(FieldNames[n], a)
    PROVE  Agree(n + 1, a, x)
<1>1. Value(FieldNames[n], a) = Value(FieldNames[n], x)
  <2>1. CASE n \in {4, 5}
      BY <2>1, ValueMono
  <2>2. CASE n \notin {4, 5}
    <3>1. n \in RealFields /\ n \in 1..7 /\ n # 4
        BY <2>2 DEF RealFields
    <3>2. Value(FieldNames[n], a) = MaxAt(FieldNames[n], x)
        BY <3>1, MaxAgree
    <3>3. Value(FieldNames[n], x) <= MaxAt(FieldNames[n], x)
          /\ Value(FieldNames[n], x) \in Int /\ Value(FieldNames[n], a) \in Int
        BY <3>1, FieldTypes
    <3>4. Value(FieldNames[n], a) <= Value(FieldNames[n], x)
        BY <3>1, ValueMono
    <3> QED BY <3>2, <3>3, <3>4
  <2> QED BY <2>1, <2>2
<1>2. \A k \in 1..((n + 1) - 1) : k \in 1..(n - 1) \/ k = n
    OBVIOUS
<1> QED BY <1>1, <1>2 DEF Agree

\* What a field that is set comes to, and the readings that are left out.
LEMMA ReadingAgrees ==
    ASSUME NEW wall \in Wall, NEW n, NEW v, Settable(wall, n, v)
    PROVE  LET r == Reading(wall, n, v)
           IN  /\ Agree(n, wall, r) /\ r \in Wall
               /\ Value(FieldNames[n], r) = v
               /\ n \in {1, 2, 3} => r % Day = 0
               /\ n # 7 => r % Hour = 0
<1> DEFINE r == Reading(wall, n, v)
           x == IF n = 7 THEN Hour * Value("hour", wall) + v
                ELSE IF n = 6 THEN Hour * v ELSE 0
<1>1. /\ r \in Wall /\ r % Day = x /\ x \in 0..(Day - 1)
      /\ n = 1 => DateAt(r) = DateIs(v, 1, 1)
      /\ n = 2 => DateAt(r) = DateIs(DateAt(wall).year, v, 1)
      /\ n = 3 => DateAt(r) = DateIs(DateAt(wall).year, DateAt(wall).month, v)
      /\ n \in {6, 7} => DateAt(r) = DateAt(wall)
    BY ReadingIs
<1>2. n \in RealFields /\ v \in MinValue(FieldNames[n])..MaxAt(FieldNames[n], wall)
    BY DEF Settable
<1> HIDE DEF r
<1>3. r % Hour = (r % Day) % Hour
    BY <1>1, MinuteOfHour
<1>4. 0 \div Hour = 0 /\ 0 % Hour = 0
  <2>1. Hour \in Nat \ {0}
      BY UnitsAre
  <2> QED BY <2>1
<1>5. CASE n \in {1, 2, 3}
  <2>1. r % Day = 0 /\ r % Hour = 0
      BY <1>1, <1>3, <1>4, <1>5
  <2>2. /\ n = 1 => DateAt(r).year = v
        /\ n = 2 => DateAt(r).year = DateAt(wall).year /\ DateAt(r).month = v
        /\ n = 3 => /\ DateAt(r).year = DateAt(wall).year
                    /\ DateAt(r).month = DateAt(wall).month /\ DateAt(r).day = v
      BY <1>1 DEF DateIs
  <2> QED BY <2>1, <2>2, <1>1, <1>5, AgreeIs, Names, Values DEF r
<1>6. CASE n = 6
  <2>1. v \in 0..(HoursPerDay - 1)
      BY <1>2, <1>6, Names, Maxima, Minima
  <2>2. r % Day = Hour * v + 0 /\ 0 \in 0..(Hour - 1)
      BY <2>1, <1>1, <1>6, UnitsAre
  <2>3. (r % Day) \div Hour = v /\ (r % Day) % Hour = 0
      BY <2>1, <2>2, DayTime
  <2>4. r \div Day = wall \div Day
      BY <1>1, <1>6, AgreeIs
  <2>5. Agree(6, wall, r)
      BY <2>4, <1>1, AgreeIs
  <2> QED BY <2>3, <2>5, <1>1, <1>3, <1>6, Names, Values DEF r
<1>7. CASE n = 7
  <2>1. v \in 0..(Hour - 1) /\ Value("hour", wall) \in 0..(HoursPerDay - 1)
      BY <1>2, <1>7, Names, Maxima, Minima, ValueRange
  <2>2. r % Day = Hour * Value("hour", wall) + v
      BY <1>1, <1>7
  <2>3. (r % Day) \div Hour = Value("hour", wall) /\ (r % Day) % Hour = v
      BY <2>1, <2>2, DayTime
  <2>4. r \div Day = wall \div Day
      BY <1>1, <1>7, AgreeIs
  <2>5. Value("hour", r) = Value("hour", wall)
      BY <2>3, Values
  <2>6. r \div Hour = wall \div Hour
      BY <2>4, <2>5, <1>1, HourIs
  <2>7. Agree(7, wall, r)
      BY <2>6, <1>1, AgreeIs
  <2> QED BY <2>3, <2>7, <1>1, <1>3, <1>7, Names, Values DEF r
<1> QED BY <1>2, <1>5, <1>6, <1>7 DEF RealFields

\* Multiples of d, next to a.
LEMMA Block ==
    ASSUME NEW d \in Nat \ {0}, NEW a \in Nat
    PROVE  LET lo == d * (a \div d)
           IN  /\ lo \in Nat /\ lo <= a /\ a < lo + d /\ a = lo + (a % d)
               /\ \A z \in Nat : z % d = 0 => (z <= a => z <= lo) /\ (a < z => lo + d <= z)
               /\ \A x \in Nat : x \div d = a \div d <=> lo <= x /\ x < lo + d
<1> DEFINE q == a \div d
<1>2. ASSUME NEW x \in Nat
      PROVE  /\ x \div d \in Nat /\ x % d \in 0..(d - 1) /\ x = (d * (x \div d)) + (x % d)
             /\ d * (x \div d) \in Nat
  <2>1. x \in Int
      OBVIOUS
  <2>2. x % d \in 0..(d - 1) /\ x = (d * (x \div d)) + (x % d)
      BY <2>1, DivMod
  <2> DEFINE p == x \div d
  <2>3. p \in Nat
      BY QuotientNat
  <2> HIDE DEF p
  <2>4. d * p \in Nat
      BY <2>3
  <2> QED BY <2>2, <2>3, <2>4 DEF p
<1>1. q \in Nat /\ a % d \in 0..(d - 1) /\ a = (d * q) + (a % d)
    BY <1>2
<1>3. d * q \in Nat
    BY <1>1
<1>4. ASSUME NEW x \in Nat
      PROVE  /\ x \div d < q => x < d * q
             /\ q < x \div d => d * q + d <= d * (x \div d)
             /\ x \div d = q => d * q <= x /\ x < d * q + d
  <2> DEFINE p == x \div d
  <2>1. p \in Nat /\ d * p \in Nat /\ x % d \in 0..(d - 1) /\ x = (d * p) + (x % d)
      BY <1>2
  <2> HIDE DEF p, q
  <2>2. p < q => d * p + d <= d * q
      BY <2>1, <1>1, MulMono
  <2>3. q < p => d * q + d <= d * p
      BY <2>1, <1>1, MulMono
  <2>4. p = q => d * p = d * q
      OBVIOUS
  <2> QED BY <2>1, <2>2, <2>3, <2>4, <1>3 DEF p
<1>5. ASSUME NEW x \in Nat PROVE x \div d = q <=> d * q <= x /\ x < d * q + d
  <2> DEFINE p == x \div d
  <2>1. p \in Nat /\ d * p \in Nat /\ x % d \in 0..(d - 1) /\ x = (d * p) + (x % d)
      BY <1>2
  <2>2. p < q => x < d * q
      BY <1>4
  <2>3. q < p => d * q + d <= d * p
      BY <1>4
  <2>4. p = q => d * q <= x /\ x < d * q + d
      BY <1>4
  <2> HIDE DEF p, q
  <2> QED BY <2>1, <2>2, <2>3, <2>4, <1>1, <1>3 DEF p
<1>6. ASSUME NEW z \in Nat, z % d = 0
      PROVE  (z <= a => z <= d * q) /\ (a < z => d * q + d <= z)
  <2> DEFINE p == z \div d
  <2>1. p \in Nat /\ d * p \in Nat /\ z = d * p
      BY <1>2, <1>6
  <2>2. q < p => d * q + d <= d * p
      BY <1>4
  <2>3. p = q => d * q = d * p
      OBVIOUS
  <2>4. p < q => z < d * q
      BY <1>4
  <2> HIDE DEF p, q
  <2> QED BY <2>1, <2>2, <2>3, <2>4, <1>1, <1>3
<1> HIDE DEF q
<1>7. d * q <= a /\ a < d * q + d
    BY <1>1, <1>3
<1> QED BY <1>1, <1>3, <1>5, <1>6, <1>7 DEF q

\* A reading whose n-th field is v or more is not before the one that is set to v.
LEMMA ReadingLeast ==
    ASSUME NEW a \in Wall, NEW n, NEW v, Settable(a, n, v),
           NEW x \in Wall, Agree(n, a, x), v <= Value(FieldNames[n], x)
    PROVE  Reading(a, n, v) <= x
<1> DEFINE r == Reading(a, n, v)
<1>1. /\ Agree(n, a, r) /\ r \in Wall /\ Value(FieldNames[n], r) = v
      /\ n \in {1, 2, 3} => r % Day = 0
      /\ n # 7 => r % Hour = 0
    BY ReadingAgrees
<1>2. /\ n = 1 => DateAt(r) = DateIs(v, 1, 1)
      /\ n = 2 => DateAt(r) = DateIs(DateAt(a).year, v, 1)
      /\ n = 3 => DateAt(r) = DateIs(DateAt(a).year, DateAt(a).month, v)
    BY ReadingIs
<1>3. n \in RealFields /\ n \in 1..7
    BY DEF Settable, RealFields
<1> HIDE DEF r
<1>4. r \in Int /\ x \in Int /\ x \in Nat /\ r \in Nat
    BY <1>1, Changes DEF Wall
<1> SUFFICES ASSUME x < r PROVE FALSE
    BY <1>4 DEF r
<1>5. Agree(n, x, r)
    BY <1>1 DEF Agree
<1>6. Value(FieldNames[n], x) = v
  <2>1. Value(FieldNames[n], x) <= Value(FieldNames[n], r)
      BY <1>1, <1>3, <1>4, <1>5, ValueMono
  <2>2. Value(FieldNames[n], x) \in Int /\ Value(FieldNames[n], r) \in Int
      BY <1>1, <1>3, FieldTypes
  <2> QED BY <1>1, <2>1, <2>2
<1>7. CASE n \in {1, 2, 3}
  <2> DEFINE A == DateAt(x)  B == DateAt(r)
  <2>1. /\ A.year \in Nat \ {0} /\ A.month \in Nat \ {0} /\ A.day \in Nat \ {0}
        /\ B.year \in Nat /\ B.month \in Nat /\ B.day \in Nat
      BY <1>1, DateParts
  <2>2. /\ n = 1 => A.year = v
        /\ n = 2 => A.month = v /\ A.year = B.year
        /\ n = 3 => A.day = v /\ A.year = B.year /\ A.month = B.month
      BY <1>1, <1>5, <1>6, AgreeIs, Names, Values
  <2>3. /\ n = 1 => B.year = v /\ B.month = 1 /\ B.day = 1
        /\ n = 2 => B.month = v /\ B.day = 1
        /\ n = 3 => B.day = v
      BY <1>2 DEF DateIs
  <2>4. x % Day \in 0..(Day - 1)
      BY WallDate
  <2>5. Earlier(A, B) \/ x % Day < r % Day
      BY <1>1, WallOrder
  <2>6. Earlier(A, B)
      BY <2>4, <2>5, <1>1, <1>7, UnitsAre
  <2>7. \/ A.year < B.year
        \/ A.year = B.year /\ (A.month < B.month \/ (A.month = B.month /\ A.day < B.day))
      BY <2>6 DEF Earlier
  <2> HIDE DEF A, B
  <2> QED BY <2>1, <2>2, <2>3, <2>7, <1>7
<1>8. CASE n = 6
  <2>1. \A k \in 1..(7 - 1) : k \in 1..(6 - 1) \/ k = 6
      OBVIOUS
  <2>2. Agree(7, x, r)
      BY <2>1, <1>1, <1>5, <1>6, <1>8 DEF Agree
  <2>3. x \div Hour = r \div Hour
      BY <2>2, <1>1, AgreeIs
  <2>4. r % Hour = 0 /\ Hour \in Nat \ {0}
      BY <1>1, <1>8, UnitsAre
  <2> DEFINE lo == Hour * (x \div Hour)
  <2>5. /\ lo \in Nat /\ lo <= x /\ x < lo + Hour
        /\ r % Hour = 0 => (x < r => lo + Hour <= r)
        /\ (r \div Hour = x \div Hour <=> lo <= r /\ r < lo + Hour)
      BY <1>4, <2>4, Block
  <2> HIDE DEF lo
  <2> QED BY <2>3, <2>4, <2>5, <1>4
<1>9. CASE n = 7
  <2>1. \A k \in 1..(8 - 1) : k \in 1..(7 - 1) \/ k = 7
      OBVIOUS
  <2>2. Agree(8, x, r)
      BY <2>1, <1>1, <1>5, <1>6, <1>9 DEF Agree
  <2>3. x = r
      BY <2>2, <1>1, AgreeIs
  <2> QED BY <2>3, <1>4
<1> QED BY <1>3, <1>7, <1>8, <1>9 DEF RealFields

\* The readings before the one that an increment aims at agree with the current
\* one on every field up to the one that was to grow.
LEMMA CarryBetween ==
    ASSUME NEW a \in Wall, NEW m \in 0..6, NEW x \in Wall, a <= x,
           Carry(m, a) # 0 =>
               x < Reading(a, Carry(m, a), Value(FieldNames[Carry(m, a)], a) + 1)
    PROVE  Agree(m + 1, a, x)
<1> DEFINE i == Carry(m, a)
           v == Value(FieldNames[i], a) + 1
           r == Reading(a, i, v)
<1>1. /\ i \in 0..m
      /\ i # 0 => i \in RealFields /\ Settable(a, i, v)
      /\ \A k \in RealFields : i < k /\ k <= m =>
             Value(FieldNames[k], a) = MaxAt(FieldNames[k], a)
    BY CarryIs
<1>2. Agree(i + 1, a, x)
  <2>1. CASE i = 0
      BY <2>1, AgreeIs
  <2>2. CASE i # 0
    <3>1. i \in 1..7 /\ Settable(a, i, v)
        BY <1>1, <2>2
    <3> DEFINE c == Value(FieldNames[i], a)  z == Value(FieldNames[i], x)
    <3>2. c \in Int /\ z \in Int
        BY <3>1, FieldTypes
    <3>3. Agree(i, a, r) /\ r \in Wall
        BY <3>1, ReadingAgrees
    <3>4. x < r /\ x \in Int /\ r \in Int
        BY <2>2, <3>3, Changes DEF Wall
    <3>5. Agree(i, a, x)
      <4>1. i \in 1..8 /\ x <= r
          BY <3>1, <3>4
      <4> HIDE DEF i, r
      <4> QED BY <3>3, <4>1, AgreeBetween
    <3>6. c <= z
        BY <3>1, <3>5, ValueMono
    <3>7. ~ (v <= z)
      <4>1. v <= z => r <= x
          BY <3>1, <3>5, ReadingLeast
      <4> QED BY <4>1, <3>4
    <3>8. c = z
      <4>1. v = c + 1
          OBVIOUS
      <4> HIDE DEF c, z, v
      <4> QED BY <4>1, <3>2, <3>6, <3>7
    <3>9. \A k \in 1..((i + 1) - 1) : k \in 1..(i - 1) \/ k = i
        BY <3>1
    <3> QED BY <3>5, <3>8, <3>9 DEF Agree
  <2> QED BY <2>1, <2>2
<1> HIDE DEF i, v, r
<1> DEFINE P(k) == Agree(k, a, x)
<1>3. ASSUME NEW k \in 1..6, i < k, k <= m, P(k) PROVE P(k + 1)
  <2>1. k \in RealFields => Value(FieldNames[k], a) = MaxAt(FieldNames[k], a)
      BY <1>1, <1>3
  <2> QED BY <2>1, <1>3, Climb
<1>4. /\ (i < 1 /\ 1 <= m /\ P(1) => P(2)) /\ (i < 2 /\ 2 <= m /\ P(2) => P(3))
      /\ (i < 3 /\ 3 <= m /\ P(3) => P(4)) /\ (i < 4 /\ 4 <= m /\ P(4) => P(5))
      /\ (i < 5 /\ 5 <= m /\ P(5) => P(6)) /\ (i < 6 /\ 6 <= m /\ P(6) => P(7))
  <2>1. /\ 1 + 1 = 2 /\ 2 + 1 = 3 /\ 3 + 1 = 4 /\ 4 + 1 = 5 /\ 5 + 1 = 6 /\ 6 + 1 = 7
        /\ 1 \in 1..6 /\ 2 \in 1..6 /\ 3 \in 1..6 /\ 4 \in 1..6 /\ 5 \in 1..6 /\ 6 \in 1..6
      OBVIOUS
  <2> HIDE DEF P
  <2> QED BY <2>1, <1>3
<1>5. P(i + 1) /\ i \in 0..m
    BY <1>1, <1>2
<1>6. \/ i = 0 /\ P(1)
      \/ i = 1 /\ P(2)
      \/ i = 2 /\ P(3)
      \/ i = 3 /\ P(4)
      \/ i = 4 /\ P(5)
      \/ i = 5 /\ P(6)
      \/ i = 6 /\ P(7)
  <2> HIDE DEF P
  <2>1. i = 0 \/ i = 1 \/ i = 2 \/ i = 3 \/ i = 4 \/ i = 5 \/ i = 6
      BY <1>5
  <2> QED BY <2>1, <1>5
<1>7. m = 0 \/ m = 1 \/ m = 2 \/ m = 3 \/ m = 4 \/ m = 5 \/ m = 6
    OBVIOUS
<1>8. /\ (m = 0 => P(1)) /\ (m = 1 => P(2)) /\ (m = 2 => P(3)) /\ (m = 3 => P(4))
      /\ (m = 4 => P(5)) /\ (m = 5 => P(6)) /\ (m = 6 => P(7))
  <2> HIDE DEF P
  <2> QED BY <1>4, <1>5, <1>6
<1>9. P(m + 1)
  <2> HIDE DEF P
  <2> QED BY <1>7, <1>8
<1> QED BY <1>9

-----------------------------------------------------------------------------
(* Readings that a turn may pass over, as one field of theirs does not fit. *)

\* What an expression means depends on the fields before its own only, and in
\* the last field on none.
LEMMA MeantAgree ==
    ASSUME NEW a \in Wall, NEW b \in Wall, NEW n \in 1..7, Agree(n, a, b) \/ n = 7,
           NEW e, Sound(FieldNames[n], e)
    PROVE  Meant(e, FieldNames[n], a) = Meant(e, FieldNames[n], b)
<1> DEFINE name == FieldNames[n]
<1>1. e.kind \in {"all", "range", "weekday", "last"} /\ (e.kind \in {"weekday", "last"} => name = "day")
    BY DEF Sound, Expressions, Accepted
<1>2. MaxAt(name, a) = MaxAt(name, b)
  <2>1. n = 7 => MaxAt(name, a) = Hour - 1 /\ MaxAt(name, b) = Hour - 1
      BY Names, Maxima
  <2> QED BY <2>1, MaxAgree
<1>3. name = "day" <=> n = 3
    BY Names
<1>4. ASSUME n = 3
      PROVE  /\ DateAt(a).year = DateAt(b).year /\ DateAt(a).month = DateAt(b).month
             /\ MonthLength(a) = MonthLength(b)
    BY <1>4, AgreeIs DEF MonthLength
<1> HIDE DEF name
<1>5. CASE e.kind = "all"
    BY <1>5, <1>2 DEF Meant, name
<1>6. CASE e.kind = "range"
    BY <1>6, <1>2 DEF Meant, name
<1>7. CASE e.kind = "last"
    BY <1>1, <1>3, <1>4, <1>7 DEF Meant, name
<1>8. CASE e.kind = "weekday"
  <2>1. n = 3
      BY <1>1, <1>3, <1>8
  <2> DEFINE range == MinValue(name)..MaxAt(name, a)
             p == a \div Day  q == b \div Day  c == DateAt(a).day  d == DateAt(b).day
             y == DateAt(a).year  m == DateAt(a).month  first == Number[DateIs(y, m, 1)]
  <2>2. p = first + c - 1 /\ q = first + d - 1 /\ first \in Int /\ c \in Nat /\ d \in Nat
    <3>1. /\ DateAt(a) = DateIs(y, m, c) /\ DateAt(b) = DateIs(y, m, d)
          /\ DateAt(a) \in Dates /\ DateAt(b) \in Dates
        BY <2>1, <1>4, WallDate, DatesAre
    <3>2. c \in Nat /\ d \in Nat
        BY DateParts
    <3>3. p = Number[DateAt(a)] /\ q = Number[DateAt(b)]
        BY WallDate
    <3>4. DateIs(y, m, 1) \in Dates /\ Number[DateIs(y, m, c)] = first + c - 1
        BY <3>1, <3>2, NumberInMonth
    <3>5. Number[DateIs(y, m, d)] = first + d - 1
        BY <3>1, <3>2, NumberInMonth
    <3>6. first \in Int
        BY <3>4, NumberOrder
    <3> QED BY <3>1, <3>2, <3>3, <3>4, <3>5, <3>6
  <2>3. ASSUME NEW w \in Wall, NEW k \in Int
        PROVE  Weekday(w + Day * k) = ((w \div Day) + k) % DaysPerWeek
    <3> DEFINE z == w \div Day  r == w % Day
    <3>1. z \in Int /\ r \in 0..(Day - 1) /\ w = (Day * z) + r /\ Day \in Nat \ {0}
      <4>1. w \in Int /\ Day \in Nat \ {0}
          BY Changes, UnitsAre DEF Wall
      <4> QED BY <4>1, DivMod
    <3> HIDE DEF z, r
    <3>2. z + k \in Int /\ Day * (z + k) = (Day * z) + (Day * k) /\ Day * z \in Int /\ Day * k \in Int
        BY <3>1
    <3>3. (Day * (z + k) + r) \div Day = z + k
        BY <3>1, <3>2, DivUnique
    <3>4. w + Day * k = Day * (z + k) + r
        BY <3>1, <3>2
    <3> QED BY <3>3, <3>4 DEF Weekday, z
  <2>4. \A x \in Int : Weekday(a + Day * (x - c)) = Weekday(b + Day * (x - d))
    <3> SUFFICES ASSUME NEW x \in Int
                 PROVE  Weekday(a + Day * (x - c)) = Weekday(b + Day * (x - d))
        OBVIOUS
    <3> HIDE DEF p, q, c, d, first
    <3>1. x - c \in Int /\ x - d \in Int /\ p + (x - c) = q + (x - d)
        BY <2>2
    <3> QED BY <3>1, <2>3 DEF p, q
  <2> DEFINE A == {x \in range : Weekday(a + Day * (x - c)) = e.last}
             B == {x \in range : Weekday(b + Day * (x - d)) = e.last}
  <2>5. A = B
    <3>1. range \subseteq Int
        OBVIOUS
    <3> HIDE DEF range, c, d
    <3> QED BY <2>4, <3>1
  <2> DEFINE M(S) == {x \in S : IF e.first = 5 THEN \A u \in S : u <= x
                                ELSE Cardinality({u \in S : u < x}) = e.first}
  <2>6. Meant(e, name, a) = M(A)
      BY <1>8 DEF Meant
  <2>7. Meant(e, name, b) = M(B)
      BY <1>2, <1>8 DEF Meant
  <2> HIDE DEF M, A, B
  <2> QED BY <2>5, <2>6, <2>7 DEF name
<1> QED BY <1>1, <1>5, <1>6, <1>7, <1>8

\* The n-th field of a reading has a value that one of its expressions means.
FieldFits(part, n, wall) ==
    \E e \in part.fields[n] : Value(FieldNames[n], wall) \in Meant(e, FieldNames[n], wall)

LEMMA FitsAgree ==
    ASSUME NEW part, CronPart(part), NEW a \in Wall, NEW b \in Wall, NEW n \in 1..7,
           Agree(n + 1, a, b), FieldFits(part, n, a)
    PROVE  FieldFits(part, n, b)
<1>1. Agree(n, a, b) /\ Value(FieldNames[n], a) = Value(FieldNames[n], b)
  <2>1. n \in 1..((n + 1) - 1) /\ \A k \in 1..(n - 1) : k \in 1..((n + 1) - 1)
      OBVIOUS
  <2> QED BY <2>1 DEF Agree
<1>2. PICK e \in part.fields[n] : Value(FieldNames[n], a) \in Meant(e, FieldNames[n], a)
    BY DEF FieldFits
<1>3. Sound(FieldNames[n], e)
    BY CronPartIs
<1>4. Meant(e, FieldNames[n], a) = Meant(e, FieldNames[n], b)
    BY <1>1, <1>3, MeantAgree
<1> QED BY <1>1, <1>2, <1>4 DEF FieldFits

\* A reading whose n-th field lies between its value in a and the next one that
\* is wanted.
LEMMA NoFitBetween ==
    ASSUME NEW part, CronPart(part), NEW a \in Wall, NEW x \in Wall, NEW n \in 1..7,
           Agree(n, a, x) \/ n = 7,
           Value(FieldNames[n], a) <= Value(FieldNames[n], x),
           LET v == NextValue(part.fields[n], FieldNames[n], a)
           IN  v # NoValue => Value(FieldNames[n], x) < v
    PROVE  ~ FieldFits(part, n, x)
<1> DEFINE name == FieldNames[n]
           exprs == part.fields[n]
           c == Value(name, a)
           z == Value(name, x)
           v == NextValue(exprs, name, a)
           W == Wanted(exprs, name, a)
<1>1. \A e \in exprs : Sound(name, e)
    BY CronPartIs
<1>2. /\ v = NoValue => \A u \in W : u < c
      /\ v # NoValue => LeastFrom(W, c, v)
    BY <1>1, NextValueIs
<1>3. c \in Int /\ z \in Int
    BY FieldTypes
<1>4. W \subseteq MinValue(name)..MaxAt(name, a)
    BY <1>1, WantedRange
<1>5. W \subseteq Int
    BY <1>4
<1>6. c <= z /\ (v # NoValue => z < v)
    OBVIOUS
<1> SUFFICES ASSUME NEW e \in exprs, z \in Meant(e, name, x) PROVE FALSE
    BY DEF FieldFits
<1>7. Sound(name, e)
    BY <1>1
<1>8. Meant(e, name, x) = Meant(e, name, a)
    BY <1>7, MeantAgree
<1>9. z \in W
    BY <1>8 DEF Wanted
<1> HIDE DEF c, z, v, W, name, exprs
<1>10. CASE v = NoValue
    BY <1>2, <1>3, <1>6, <1>9, <1>10
<1>11. CASE v # NoValue
  <2>1. v \in W /\ v <= z
      BY <1>2, <1>6, <1>9, <1>11 DEF LeastFrom
  <2> QED BY <2>1, <1>3, <1>5, <1>6, <1>11
<1> QED BY <1>10, <1>11

LEMMA MatchesIs ==
    ASSUME NEW part, NEW wall
    PROVE  Matches(part, wall) <=> \A n \in 1..7 : FieldFits(part, n, wall)
    BY Names DEF Matches, FieldFits

-----------------------------------------------------------------------------
(* The instants that a step of a search passes over, as the clocks show     *)
(* them.                                                                    *)

\* The clocks change on the hour, and the hour that is jumped over and the one
\* after it are not the last of a day.
OnTheHour ==
    /\ Forward % Hour = 0 /\ Back % Hour = 0
    /\ (Forward % Day) + 2 * Hour < Day

LEMMA ShownAt ==
    ASSUME NEW t \in Nat, t < End
    PROVE  LET x == FromTimestamp(t).at
           IN  /\ x \in Wall /\ x \in Nat
               /\ (t < Forward \/ Back <= t) => x = t
               /\ Forward <= t /\ t < Back => x = t + Hour
<1>1. FromTimestamp(t).at \in Wall
    BY RoundTrip, TimeIs
<1>2. FromTimestamp(t).at \in Nat
    BY <1>1, Changes DEF Wall
<1>3. CASE Forward <= t /\ t < Back
    BY <1>1, <1>2, <1>3, Changes, LocalIs DEF FromTimestamp
<1>4. CASE t < Forward \/ Back <= t
    BY <1>1, <1>2, <1>4, Changes, LocalIs DEF FromTimestamp
<1> QED BY <1>3, <1>4, Changes

\* The hour of a reading, and the changes.
LEMMA HourBlock ==
    ASSUME OnTheHour, NEW a \in Nat
    PROVE  LET lo == Hour * (a \div Hour)
           IN  /\ lo \in Nat /\ lo <= a /\ a < lo + Hour
               /\ Forward <= a => Forward <= lo
               /\ a < Forward => lo + Hour <= Forward
               /\ Back <= a => Back <= lo
               /\ a < Back => lo + Hour <= Back
               /\ \A z \in Nat : z % Hour = 0 /\ a < z => lo + Hour <= z
               /\ \A x \in Nat : x \div Hour = a \div Hour <=> lo <= x /\ x < lo + Hour
<1>1. Forward \in Nat /\ Back \in Nat /\ Hour \in Nat \ {0} /\ Forward % Hour = 0 /\ Back % Hour = 0
    BY Changes DEF OnTheHour
<1> DEFINE lo == Hour * (a \div Hour)
<1>2. /\ lo \in Nat /\ lo <= a /\ a < lo + Hour
      /\ \A z \in Nat : z % Hour = 0 => (z <= a => z <= lo) /\ (a < z => lo + Hour <= z)
      /\ \A x \in Nat : x \div Hour = a \div Hour <=> lo <= x /\ x < lo + Hour
    BY <1>1, Block
<1> HIDE DEF lo
<1> QED BY <1>1, <1>2 DEF lo

\* The date of the change forward, and midnights.
LEMMA DayBlock ==
    ASSUME OnTheHour
    PROVE  /\ \A z \in Nat : z % Day = 0 /\ Forward < z => Forward + 2 * Hour < z
           /\ \A z \in Nat : z % Day = 0 => (z + Hour) \div Day = z \div Day
           /\ (Forward + Hour) \div Day = Forward \div Day
           /\ (Forward + 2 * Hour) \div Day = Forward \div Day
<1>1. /\ Forward \in Nat /\ Hour \in Nat \ {0} /\ Day \in Nat \ {0}
      /\ Forward % Day \in 0..(Day - 1)
      /\ (Forward % Day) + 2 * Hour < Day
  <2>1. Forward \in Nat /\ Forward \in Int /\ Hour \in Nat \ {0} /\ Day \in Nat \ {0}
      BY Changes, UnitsAre
  <2>2. Forward % Day \in 0..(Day - 1)
      BY <2>1, DivMod
  <2> QED BY <2>1, <2>2 DEF OnTheHour
<1> DEFINE lo == Day * (Forward \div Day)
<1>2. /\ lo \in Nat /\ Forward = lo + (Forward % Day)
      /\ \A z \in Nat : z % Day = 0 => (z <= Forward => z <= lo) /\ (Forward < z => lo + Day <= z)
      /\ \A x \in Nat : x \div Day = Forward \div Day <=> lo <= x /\ x < lo + Day
    BY <1>1, Block
<1> HIDE DEF lo
<1>3. ASSUME NEW z \in Nat, z % Day = 0, Forward < z PROVE Forward + 2 * Hour < z
  <2>1. lo + Day <= z
      BY <1>2, <1>3
  <2> QED BY <2>1, <1>1, <1>2
<1>4. (Forward + Hour) \div Day = Forward \div Day /\ (Forward + 2 * Hour) \div Day = Forward \div Day
  <2>1. Forward + Hour \in Nat /\ Forward + 2 * Hour \in Nat
      BY <1>1
  <2>2. /\ lo <= Forward + Hour /\ Forward + Hour < lo + Day
        /\ lo <= Forward + 2 * Hour /\ Forward + 2 * Hour < lo + Day
    <3>1. lo \in Nat /\ Forward = lo + (Forward % Day)
        BY <1>2
    <3> QED BY <1>1, <3>1
  <2> QED BY <2>1, <2>2, <1>2
<1>5. ASSUME NEW z \in Nat, z % Day = 0 PROVE (z + Hour) \div Day = z \div Day
  <2> DEFINE l == Day * (z \div Day)
  <2>1. /\ l \in Nat /\ z = l + (z % Day)
        /\ \A x \in Nat : x \div Day = z \div Day <=> l <= x /\ x < l + Day
      BY <1>1, Block
  <2> HIDE DEF l
  <2>2. z + Hour \in Nat /\ z = l
      BY <1>1, <1>5, <2>1
  <2>3. Hour < Day
      BY <1>1
  <2>4. l <= z + Hour /\ z + Hour < l + Day
      BY <1>1, <2>2, <2>3
  <2> QED BY <2>1, <2>2, <2>4
<1> QED BY <1>3, <1>4, <1>5

\* Setting a field, to a later reading r in the same hour or on the hour.
LEMMA SetPasses ==
    ASSUME OnTheHour, NEW dt \in Times, NEW r \in Wall, dt.at < r,
           r \div Hour = dt.at \div Hour \/ r % Hour = 0,
           NEW t \in Nat, Instant(dt) <= t, t < Timestamp(r, dt.fold)
    PROVE  LET a == dt.at  x == FromTimestamp(t).at
           IN  /\ t < End
               /\ \/ a <= x /\ x < r
                  \/ r \div Hour # a \div Hour /\ x \div Hour = a \div Hour
                  \/ r \div Hour = a \div Hour /\ x = t + Hour /\ a <= t /\ t < r
<1> DEFINE a == dt.at  f == dt.fold  x == FromTimestamp(t).at  lo == Hour * (a \div Hour)
<1>1. /\ a \in Wall /\ a \in Nat /\ f \in {0, 1} /\ (f = 1 => Back <= a)
      /\ Instant(dt) = Timestamp(a, f)
    BY TimeIs, LocalIs
<1>2. r \in Nat /\ r < End /\ a < r
    BY Changes DEF Wall
<1>3. /\ lo \in Nat /\ lo <= a /\ a < lo + Hour
      /\ Forward <= a => Forward <= lo
      /\ a < Forward => lo + Hour <= Forward
      /\ Back <= a => Back <= lo
      /\ a < Back => lo + Hour <= Back
      /\ \A z \in Nat : z % Hour = 0 /\ a < z => lo + Hour <= z
      /\ \A z \in Nat : z \div Hour = a \div Hour <=> lo <= z /\ z < lo + Hour
    BY <1>1, HourBlock
<1>4. t < End
  <2>1. f = 1 => Back <= r
      BY <1>1, <1>2, Changes
  <2>2. Timestamp(r, f) \in Nat /\ Timestamp(r, f) <= r
      BY <1>1, <2>1, InstantIs
  <2> QED BY <2>2, <1>2, Changes
<1>5. /\ x \in Nat
      /\ (t < Forward \/ Back <= t) => x = t
      /\ Forward <= t /\ t < Back => x = t + Hour
    BY <1>4, ShownAt
<1> HIDE DEF a, f, x, lo
<1>6. r \div Hour = a \div Hour <=> r < lo + Hour
    BY <1>1, <1>2, <1>3
<1>7. x \div Hour = a \div Hour <=> lo <= x /\ x < lo + Hour
    BY <1>3, <1>5
<1>8. Timestamp(a, f) <= t /\ t < Timestamp(r, f)
    BY <1>1 DEF f
<1>9. Hour \in Nat \ {0} /\ Forward \in Nat /\ Back \in Nat /\ Forward + 2 * Hour <= Back
    BY Changes
<1>10. \/ a <= x /\ x < r
       \/ lo + Hour <= r /\ lo <= x /\ x < lo + Hour
       \/ r < lo + Hour /\ x = t + Hour /\ a <= t /\ t < r
  <2>1. CASE f = 1
      BY <2>1, <1>1, <1>2, <1>5, <1>8, <1>9 DEF Timestamp, InSummer
  <2>2. CASE f = 0 /\ a < Forward
    <3>1. a <= t
        BY <2>2, <1>1, <1>8, <1>9 DEF Timestamp, InSummer
    <3>2. CASE r < Forward
        BY <2>2, <3>1, <3>2, <1>1, <1>2, <1>5, <1>8, <1>9 DEF Timestamp, InSummer
    <3>3. CASE Forward <= r /\ r < Forward + Hour
      <4>1. lo + Hour <= Forward /\ r = r
          BY <2>2, <1>3
      <4>2. t < r
          BY <2>2, <3>3, <1>2, <1>8, <1>9 DEF Timestamp, InSummer
      <4>3. r = Forward
        <5>1. r % Hour = 0
            BY <4>1, <3>3, <1>6, <1>1, <1>2, <1>3, <1>9 DEF a
        <5> DEFINE l == Hour * (r \div Hour)
        <5>2. l \in Nat /\ r = l + (r % Hour) /\ Forward % Hour = 0
              /\ \A z \in Nat : z % Hour = 0 => (z <= r => z <= l) /\ (r < z => l + Hour <= z)
            BY <1>2, <1>9, Block DEF OnTheHour
        <5> DEFINE k == Hour * (Forward \div Hour)
        <5>3. k \in Nat /\ Forward = k + (Forward % Hour)
              /\ \A z \in Nat : z % Hour = 0 => (z <= Forward => z <= k) /\ (Forward < z => k + Hour <= z)
            BY <1>9, Block
        <5> HIDE DEF l, k
        <5> QED BY <5>1, <5>2, <5>3, <3>3, <1>2, <1>9
      <4> QED BY <4>2, <4>3, <3>1, <1>1, <1>2, <1>5, <1>9
    <3>4. CASE Forward + Hour <= r
        BY <2>2, <3>1, <3>4, <1>1, <1>2, <1>5, <1>8, <1>9 DEF Timestamp, InSummer
    <3> QED BY <3>2, <3>3, <3>4, <1>2, <1>9
  <2>3. CASE f = 0 /\ Forward <= a /\ a < Forward + Hour
    <3>1. a <= t
        BY <2>3, <1>1, <1>8, <1>9 DEF Timestamp, InSummer
    <3>2. CASE r < Forward + Hour
      <4>1. t < r
          BY <2>3, <3>2, <1>2, <1>8, <1>9 DEF Timestamp, InSummer
      <4>2. r < lo + Hour
        <5>1. Forward <= lo
            BY <2>3, <1>3
        <5> QED BY <5>1, <3>2, <1>2, <1>3, <1>9
      <4> QED BY <4>1, <4>2, <3>1, <3>2, <2>3, <1>1, <1>2, <1>5, <1>9
    <3>3. CASE Forward + Hour <= r
        BY <2>3, <3>1, <3>3, <1>1, <1>2, <1>5, <1>8, <1>9 DEF Timestamp, InSummer
    <3> QED BY <3>2, <3>3, <1>2, <1>9
  <2>4. CASE f = 0 /\ Forward + Hour <= a /\ a < Back + Hour
    <3>1. a - Hour <= t
        BY <2>4, <1>1, <1>8, <1>9 DEF Timestamp, InSummer
    <3>2. t < Back => x = t + Hour /\ (t < r - Hour \/ Back + Hour <= r)
        BY <2>4, <3>1, <1>1, <1>2, <1>5, <1>8, <1>9 DEF Timestamp, InSummer
    <3>3. Back <= t => x = t /\ t < r /\ Back + Hour <= r
        BY <2>4, <3>1, <1>1, <1>2, <1>5, <1>8, <1>9 DEF Timestamp, InSummer
    <3>4. Back <= t /\ x < a => lo <= x /\ x < lo + Hour /\ lo + Hour <= r
      <4> SUFFICES ASSUME Back <= t, x < a PROVE lo <= x /\ x < lo + Hour /\ lo + Hour <= r
          OBVIOUS
      <4>1. Back < a /\ Back <= lo /\ x = t /\ Back + Hour <= r
          BY <3>3, <1>1, <1>3, <1>9
      <4>2. lo <= Back
        <5> DEFINE k == Hour * (Back \div Hour)
        <5>1. k \in Nat /\ Back = k + (Back % Hour) /\ Back % Hour = 0
              /\ \A z \in Nat : z \div Hour = Back \div Hour <=> k <= z /\ z < k + Hour
            BY <1>9, Block DEF OnTheHour
        <5>2. a \div Hour = Back \div Hour
          <6>1. Back <= a /\ a < Back + Hour
              BY <2>4, <4>1, <1>1, <1>9
          <6> HIDE DEF k
          <6> QED BY <6>1, <5>1, <1>1, <1>9
        <5>3. lo = k
            BY <5>2 DEF lo
        <5> HIDE DEF k
        <5> QED BY <5>1, <5>3, <1>9
      <4> QED BY <4>1, <4>2, <1>1, <1>2, <1>3, <1>5, <1>9
    <3> QED BY <2>4, <3>1, <3>2, <3>3, <3>4, <1>1, <1>2, <1>5, <1>9
  <2>5. CASE f = 0 /\ Back + Hour <= a
      BY <2>5, <1>1, <1>2, <1>5, <1>8, <1>9 DEF Timestamp, InSummer
  <2> QED BY <2>1, <2>2, <2>3, <2>4, <2>5, <1>1, <1>9
<1>11. \/ a <= x /\ x < r
       \/ r \div Hour # a \div Hour /\ x \div Hour = a \div Hour
       \/ r \div Hour = a \div Hour /\ x = t + Hour /\ a <= t /\ t < r
  <2>1. lo + Hour <= r <=> ~ (r < lo + Hour)
      BY <1>2, <1>3, <1>9
  <2> QED BY <2>1, <1>6, <1>7, <1>10
<1> QED BY <1>4, <1>11 DEF a, x

\* In the hour of a change, that hour begins with the change.
LEMMA ChangeHour ==
    ASSUME OnTheHour, NEW a \in Nat
    PROVE  /\ Forward <= a /\ a < Forward + Hour => Hour * (a \div Hour) = Forward
           /\ Back <= a /\ a < Back + Hour => Hour * (a \div Hour) = Back
<1>1. ASSUME NEW z \in Nat, z % Hour = 0, z <= a, a < z + Hour PROVE Hour * (a \div Hour) = z
  <2> DEFINE k == Hour * (z \div Hour)
  <2>1. k \in Nat /\ z = k + (z % Hour)
        /\ \A x \in Nat : x \div Hour = z \div Hour <=> k <= x /\ x < k + Hour
      BY UnitsAre, Block
  <2>2. k = z
    <3> HIDE DEF k
    <3> QED BY <2>1, <1>1
  <2>3. a \div Hour = z \div Hour
    <3> HIDE DEF k
    <3> QED BY <2>1, <2>2, <1>1
  <2> QED BY <2>2, <2>3
<1> QED BY <1>1, Changes DEF OnTheHour

\* A step on the hour, to a later midnight or to the next hour.
OnHour(a, goal) ==
    /\ goal \in Wall /\ a < goal /\ goal % Hour = 0
    /\ goal % Day = 0 \/ goal = Hour * (a \div Hour) + Hour

LEMMA StepShown ==
    ASSUME OnTheHour, NEW dt \in Times, NEW goal, OnHour(dt.at, goal)
    PROVE  LET a == dt.at
               s == Instant(dt) + goal - a
               b == FromTimestamp(s).at
           IN  /\ s \in Nat /\ s < End /\ b \in Wall /\ Instant(FromTimestamp(s)) = s
               /\ \/ b = goal
                  \/ b = goal + Hour /\ b \div Day = goal \div Day
                  \/ b = goal - Hour /\ (a <= b \/ b \div Hour = a \div Hour)
               /\ Forward + Hour <= a => Forward + Hour <= b
<1> DEFINE a == dt.at  f == dt.fold  lo == Hour * (a \div Hour)
           s == Instant(dt) + goal - a  b == FromTimestamp(s).at
<1>1. /\ a \in Wall /\ a \in Nat /\ f \in {0, 1} /\ (f = 1 => Back <= a)
      /\ Instant(dt) = Timestamp(a, f)
    BY TimeIs, LocalIs
<1>2. /\ goal \in Nat /\ goal < End /\ a < goal /\ goal % Hour = 0
      /\ goal % Day = 0 \/ goal = lo + Hour
    BY Changes DEF Wall, OnHour
<1>3. /\ lo \in Nat /\ lo <= a /\ a < lo + Hour
      /\ Forward <= a => Forward <= lo
      /\ a < Forward => lo + Hour <= Forward
      /\ Back <= a => Back <= lo
      /\ a < Back => lo + Hour <= Back
      /\ lo + Hour <= goal
      /\ Forward <= a /\ a < Forward + Hour => lo = Forward
      /\ Back <= a /\ a < Back + Hour => lo = Back
      /\ \A z \in Nat : z \div Hour = a \div Hour <=> lo <= z /\ z < lo + Hour
    BY <1>1, <1>2, HourBlock, ChangeHour
<1>4. Hour \in Nat \ {0} /\ Forward \in Nat /\ Back \in Nat /\ Forward + 2 * Hour <= Back /\ End \in Nat
    BY Changes
<1>5. Timestamp(a, f) \in Nat /\ Timestamp(a, f) <= a
    BY <1>1, InstantIs
<1> HIDE DEF a, f, lo
<1>6. s = Timestamp(a, f) + goal - a
    BY <1>1 DEF a
<1>7. s \in Nat /\ s < End
    BY <1>1, <1>2, <1>4, <1>5, <1>6
<1> HIDE DEF s
<1>8. /\ b \in Wall /\ b \in Nat /\ Instant(FromTimestamp(s)) = s
      /\ (s < Forward \/ Back <= s) => b = s
      /\ Forward <= s /\ s < Back => b = s + Hour
    BY <1>7, ShownAt, RoundTrip
<1> HIDE DEF b
<1>9. /\ \A z \in Nat : z % Day = 0 => (z + Hour) \div Day = z \div Day
      /\ (Forward + Hour) \div Day = Forward \div Day
      /\ (Forward + 2 * Hour) \div Day = Forward \div Day
    BY DayBlock
<1> DEFINE Shown == /\ \/ b = goal
                       \/ b = goal + Hour /\ b \div Day = goal \div Day
                       \/ b = goal - Hour /\ (a <= b \/ b \div Hour = a \div Hour)
                    /\ Forward + Hour <= a => Forward + Hour <= b
<1> SUFFICES Shown
    BY <1>7, <1>8 DEF a, b, s
<1>10. CASE f = 1
  <2>1. s = goal /\ Back <= s /\ b = goal
      BY <1>10, <1>1, <1>2, <1>4, <1>6, <1>8 DEF Timestamp, InSummer
  <2> QED BY <2>1, <1>1, <1>2, <1>4
<1>11. CASE f = 0 /\ a < Forward + Hour
  <2>1. s = goal
      BY <1>11, <1>1, <1>2, <1>4, <1>6 DEF Timestamp, InSummer
  <2>2. CASE goal < Forward \/ Back <= goal
      BY <2>1, <2>2, <1>11, <1>1, <1>8, <1>4
  <2>3. CASE Forward <= goal /\ goal < Back
    <3>1. b = goal + Hour
        BY <2>1, <2>3, <1>8
    <3>2. (goal + Hour) \div Day = goal \div Day
      <4>1. CASE goal % Day = 0
          BY <4>1, <1>2, <1>9
      <4>2. CASE goal = lo + Hour /\ a < Forward
        <5>1. goal = Forward
            BY <4>2, <2>3, <1>2, <1>3, <1>4
        <5> QED BY <5>1, <1>9
      <4>3. CASE goal = lo + Hour /\ Forward <= a
        <5>1. goal = Forward + Hour /\ goal + Hour = Forward + 2 * Hour
            BY <4>3, <1>11, <1>3, <1>4
        <5> QED BY <5>1, <1>9
      <4> QED BY <4>1, <4>2, <4>3, <1>1, <1>2, <1>4
    <3> QED BY <3>1, <3>2, <1>11, <1>1, <1>4
  <2> QED BY <2>2, <2>3, <1>2, <1>4
<1>12. CASE f = 0 /\ Forward + Hour <= a /\ a < Back + Hour
  <2>1. s = goal - Hour /\ Forward <= s
      BY <1>12, <1>1, <1>2, <1>4, <1>6 DEF Timestamp, InSummer
  <2>2. CASE s < Back
    <3>1. b = goal
        BY <2>1, <2>2, <1>8, <1>2, <1>4
    <3> QED BY <3>1, <1>1, <1>2, <1>4
  <2>3. CASE Back <= s
    <3>1. b = goal - Hour /\ Back <= b
        BY <2>1, <2>3, <1>8, <1>2, <1>4
    <3>2. a <= b \/ b \div Hour = a \div Hour
      <4>1. CASE a <= Back
          BY <4>1, <3>1, <1>1, <1>4, <1>8
      <4>2. CASE Back < a /\ b < a
        <5>1. lo <= b /\ b < lo + Hour
            BY <4>2, <3>1, <1>12, <1>1, <1>3, <1>4, <1>8
        <5> QED BY <5>1, <1>3, <1>8
      <4> QED BY <4>1, <4>2, <1>1, <1>4, <1>8
    <3>3. Forward + Hour <= b
        BY <3>1, <1>4, <1>8
    <3> QED BY <3>1, <3>2, <3>3
  <2> QED BY <2>2, <2>3, <1>7, <1>4
<1>13. CASE f = 0 /\ Back + Hour <= a
  <2>1. s = goal /\ Back <= s /\ b = goal
      BY <1>13, <1>1, <1>2, <1>4, <1>6, <1>8 DEF Timestamp, InSummer
  <2> QED BY <2>1, <1>1, <1>2, <1>4
<1> HIDE DEF Shown
<1> QED BY <1>1, <1>4, <1>10, <1>11, <1>12, <1>13

\* Instants that a step from dt to the instant g passes over, across the change
\* forward, in the hour before a midnight.
Across(dt, t, g) ==
    /\ dt.at < Forward + Hour /\ Forward + Hour <= FromTimestamp(g).at
    /\ g % Day = 0 /\ Forward + 2 * Hour <= g /\ g <= Back
    /\ g - Hour <= t /\ t < g

LEMMA IncrementPasses ==
    ASSUME OnTheHour, NEW dt \in Times, NEW goal, OnHour(dt.at, goal),
           NEW t \in Nat, Instant(dt) <= t, t < Instant(dt) + goal - dt.at
    PROVE  LET a == dt.at
               next_hour == Hour * (a \div Hour) + Hour
               x == FromTimestamp(t).at
           IN  /\ t < End
               /\ \/ a <= x /\ x < goal
                  \/ goal # next_hour /\ x \div Hour = a \div Hour
                  \/ goal % Day # 0 /\ goal = next_hour /\ x = t + Hour /\ a <= t /\ t < goal
                  \/ Across(dt, t, Instant(dt) + goal - a)
<1> DEFINE a == dt.at  f == dt.fold  lo == Hour * (a \div Hour)
           g == Instant(dt) + goal - a  x == FromTimestamp(t).at
<1>1. /\ a \in Wall /\ a \in Nat /\ f \in {0, 1} /\ (f = 1 => Back <= a)
      /\ Instant(dt) = Timestamp(a, f)
    BY TimeIs, LocalIs
<1>2. /\ goal \in Nat /\ goal < End /\ a < goal /\ goal % Hour = 0
      /\ goal % Day = 0 \/ goal = lo + Hour
    BY Changes DEF Wall, OnHour
<1>3. /\ lo \in Nat /\ lo <= a /\ a < lo + Hour
      /\ Forward <= a => Forward <= lo
      /\ a < Forward => lo + Hour <= Forward
      /\ Back <= a => Back <= lo
      /\ a < Back => lo + Hour <= Back
      /\ lo + Hour <= goal
      /\ Forward <= a /\ a < Forward + Hour => lo = Forward
      /\ Back <= a /\ a < Back + Hour => lo = Back
      /\ \A z \in Nat : z \div Hour = a \div Hour <=> lo <= z /\ z < lo + Hour
    BY <1>1, <1>2, HourBlock, ChangeHour
<1>4. Hour \in Nat \ {0} /\ Forward \in Nat /\ Back \in Nat /\ Forward + 2 * Hour <= Back /\ End \in Nat
    BY Changes
<1>5. Timestamp(a, f) \in Nat /\ Timestamp(a, f) <= a
    BY <1>1, InstantIs
<1> HIDE DEF a, f, lo
<1>6. g = Timestamp(a, f) + goal - a
    BY <1>1 DEF a
<1>7. g \in Nat /\ g < End /\ Timestamp(a, f) <= t /\ t < g /\ t < End
    BY <1>1, <1>2, <1>4, <1>5, <1>6 DEF a
<1> DEFINE b == FromTimestamp(g).at
<1> HIDE DEF g
<1>8. /\ x \in Nat
      /\ (t < Forward \/ Back <= t) => x = t
      /\ Forward <= t /\ t < Back => x = t + Hour
      /\ b \in Nat
      /\ (g < Forward \/ Back <= g) => b = g
      /\ Forward <= g /\ g < Back => b = g + Hour
    BY <1>7, ShownAt
<1> HIDE DEF x, b
<1>9. goal % Day = 0 /\ Forward < goal => Forward + 2 * Hour < goal
    BY <1>2, DayBlock
<1> DEFINE Kinds ==
        \/ a <= x /\ x < goal
        \/ goal # lo + Hour /\ x \div Hour = a \div Hour
        \/ goal % Day # 0 /\ goal = lo + Hour /\ x = t + Hour /\ a <= t /\ t < goal
        \/ /\ a < Forward + Hour /\ Forward + Hour <= b
           /\ g % Day = 0 /\ Forward + 2 * Hour <= g /\ g <= Back
           /\ g - Hour <= t /\ t < g
<1> SUFFICES Kinds
    BY <1>7 DEF Across, a, b, x, g, lo
<1>10. CASE f = 1
  <2>1. Back <= a /\ g = goal /\ a <= t
      BY <1>10, <1>1, <1>2, <1>4, <1>6, <1>7 DEF Timestamp, InSummer
  <2> QED BY <2>1, <1>1, <1>2, <1>4, <1>7, <1>8
<1>11. CASE f = 0 /\ a < Forward + Hour
  <2>1. g = goal /\ a <= t
      BY <1>11, <1>1, <1>2, <1>4, <1>6, <1>7 DEF Timestamp, InSummer
  <2>2. a <= x
      BY <2>1, <1>1, <1>4, <1>8
  <2>3. CASE x < goal
      BY <2>2, <2>3
  <2>4. CASE goal <= x
    <3>1. Forward <= t /\ t < Back /\ x = t + Hour /\ goal - Hour <= t /\ t < goal
        BY <2>1, <2>4, <1>2, <1>4, <1>7, <1>8
    <3>2. CASE goal % Day = 0
      <4>1. Forward < goal
          BY <3>1, <1>2, <1>4
      <4>2. Forward + 2 * Hour <= goal
          BY <4>1, <3>2, <1>2, <1>4, <1>9
      <4>3. goal <= Back
        <5>1. ASSUME Back < goal PROVE FALSE
          <6> DEFINE k == Hour * (Back \div Hour)
          <6>1. k \in Nat /\ Back = k + (Back % Hour) /\ Back % Hour = 0
                /\ \A z \in Nat : z % Hour = 0 => (Back < z => k + Hour <= z)
              BY <1>4, Block DEF OnTheHour
          <6> HIDE DEF k
          <6>2. Back + Hour <= goal
              BY <6>1, <5>1, <1>2, <1>4
          <6> QED BY <6>2, <3>1, <1>2, <1>4
        <5> QED BY <5>1, <1>2, <1>4
      <4>4. Forward + Hour <= b
          BY <4>2, <2>1, <1>2, <1>4, <1>7, <1>8
      <4> QED BY <4>2, <4>3, <4>4, <3>1, <3>2, <2>1, <1>11
    <3>3. CASE goal % Day # 0
        BY <3>1, <3>3, <2>1, <1>2
    <3> QED BY <3>2, <3>3
  <2> QED BY <2>3, <2>4, <1>2, <1>8
<1>12. CASE f = 0 /\ Forward + Hour <= a /\ a < Back + Hour
  <2>1. g = goal - Hour /\ a - Hour <= t /\ Forward <= t
      BY <1>12, <1>1, <1>2, <1>4, <1>6, <1>7 DEF Timestamp, InSummer
  <2>2. CASE t < Back
      BY <2>1, <2>2, <1>1, <1>2, <1>4, <1>7, <1>8
  <2>3. CASE Back <= t
    <3>1. x = t /\ x < goal - Hour
        BY <2>1, <2>3, <1>7, <1>8
    <3>2. CASE a <= x
        BY <3>1, <3>2, <1>2, <1>4, <1>8
    <3>3. CASE x < a
      <4>1. lo = Back /\ lo <= x /\ x < lo + Hour
          BY <3>1, <3>3, <2>3, <1>12, <1>1, <1>3, <1>4, <1>8
      <4>2. goal # lo + Hour
          BY <4>1, <3>1, <1>2, <1>3, <1>4, <1>8
      <4> QED BY <4>1, <4>2, <1>3, <1>8
    <3> QED BY <3>2, <3>3, <1>1, <1>8
  <2> QED BY <2>2, <2>3, <1>4
<1>13. CASE f = 0 /\ Back + Hour <= a
  <2>1. g = goal /\ a <= t
      BY <1>13, <1>1, <1>2, <1>4, <1>6, <1>7 DEF Timestamp, InSummer
  <2> QED BY <2>1, <1>13, <1>1, <1>2, <1>4, <1>7, <1>8
<1> HIDE DEF Kinds
<1> QED BY <1>1, <1>4, <1>10, <1>11, <1>12, <1>13

\* From dt to the end of the calendar.
LEMMA EndPasses ==
    ASSUME OnTheHour, NEW dt \in Times, NEW t \in Nat, Instant(dt) <= t, t < End
    PROVE  LET a == dt.at
               lo == Hour * (a \div Hour)
               x == FromTimestamp(t).at
           IN  a <= x \/ (lo = Back /\ x \div Hour = a \div Hour)
<1> DEFINE a == dt.at  f == dt.fold  lo == Hour * (a \div Hour)  x == FromTimestamp(t).at
<1>1. /\ a \in Wall /\ a \in Nat /\ f \in {0, 1} /\ (f = 1 => Back <= a)
      /\ Instant(dt) = Timestamp(a, f)
    BY TimeIs, LocalIs
<1>3. /\ lo \in Nat /\ lo <= a /\ a < lo + Hour
      /\ Back <= a /\ a < Back + Hour => lo = Back
      /\ \A z \in Nat : z \div Hour = a \div Hour <=> lo <= z /\ z < lo + Hour
    BY <1>1, HourBlock, ChangeHour
<1>4. Hour \in Nat \ {0} /\ Forward \in Nat /\ Back \in Nat /\ Forward + 2 * Hour <= Back
    BY Changes
<1>5. /\ x \in Nat
      /\ (t < Forward \/ Back <= t) => x = t
      /\ Forward <= t /\ t < Back => x = t + Hour
    BY ShownAt
<1> HIDE DEF a, f, lo, x
<1>6. Timestamp(a, f) <= t
    BY <1>1 DEF a
<1>7. ASSUME x < a PROVE lo = Back /\ lo <= x /\ x < lo + Hour
  <2>1. f = 0 /\ Back <= t /\ Back <= a /\ a < Back + Hour /\ x = t
    <3>1. f = 1 => FALSE
        BY <1>7, <1>1, <1>4, <1>5, <1>6 DEF Timestamp, InSummer
    <3>2. a < Forward + Hour => FALSE
        BY <3>1, <1>7, <1>1, <1>4, <1>5, <1>6 DEF Timestamp, InSummer
    <3>3. Back + Hour <= a => FALSE
        BY <3>1, <1>7, <1>1, <1>4, <1>5, <1>6 DEF Timestamp, InSummer
    <3>4. Timestamp(a, f) = a - Hour
        BY <3>1, <3>2, <3>3, <1>1, <1>4 DEF Timestamp, InSummer
    <3>5. Back <= t
        BY <3>2, <3>4, <1>1, <1>4, <1>5, <1>6, <1>7
    <3> QED BY <3>1, <3>3, <3>5, <1>1, <1>4, <1>5, <1>7
  <2> QED BY <2>1, <1>1, <1>3, <1>4, <1>5, <1>7
<1>8. a <= x \/ (lo = Back /\ x \div Hour = a \div Hour)
    BY <1>1, <1>3, <1>5, <1>7
<1> QED BY <1>8 DEF a, x, lo

-----------------------------------------------------------------------------
(* What a turn passes over does not match.                                  *)

\* The field n of the reading a has to change, and the fields up to m are the
\* ones that can grow for it.
Stuck(part, n, m, a) ==
    LET v == NextValue(part.fields[n], FieldNames[n], a)
    IN  \/ v = NoValue /\ m = n - 1
        \/ v # NoValue /\ v # Value(FieldNames[n], a) /\ n \in {4, 5} /\ m = n

\* The value that is wanted next.
LEMMA WantedNext ==
    ASSUME NEW part, CronPart(part), NEW a \in Wall, NEW n \in 1..7
    PROVE  LET c == Value(FieldNames[n], a)
               v == NextValue(part.fields[n], FieldNames[n], a)
           IN  /\ c \in Int /\ c # NoValue
               /\ v # NoValue => /\ v \in MinValue(FieldNames[n])..MaxAt(FieldNames[n], a)
                                 /\ v \in Int /\ c <= v
                                 /\ \E e \in part.fields[n] : v \in Meant(e, FieldNames[n], a)
<1> DEFINE name == FieldNames[n]
           c == Value(name, a)
           v == NextValue(part.fields[n], name, a)
           W == Wanted(part.fields[n], name, a)
<1>1. \A e \in part.fields[n] : Sound(name, e)
    BY CronPartIs
<1>2. v # NoValue => v \in W /\ c <= v
    BY <1>1, NextValueIs DEF LeastFrom
<1>3. W \subseteq MinValue(name)..MaxAt(name, a)
    BY <1>1, WantedRange
<1>4. c \in Int /\ MinValue(name) \in {0, 1} /\ MaxAt(name, a) \in Int /\ MinValue(name) <= c
    BY FieldTypes
<1>5. c # NoValue
  <2> HIDE DEF c, name
  <2> QED BY <1>4 DEF NoValue
<1>6. v # NoValue => \E e \in part.fields[n] : v \in Meant(e, name, a)
    BY <1>2 DEF Wanted
<1>7. v # NoValue => v \in MinValue(name)..MaxAt(name, a)
    BY <1>2, <1>3
<1>8. v # NoValue => v \in Int
  <2> HIDE DEF v, name
  <2> QED BY <1>7
<1> QED BY <1>2, <1>4, <1>5, <1>6, <1>7, <1>8

LEMMA NoFitStuck ==
    ASSUME NEW part, CronPart(part), NEW a \in Wall, NEW n \in 1..7, NEW m,
           Stuck(part, n, m, a), NEW x \in Wall, a <= x,
           Carry(m, a) # 0 =>
               x < Reading(a, Carry(m, a), Value(FieldNames[Carry(m, a)], a) + 1)
    PROVE  ~ FieldFits(part, n, x)
<1> DEFINE c == Value(FieldNames[n], a)
           v == NextValue(part.fields[n], FieldNames[n], a)
           z == Value(FieldNames[n], x)
<1>1. c \in Int /\ z \in Int /\ (v # NoValue => v \in Int /\ c <= v)
    BY WantedNext, FieldTypes
<1>2. m \in 0..6
    BY DEF Stuck
<1>3. Agree(m + 1, a, x)
    BY <1>2, CarryBetween
<1>4. CASE v = NoValue /\ m = n - 1
  <2>1. Agree(n, a, x)
      BY <1>3, <1>4
  <2>2. c <= z
      BY <2>1, ValueMono
  <2> QED BY <2>1, <2>2, <1>4, NoFitBetween
<1>5. CASE v # NoValue /\ v # c /\ m = n
  <2>1. Agree(n + 1, a, x)
      BY <1>3, <1>5
  <2>2. n \in 1..((n + 1) - 1) /\ \A k \in 1..(n - 1) : k \in 1..((n + 1) - 1)
      OBVIOUS
  <2>3. Agree(n, a, x) /\ z = c
      BY <2>1, <2>2 DEF Agree
  <2> HIDE DEF c, v, z
  <2>4. c <= z /\ z < v
      BY <2>3, <1>1, <1>5
  <2> QED BY <2>3, <2>4, NoFitBetween DEF c, v, z
<1> QED BY <1>4, <1>5 DEF Stuck

LEMMA NoFitHour ==
    ASSUME NEW part, CronPart(part), NEW a \in Wall, NEW n \in 1..6,
           NextValue(part.fields[n], FieldNames[n], a) # Value(FieldNames[n], a),
           NEW x \in Wall, x \div Hour = a \div Hour
    PROVE  ~ FieldFits(part, n, x)
<1> DEFINE c == Value(FieldNames[n], a)
           v == NextValue(part.fields[n], FieldNames[n], a)
           z == Value(FieldNames[n], x)
<1>1. n \in 1..7
    OBVIOUS
<1>2. c \in Int /\ (v # NoValue => v \in Int /\ c <= v)
    BY <1>1, WantedNext
<1>3. Agree(7, a, x)
    BY AgreeIs
<1>4. n \in 1..(7 - 1) /\ \A k \in 1..(n - 1) : k \in 1..(7 - 1)
    OBVIOUS
<1>5. Agree(n, a, x) /\ z = c
    BY <1>3, <1>4 DEF Agree
<1> HIDE DEF c, v, z
<1>6. c <= z /\ (v # NoValue => z < v)
    BY <1>2, <1>5 DEF v, c
<1> QED BY <1>1, <1>5, <1>6, NoFitBetween DEF c, v, z

\* An hour later, in an hour that is jumped over.
LEMMA NoFitMinute ==
    ASSUME NEW part, CronPart(part), NEW a \in Wall, NEW t \in Nat, NEW x \in Wall,
           a <= t, t \div Hour = a \div Hour, x = t + Hour,
           LET v == NextValue(part.fields[7], FieldNames[7], a)
           IN  v # NoValue => t < Reading(a, 7, v)
    PROVE  ~ FieldFits(part, 7, x)
<1> DEFINE c == Value(FieldNames[7], a)
           v == NextValue(part.fields[7], FieldNames[7], a)
           z == Value(FieldNames[7], x)
           lo == Hour * (a \div Hour)
<1>1. a \in Nat /\ Hour \in Nat \ {0} /\ x \in Nat
    BY Changes DEF Wall
<1>2. c = a % Hour /\ z = x % Hour
    BY Names, Values
<1>3. lo \in Nat /\ a = lo + (a % Hour)
    BY <1>1, Block
<1>4. t = lo + (t % Hour) /\ t % Hour \in 0..(Hour - 1)
  <2>1. t = (Hour * (t \div Hour)) + (t % Hour) /\ t % Hour \in 0..(Hour - 1)
    <3>1. t \in Int
        OBVIOUS
    <3> QED BY <3>1, <1>1, DivMod
  <2> QED BY <2>1
<1>5. x % Hour = t % Hour
  <2> DEFINE q == t \div Hour  s == t % Hour
  <2>1. q \in Nat /\ t = (Hour * q) + s /\ s \in 0..(Hour - 1)
    <3>1. q \in Nat
        BY <1>1, QuotientNat
    <3> QED BY <3>1, <1>4
  <2> HIDE DEF q, s
  <2>2. x = (Hour * (q + 1)) + s /\ q + 1 \in Int
      BY <2>1, <1>1
  <2>3. ((Hour * (q + 1)) + s) % Hour = s
      BY <2>1, <2>2, <1>1, DivUnique
  <2> QED BY <2>2, <2>3 DEF s
<1>6. v # NoValue => z < v
  <2> SUFFICES ASSUME v # NoValue PROVE z < v
      OBVIOUS
  <2>1. v \in MinValue(FieldNames[7])..MaxAt(FieldNames[7], a) /\ v \in Int
      BY WantedNext
  <2>2. Settable(a, 7, v)
      BY <2>1 DEF Settable, RealFields
  <2> DEFINE r == Reading(a, 7, v)
  <2>3. Agree(7, a, r) /\ r \in Wall /\ Value(FieldNames[7], r) = v
      BY <2>2, ReadingAgrees
  <2>4. r \div Hour = a \div Hour /\ r % Hour = v
    <3> HIDE DEF r, v
    <3>1. Agree(7, a, r) /\ r \in Wall /\ Value(FieldNames[7], r) = v
        BY <2>3
    <3>2. r \div Hour = a \div Hour
        BY <3>1, AgreeIs
    <3>3. Value("minute", r) = r % Hour /\ FieldNames[7] = "minute"
        BY <3>1, Values, Names
    <3> QED BY <3>1, <3>2, <3>3
  <2>5. r = lo + v
    <3>1. r \in Nat
        BY <2>3, Changes DEF Wall
    <3>2. r \in Int
        BY <3>1
    <3>3. r = (Hour * (r \div Hour)) + (r % Hour)
        BY <3>2, <1>1, DivMod
    <3> QED BY <3>3, <2>4
  <2>6. t < r
      OBVIOUS
  <2> HIDE DEF r, lo, v, z
  <2> QED BY <2>1, <2>5, <2>6, <1>2, <1>3, <1>4, <1>5
<1>7. c <= z
  <2> HIDE DEF lo, c, z
  <2> QED BY <1>2, <1>3, <1>4, <1>5
<1> QED BY <1>6, <1>7, NoFitBetween

\* Where a turn that gives up goes: to a midnight, or to the next hour.
LEMMA GrowthIs ==
    ASSUME NEW part, CronPart(part), NEW a \in Wall, NEW n \in 1..7, NEW m,
           Stuck(part, n, m, a), Carry(m, a) # 0
    PROVE  LET i == Carry(m, a)
               goal == Reading(a, i, Value(FieldNames[i], a) + 1)
           IN  /\ i \in 1..6 /\ i < n /\ Agree(i, a, goal)
               /\ OnHour(a, goal)
               /\ n # 7 => goal % Day = 0
               /\ n = 7 => goal = Hour * (a \div Hour) + Hour
<1> DEFINE i == Carry(m, a)
           v == Value(FieldNames[i], a) + 1
           goal == Reading(a, i, v)
           lo == Hour * (a \div Hour)
<1>1. m \in 0..6 /\ (m = n - 1 \/ (m = n /\ n \in {4, 5}))
    BY DEF Stuck
<1>2. i \in 0..m /\ i \in RealFields /\ Settable(a, i, v)
    BY <1>1, CarryIs
<1>3. i \in 1..6 /\ i < n /\ (n # 7 => i \in {1, 2, 3})
  <2> HIDE DEF i
  <2> QED BY <1>1, <1>2 DEF RealFields
<1>4. Value(FieldNames[i], a) \in Int /\ i \in 1..7
    BY <1>3, FieldTypes
<1>5. a < goal
  <2>1. Value(FieldNames[i], a) < v
      BY <1>4
  <2> QED BY <1>2, <2>1, ReadingAbove
<1>6. /\ Agree(i, a, goal) /\ goal \in Wall
      /\ i \in {1, 2, 3} => goal % Day = 0
      /\ i # 7 => goal % Hour = 0
    BY <1>2, ReadingAgrees
<1>7. goal % Hour = 0 /\ goal \in Nat /\ a \in Nat /\ Hour \in Nat \ {0} /\ goal < End
  <2> HIDE DEF goal, i
  <2> QED BY <1>3, <1>6, Changes DEF Wall
<1>8. /\ lo \in Nat /\ lo <= a /\ a < lo + Hour /\ lo + Hour <= goal
      /\ \A x \in Nat : x \div Hour = a \div Hour <=> lo <= x /\ x < lo + Hour
  <2> HIDE DEF goal, i
  <2>1. /\ lo \in Nat /\ lo <= a /\ a < lo + Hour
        /\ \A z \in Nat : z % Hour = 0 => (z <= a => z <= lo) /\ (a < z => lo + Hour <= z)
        /\ \A x \in Nat : x \div Hour = a \div Hour <=> lo <= x /\ x < lo + Hour
      BY <1>7, Block
  <2> QED BY <2>1, <1>5, <1>7
<1>9. n = 7 => goal = lo + Hour
  <2> SUFFICES ASSUME n = 7, lo + Hour < goal PROVE FALSE
    <3> HIDE DEF goal, lo
    <3> QED BY <1>7, <1>8
  <2> DEFINE x == lo + Hour
  <2> HIDE DEF lo
  <2>1. x \in Wall /\ x \in Nat /\ a <= x /\ x < goal
    <3> HIDE DEF goal
    <3> QED BY <1>7, <1>8, Changes DEF Wall
  <2>2. m = 6
      BY <1>1
  <2>3. Agree(7, a, x)
    <3> HIDE DEF x
    <3>1. m + 1 = 7
        BY <2>2
    <3>2. Carry(m, a) # 0 => x < Reading(a, Carry(m, a), Value(FieldNames[Carry(m, a)], a) + 1)
        BY <2>1
    <3>3. Agree(m + 1, a, x)
        BY <1>1, <2>1, <3>2, CarryBetween
    <3> QED BY <3>1, <3>3
  <2>4. x \div Hour = a \div Hour
      BY <2>1, <2>3, AgreeIs
  <2> QED BY <1>7, <1>8, <2>1, <2>4
<1> HIDE DEF i, goal, lo
<1>10. OnHour(a, goal) /\ (n # 7 => goal % Day = 0)
    BY <1>3, <1>5, <1>6, <1>7, <1>9 DEF OnHour, lo
<1> QED BY <1>3, <1>6, <1>9, <1>10 DEF i, goal, lo

\* What a turn that gives up passes over matches only across the change forward.
LEMMA IncrementMisses ==
    ASSUME OnTheHour, NEW part, CronPart(part), NEW dt \in Times, NEW n \in 1..7, NEW m,
           Stuck(part, n, m, dt.at), Carry(m, dt.at) # 0,
           NEW t \in Nat, Instant(dt) <= t, t < Instant(Incremented(dt, m)),
           Matches(part, FromTimestamp(t).at)
    PROVE  Across(dt, t, Instant(Incremented(dt, m)))
<1> DEFINE a == dt.at
           i == Carry(m, a)
           goal == Reading(a, i, Value(FieldNames[i], a) + 1)
           next_hour == Hour * (a \div Hour) + Hour
           x == FromTimestamp(t).at
           g == Instant(dt) + goal - a
<1>1. a \in Wall /\ m \in 0..7
    BY TimeIs DEF Stuck
<1>2. OnHour(a, goal) /\ (n # 7 => goal % Day = 0) /\ (n = 7 => goal = next_hour)
    BY <1>1, GrowthIs
<1>3. Instant(Incremented(dt, m)) = g
  <2>1. g \in Nat /\ g < End /\ Incremented(dt, m) = FromTimestamp(g)
      BY <1>1, IncrementIs
  <2> HIDE DEF g
  <2> QED BY <2>1, RoundTrip
<1>4. t < g
    BY <1>3
<1> HIDE DEF goal
<1>5. /\ t < End
      /\ \/ a <= x /\ x < goal
         \/ goal # next_hour /\ x \div Hour = a \div Hour
         \/ goal % Day # 0 /\ goal = next_hour /\ x = t + Hour /\ a <= t /\ t < goal
         \/ Across(dt, t, g)
    BY <1>2, <1>4, IncrementPasses
<1>6. x \in Wall
    BY <1>5, ShownAt
<1>7. \A k \in 1..7 : FieldFits(part, k, x)
    BY MatchesIs
<1>8. NextValue(part.fields[n], FieldNames[n], a) # Value(FieldNames[n], a)
  <2>1. Value(FieldNames[n], a) # NoValue
      BY <1>1, WantedNext
  <2> QED BY <2>1 DEF Stuck
<1>9. ASSUME a <= x, x < goal PROVE FALSE
  <2>1. ~ FieldFits(part, n, x)
      BY <1>1, <1>6, <1>9, NoFitStuck DEF goal
  <2> QED BY <2>1, <1>7
<1>10. ASSUME goal # next_hour, x \div Hour = a \div Hour PROVE FALSE
  <2>1. n \in 1..6
      BY <1>2, <1>10
  <2>2. ~ FieldFits(part, n, x)
      BY <1>1, <1>6, <1>8, <1>10, <2>1, NoFitHour
  <2> QED BY <2>2, <1>7
<1>11. ASSUME goal % Day # 0, goal = next_hour, x = t + Hour, a <= t, t < goal PROVE FALSE
  <2>1. n = 7
      BY <1>2, <1>11
  <2>2. t \div Hour = a \div Hour
    <3> DEFINE lo == Hour * (a \div Hour)
    <3>1. a \in Nat /\ Hour \in Nat \ {0}
        BY <1>1, Changes DEF Wall
    <3>2. /\ lo \in Nat /\ lo <= a
          /\ \A z \in Nat : z \div Hour = a \div Hour <=> lo <= z /\ z < lo + Hour
        BY <3>1, Block
    <3> HIDE DEF lo
    <3>3. t < lo + Hour
        BY <1>11 DEF lo
    <3> QED BY <3>1, <3>2, <3>3, <1>11
  <2>3. NextValue(part.fields[7], FieldNames[7], a) # NoValue =>
            t < Reading(a, 7, NextValue(part.fields[7], FieldNames[7], a))
    <3>1. NextValue(part.fields[7], FieldNames[7], a) = NoValue
        BY <2>1 DEF Stuck
    <3> QED BY <3>1
  <2>4. ~ FieldFits(part, 7, x)
      BY <1>1, <1>6, <1>11, <2>2, <2>3, NoFitMinute
  <2> QED BY <2>4, <1>7
<1> HIDE DEF a, i, next_hour, x, g
<1> QED BY <1>3, <1>5, <1>9, <1>10, <1>11

\* What is left when no field can grow any more does not match.
LEMMA EndMisses ==
    ASSUME OnTheHour, Back + Hour < End,
           NEW part, CronPart(part), NEW dt \in Times, NEW n \in 1..7, NEW m,
           Stuck(part, n, m, dt.at), Carry(m, dt.at) = 0,
           NEW t \in Nat, Instant(dt) <= t, t < End, Matches(part, FromTimestamp(t).at)
    PROVE  FALSE
<1> DEFINE a == dt.at
           lo == Hour * (a \div Hour)
           x == FromTimestamp(t).at
<1>1. a \in Wall /\ a \in Nat /\ m \in 0..6 /\ (n = 7 => m = 6)
    BY TimeIs, Changes DEF Stuck, Wall
<1>2. a <= x \/ (lo = Back /\ x \div Hour = a \div Hour)
    BY EndPasses
<1>3. x \in Wall
    BY ShownAt
<1>4. FieldFits(part, n, x)
    BY MatchesIs
<1>5. ASSUME a <= x PROVE FALSE
    BY <1>1, <1>3, <1>4, <1>5, NoFitStuck
<1>6. ASSUME lo = Back, x \div Hour = a \div Hour PROVE FALSE
  <2>1. NextValue(part.fields[n], FieldNames[n], a) # Value(FieldNames[n], a)
    <3>1. Value(FieldNames[n], a) # NoValue
        BY <1>1, WantedNext
    <3> QED BY <3>1 DEF Stuck
  <2>2. CASE n # 7
    <3>1. n \in 1..6
        BY <2>2
    <3> QED BY <3>1, <1>1, <1>3, <1>4, <1>6, <2>1, NoFitHour
  <2>3. CASE n = 7
    <3> DEFINE y == Back + Hour
    <3>1. /\ lo <= a /\ a < lo + Hour
          /\ \A z \in Nat : z \div Hour = a \div Hour <=> lo <= z /\ z < lo + Hour
        BY <1>1, Changes, Block
    <3> HIDE DEF lo
    <3>2. y \in Wall /\ y \in Nat /\ a <= y
      <4>1. y \in Wall /\ y \in Nat
          BY Changes DEF Wall
      <4>2. a \in Nat /\ a < Back + Hour
          BY <1>1, <1>6, <3>1
      <4> HIDE DEF a
      <4>3. a <= y
          BY <4>1, <4>2
      <4> QED BY <4>1, <4>3
    <3>3. Agree(7, a, y)
      <4>1. m + 1 = 7 /\ m \in 0..6
          BY <1>1, <2>3
      <4>2. Agree(m + 1, a, y)
          BY <1>1, <4>1, <3>2, CarryBetween
      <4> QED BY <4>1, <4>2
    <3>4. y \div Hour = a \div Hour
        BY <1>1, <3>2, <3>3, AgreeIs
    <3>5. y < lo + Hour
        BY <3>1, <3>2, <3>4
    <3> QED BY <3>5, <1>6, Changes
  <2> QED BY <2>2, <2>3
<1> HIDE DEF a, lo, x
<1> QED BY <1>2, <1>5, <1>6

\* The fields before the one that grows keep their values.
LEMMA IncrementKeeps ==
    ASSUME OnTheHour, NEW part, CronPart(part), NEW dt \in Times, NEW n \in 1..7, NEW m,
           Stuck(part, n, m, dt.at), Carry(m, dt.at) # 0
    PROVE  LET b == Incremented(dt, m).at
           IN  /\ b \in Wall /\ Agree(Carry(m, dt.at), dt.at, b)
               /\ Incremented(dt, m) = FromTimestamp(Instant(Incremented(dt, m)))
               /\ Forward + Hour <= dt.at => Forward + Hour <= b
<1> DEFINE a == dt.at
           i == Carry(m, a)
           goal == Reading(a, i, Value(FieldNames[i], a) + 1)
           g == Instant(dt) + goal - a
           b == FromTimestamp(g).at
<1>1. a \in Wall /\ m \in 0..7
    BY TimeIs DEF Stuck
<1>2. OnHour(a, goal) /\ i \in 1..6 /\ Agree(i, a, goal)
    BY <1>1, GrowthIs
<1>3. g \in Nat /\ g < End /\ Incremented(dt, m) = FromTimestamp(g)
    BY <1>1, IncrementIs
<1>4. Instant(FromTimestamp(g)) = g
  <2> HIDE DEF g
  <2> QED BY <1>3, RoundTrip
<1> HIDE DEF i, goal
<1>5. /\ b \in Wall
      /\ \/ b = goal
         \/ b = goal + Hour /\ b \div Day = goal \div Day
         \/ b = goal - Hour /\ (a <= b \/ b \div Hour = a \div Hour)
      /\ Forward + Hour <= a => Forward + Hour <= b
    BY <1>2, StepShown
<1> HIDE DEF a, g, b
<1>6. goal \in Wall /\ goal \in Int /\ Hour \in Nat /\ i \in 1..8 /\ i \in Int
    BY <1>2, Changes DEF Wall, OnHour
<1>7. Agree(i, a, b)
  <2>1. CASE b = goal
      BY <2>1, <1>2
  <2>2. CASE b \div Day = goal \div Day
    <3>1. Agree(6, goal, b)
        BY <2>2, <1>5, <1>6, AgreeIs
    <3>2. \A k \in 1..(i - 1) : k \in 1..(6 - 1)
        BY <1>2
    <3> QED BY <3>1, <3>2, <1>2 DEF Agree
  <2>3. CASE a <= b /\ b = goal - Hour
    <3>1. b <= goal
        BY <2>3, <1>6
    <3> QED BY <2>3, <3>1, <1>1, <1>2, <1>5, <1>6, AgreeBetween
  <2>4. CASE b \div Hour = a \div Hour
    <3>1. Agree(7, a, b)
        BY <2>4, <1>1, <1>5, AgreeIs
    <3>2. \A k \in 1..(i - 1) : k \in 1..(7 - 1)
        BY <1>2
    <3> QED BY <3>1, <3>2 DEF Agree
  <2> QED BY <2>1, <2>2, <2>3, <2>4, <1>5
<1> QED BY <1>3, <1>4, <1>5, <1>7 DEF a, i, b

\* The field n of the reading a is to be set to v.
Set(part, n, v, a) ==
    /\ n \in RealFields
    /\ v = NextValue(part.fields[n], FieldNames[n], a)
    /\ v # NoValue /\ v # Value(FieldNames[n], a)

LEMMA SetKeeps ==
    ASSUME NEW part, CronPart(part), NEW a \in Wall, NEW n \in 1..7, NEW v, Set(part, n, v, a)
    PROVE  LET r == Reading(a, n, v)
           IN  /\ r \in Wall /\ a < r /\ Agree(n, a, r) /\ FieldFits(part, n, r)
               /\ Settable(a, n, v) /\ Value(FieldNames[n], r) = v
               /\ n # 7 => r % Hour = 0
<1> DEFINE r == Reading(a, n, v)
           c == Value(FieldNames[n], a)
<1>1. /\ c \in Int /\ v \in MinValue(FieldNames[n])..MaxAt(FieldNames[n], a)
      /\ v \in Int /\ c <= v
    BY WantedNext DEF Set
<1>2. PICK e \in part.fields[n] : v \in Meant(e, FieldNames[n], a)
    BY WantedNext DEF Set
<1>3. Settable(a, n, v) /\ c < v
  <2>1. v # c
      BY DEF Set
  <2>2. Settable(a, n, v)
      BY <1>1 DEF Set, Settable
  <2> HIDE DEF c
  <2>3. c < v
      BY <1>1, <2>1
  <2> QED BY <2>2, <2>3
<1>4. a < r
    BY <1>3, ReadingAbove
<1>5. r \in Wall /\ Agree(n, a, r) /\ Value(FieldNames[n], r) = v /\ (n # 7 => r % Hour = 0)
    BY <1>3, ReadingAgrees
<1>6. Sound(FieldNames[n], e)
    BY CronPartIs
<1> HIDE DEF r
<1>7. v \in Meant(e, FieldNames[n], r)
    BY <1>2, <1>5, <1>6, MeantAgree
<1>8. FieldFits(part, n, r)
    BY <1>5, <1>7 DEF FieldFits
<1> QED BY <1>3, <1>4, <1>5, <1>8 DEF r

\* What a turn that sets a field passes over does not match.
LEMMA SetMisses ==
    ASSUME OnTheHour, NEW part, CronPart(part), NEW dt \in Times, NEW n \in 1..7, NEW v,
           Set(part, n, v, dt.at),
           NEW t \in Nat, Instant(dt) <= t,
           t < Timestamp(Reading(dt.at, n, v), dt.fold),
           Matches(part, FromTimestamp(t).at)
    PROVE  FALSE
<1> DEFINE a == dt.at
           r == Reading(a, n, v)
           x == FromTimestamp(t).at
           c == Value(FieldNames[n], a)
           z == Value(FieldNames[n], x)
           lo == Hour * (a \div Hour)
<1>1. a \in Wall /\ a \in Nat /\ Hour \in Nat \ {0}
    BY TimeIs, Changes DEF Wall
<1>2. /\ r \in Wall /\ a < r /\ Agree(n, a, r) /\ Settable(a, n, v)
      /\ Value(FieldNames[n], r) = v
      /\ n # 7 => r % Hour = 0
    BY <1>1, SetKeeps
<1>3. r \div Hour = a \div Hour \/ r % Hour = 0
  <2> HIDE DEF r
  <2>1. n = 7 => r \div Hour = a \div Hour
      BY <1>1, <1>2, AgreeIs
  <2> QED BY <2>1, <1>2
<1>4. /\ t < End
      /\ \/ a <= x /\ x < r
         \/ r \div Hour # a \div Hour /\ x \div Hour = a \div Hour
         \/ r \div Hour = a \div Hour /\ x = t + Hour /\ a <= t /\ t < r
    BY <1>2, <1>3, SetPasses
<1>5. x \in Wall
    BY <1>4, ShownAt
<1>6. \A k \in 1..7 : FieldFits(part, k, x)
    BY MatchesIs
<1>7. /\ v = NextValue(part.fields[n], FieldNames[n], a)
      /\ NextValue(part.fields[n], FieldNames[n], a) # c
    BY DEF Set
<1>8. ASSUME a <= x, x < r PROVE FALSE
  <2>1. Agree(n, a, x)
    <3> HIDE DEF a, r, x
    <3>1. n \in 1..8 /\ x <= r
        BY <1>2, <1>5, <1>8, Changes DEF Wall
    <3> QED BY <3>1, <1>1, <1>2, <1>5, <1>8, AgreeBetween
  <2>2. c <= z
      BY <2>1, <1>1, <1>5, <1>8, ValueMono
  <2>3. ~ (v <= z)
    <3>1. ASSUME v <= z PROVE FALSE
      <4>1. r <= x
          BY <2>1, <3>1, <1>1, <1>2, <1>5, ReadingLeast
      <4> HIDE DEF r, x
      <4> QED BY <4>1, <1>2, <1>5, <1>8, Changes DEF Wall
    <3> QED BY <3>1
  <2>4. z < v
    <3>1. z \in Int /\ v \in Int
      <4>1. z \in Int
          BY <1>5, FieldTypes
      <4>2. v \in Int
          BY <1>1, WantedNext DEF Set
      <4> QED BY <4>1, <4>2
    <3> HIDE DEF z
    <3> QED BY <2>3, <3>1
  <2>5. ~ FieldFits(part, n, x)
      BY <2>1, <2>2, <2>4, <1>1, <1>5, <1>7, NoFitBetween
  <2> QED BY <2>5, <1>6
<1>9. ASSUME r \div Hour # a \div Hour, x \div Hour = a \div Hour PROVE FALSE
  <2>1. n \in 1..6
    <3> HIDE DEF r, a
    <3>1. n = 7 => r \div Hour = a \div Hour
        BY <1>1, <1>2, AgreeIs
    <3> QED BY <3>1, <1>9
  <2>2. ~ FieldFits(part, n, x)
      BY <1>1, <1>5, <1>7, <1>9, <2>1, NoFitHour
  <2> QED BY <2>2, <1>6
<1>10. ASSUME r \div Hour = a \div Hour, x = t + Hour, a <= t, t < r PROVE FALSE
  <2>1. /\ lo \in Nat /\ lo <= a
        /\ \A y \in Nat : y \div Hour = a \div Hour <=> lo <= y /\ y < lo + Hour
      BY <1>1, Block
  <2>2. r \in Nat
    <3> HIDE DEF r
    <3> QED BY <1>2, Changes DEF Wall
  <2> HIDE DEF lo
  <2>3. t \div Hour = a \div Hour
    <3> HIDE DEF a, r
    <3>1. r < lo + Hour
        BY <2>1, <2>2, <1>10
    <3>2. lo <= t /\ t < lo + Hour
        BY <3>1, <2>1, <2>2, <1>1, <1>10
    <3> QED BY <3>2, <2>1
  <2>4. n = 7
    <3>1. ASSUME r % Hour = 0 PROVE FALSE
      <4> HIDE DEF a, r
      <4>1. r = Hour * (r \div Hour) + (r % Hour)
        <5>1. r \in Int
            BY <2>2
        <5> QED BY <5>1, <1>1, DivMod
      <4>2. r = lo
        <5>1. r = (Hour * (a \div Hour)) + 0
            BY <4>1, <3>1, <1>10
        <5> QED BY <5>1, <2>1 DEF lo
      <4> QED BY <4>2, <2>1, <2>2, <1>1, <1>2
    <3> QED BY <3>1, <1>2
  <2>5. NextValue(part.fields[7], FieldNames[7], a) # NoValue =>
            t < Reading(a, 7, NextValue(part.fields[7], FieldNames[7], a))
      BY <2>4, <1>7, <1>10
  <2>6. ~ FieldFits(part, 7, x)
      BY <1>1, <1>5, <1>10, <2>3, <2>5, NoFitMinute
  <2> QED BY <2>6, <1>6
<1> HIDE DEF a, r, x
<1> QED BY <1>4, <1>8, <1>9, <1>10

-----------------------------------------------------------------------------
(* A cron search passes over nothing that matches.                          *)

\* Matching instants were passed over, if at all, by a search from before the end
\* of the hour that the clocks jump over, and in the hour before one midnight of
\* the summer, when the clocks show a day's first hour.
MissedOnly(part, from, to) ==
    \E g \in Nat : \A t \in Passed(part, Instant(from), to) :
        /\ from.at < Forward + Hour
        /\ g % Day = 0 /\ Forward + 2 * Hour <= g /\ g <= Back
        /\ g - Hour <= t /\ t < g

\* A search that began at from is at dt.
Clean(part, from, dt) ==
    /\ MissedOnly(part, from, Instant(dt))
    /\ Passed(part, Instant(from), Instant(dt)) # {} => Forward + Hour <= dt.at
    /\ dt.at < Forward + Hour => from.at < Forward + Hour

LEMMA InstantTimes ==
    ASSUME NEW dt \in Times
    PROVE  Instant(dt) \in Nat /\ Instant(dt) = Timestamp(dt.at, dt.fold)
<1>1. dt = Local(dt.at, dt.fold) /\ dt.at \in Wall /\ dt.fold \in {0, 1} /\ (dt.fold = 1 => Back <= dt.at)
    BY TimeIs
<1>2. Instant(dt) = Timestamp(dt.at, dt.fold)
    BY <1>1, LocalIs
<1> QED BY <1>1, <1>2, InstantIs

LEMMA PassedIs ==
    ASSUME NEW part, NEW from \in Nat, NEW to \in Nat, NEW t
    PROVE  t \in Passed(part, from, to) <=>
               t \in Nat /\ from <= t /\ t < to /\ Matches(part, FromTimestamp(t).at)
    BY DEF Passed

LEMMA CleanBegin ==
    ASSUME NEW part, NEW dt \in Times
    PROVE  Clean(part, dt, dt)
<1>1. Instant(dt) \in Nat
    BY InstantTimes
<1>2. Passed(part, Instant(dt), Instant(dt)) = {}
    BY <1>1, PassedIs
<1> QED BY <1>2 DEF Clean, MissedOnly

LEMMA CleanStep ==
    ASSUME NEW part, NEW from \in Times, NEW dt \in Times, NEW new \in Times,
           Clean(part, from, dt),
           Forward + Hour <= dt.at => Forward + Hour <= new.at,
           \A t \in Nat : Instant(dt) <= t /\ t < Instant(new) /\ Matches(part, FromTimestamp(t).at) =>
               Across(dt, t, Instant(new)) /\ new = FromTimestamp(Instant(new))
    PROVE  Clean(part, from, new)
<1> DEFINE f == Instant(from)  d == Instant(dt)  g == Instant(new)
<1>1. f \in Nat /\ d \in Nat /\ g \in Nat
    BY InstantTimes
<1>2. dt.at \in Int /\ new.at \in Int /\ from.at \in Int /\ Forward \in Nat /\ Hour \in Nat
    BY TimeIs, Changes
<1>3. CASE \E t \in Nat : d <= t /\ t < g /\ Matches(part, FromTimestamp(t).at)
  <2>1. PICK t \in Nat : d <= t /\ t < g /\ Matches(part, FromTimestamp(t).at)
      BY <1>3
  <2>2. Across(dt, t, g) /\ new = FromTimestamp(g)
      BY <2>1
  <2>3. /\ dt.at < Forward + Hour /\ Forward + Hour <= new.at
        /\ g % Day = 0 /\ Forward + 2 * Hour <= g /\ g <= Back
      BY <2>2 DEF Across
  <2>4. Passed(part, f, d) = {} /\ from.at < Forward + Hour
      BY <2>3, <1>2 DEF Clean
  <2>5. ASSUME NEW u \in Passed(part, f, g) PROVE g - Hour <= u /\ u < g
    <3>1. u \in Nat /\ f <= u /\ u < g /\ Matches(part, FromTimestamp(u).at)
        BY <1>1, PassedIs
    <3>2. d <= u
      <4>1. ~ (u < d)
          BY <1>1, <2>4, <3>1, PassedIs
      <4> HIDE DEF d
      <4> QED BY <4>1, <3>1, <1>1
    <3>3. Across(dt, u, g)
        BY <3>1, <3>2
    <3> QED BY <3>3 DEF Across
  <2> HIDE DEF f, d, g
  <2>6. \E h \in Nat : \A u \in Passed(part, f, g) :
            /\ from.at < Forward + Hour
            /\ h % Day = 0 /\ Forward + 2 * Hour <= h /\ h <= Back
            /\ h - Hour <= u /\ u < h
      BY <2>3, <2>4, <2>5, <1>1
  <2> QED BY <2>3, <2>4, <2>6 DEF Clean, MissedOnly, f, g
<1>4. CASE ~ \E t \in Nat : d <= t /\ t < g /\ Matches(part, FromTimestamp(t).at)
  <2>1. Passed(part, f, g) \subseteq Passed(part, f, d)
    <3> SUFFICES ASSUME NEW u \in Passed(part, f, g) PROVE u \in Passed(part, f, d)
        OBVIOUS
    <3>1. u \in Nat /\ f <= u /\ u < g /\ Matches(part, FromTimestamp(u).at)
        BY <1>1, PassedIs
    <3>2. ~ (d <= u)
        BY <1>4, <3>1
    <3>3. u < d
      <4> HIDE DEF d
      <4> QED BY <3>1, <3>2, <1>1
    <3> QED BY <3>1, <3>3, <1>1, PassedIs
  <2>2. MissedOnly(part, from, g)
      BY <2>1 DEF Clean, MissedOnly
  <2>3. Passed(part, f, g) # {} => Forward + Hour <= new.at
      BY <2>1 DEF Clean
  <2>4. new.at < Forward + Hour => from.at < Forward + Hour
      BY <1>2 DEF Clean
  <2> QED BY <2>2, <2>3, <2>4 DEF Clean
<1> QED BY <1>3, <1>4

\* A turn that gives up at the field n.
LEMMA StuckTurn ==
    ASSUME OnTheHour, NEW part, CronPart(part), NEW dt \in Times, NEW n \in 1..7, NEW m,
           Stuck(part, n, m, dt.at), NEW from \in Times, Clean(part, from, dt),
           \A k \in 1..(n - 1) : FieldFits(part, k, dt.at)
    PROVE  LET i == Carry(m, dt.at)
               new == Incremented(dt, m)
           IN  /\ i = 0 /\ Back + Hour < End => MissedOnly(part, from, End)
               /\ i # 0 => /\ Clean(part, from, new)
                           /\ \A k \in 1..(i - 1) : FieldFits(part, k, new.at)
<1> DEFINE i == Carry(m, dt.at)
           new == Incremented(dt, m)
<1>1. dt.at \in Wall /\ m \in 0..7
    BY TimeIs DEF Stuck
<1>2. new \in Times
    BY <1>1, IncrementIs
<1>3. ASSUME i = 0, Back + Hour < End PROVE MissedOnly(part, from, End)
  <2>1. Instant(from) \in Nat /\ Instant(dt) \in Nat /\ End \in Nat
      BY InstantTimes, Changes
  <2>2. Passed(part, Instant(from), End) \subseteq Passed(part, Instant(from), Instant(dt))
    <3> SUFFICES ASSUME NEW u \in Passed(part, Instant(from), End)
                 PROVE  u \in Passed(part, Instant(from), Instant(dt))
        OBVIOUS
    <3>1. u \in Nat /\ Instant(from) <= u /\ u < End /\ Matches(part, FromTimestamp(u).at)
        BY <2>1, PassedIs
    <3>2. ASSUME Instant(dt) <= u PROVE FALSE
        BY <1>3, <3>1, <3>2, EndMisses
    <3>3. u < Instant(dt)
        BY <2>1, <3>1, <3>2
    <3> QED BY <2>1, <3>1, <3>3, PassedIs
  <2> QED BY <2>2 DEF Clean, MissedOnly
<1>4. ASSUME i # 0
      PROVE  Clean(part, from, new) /\ \A k \in 1..(i - 1) : FieldFits(part, k, new.at)
  <2>1. /\ new.at \in Wall /\ Agree(i, dt.at, new.at)
        /\ new = FromTimestamp(Instant(new))
        /\ Forward + Hour <= dt.at => Forward + Hour <= new.at
      BY <1>4, IncrementKeeps
  <2>2. i \in 1..6 /\ i < n
      BY <1>1, <1>4, GrowthIs
  <2>3. \A t \in Nat : Instant(dt) <= t /\ t < Instant(new) /\ Matches(part, FromTimestamp(t).at) =>
            Across(dt, t, Instant(new))
      BY <1>4, IncrementMisses
  <2> HIDE DEF new, i
  <2>4. Clean(part, from, new)
      BY <1>2, <2>1, <2>3, CleanStep
  <2>5. ASSUME NEW k \in 1..(i - 1) PROVE FieldFits(part, k, new.at)
    <3>1. k \in 1..(n - 1) /\ k \in 1..7 /\ \A j \in 1..((k + 1) - 1) : j \in 1..(i - 1)
        BY <2>2
    <3>2. Agree(k + 1, dt.at, new.at)
        BY <2>1, <3>1 DEF Agree
    <3> QED BY <3>1, <3>2, <2>1, <1>1, FitsAgree
  <2> QED BY <2>4, <2>5
<1> QED BY <1>3, <1>4

\* A turn that sets the field n.
LEMMA SetTurn ==
    ASSUME OnTheHour, NEW part, CronPart(part), NEW dt \in Times, NEW n \in 1..7, NEW v,
           Set(part, n, v, dt.at), NEW from \in Times, Clean(part, from, dt),
           \A k \in 1..(n - 1) : FieldFits(part, k, dt.at)
    PROVE  LET new == Local(Reading(dt.at, n, v), dt.fold)
           IN  /\ Clean(part, from, new)
               /\ \A k \in 1..n : FieldFits(part, k, new.at)
<1> DEFINE r == Reading(dt.at, n, v)
           new == Local(r, dt.fold)
<1>1. dt.at \in Wall /\ dt.at \in Int /\ dt.fold \in {0, 1} /\ (dt.fold = 1 => Back <= dt.at)
    BY TimeIs
<1>2. r \in Wall /\ dt.at < r /\ Agree(n, dt.at, r) /\ FieldFits(part, n, r)
    BY <1>1, SetKeeps
<1>3. ASSUME NEW t \in Nat, Instant(dt) <= t, t < Timestamp(r, dt.fold),
             Matches(part, FromTimestamp(t).at)
      PROVE  FALSE
    BY <1>3, SetMisses
<1> HIDE DEF r
<1>4. r \in Int /\ Back \in Int /\ Forward \in Int /\ Hour \in Int
    BY <1>2, Changes DEF Wall
<1>5. new \in Times
  <2>1. dt.fold = 1 => Back <= r
      BY <1>1, <1>2, <1>4
  <2> QED BY <1>1, <1>2, <2>1, TimesAre
<1>6. new.at = r /\ Instant(new) = Timestamp(r, dt.fold)
    BY LocalIs
<1> HIDE DEF new
<1>7. Forward + Hour <= dt.at => Forward + Hour <= new.at
    BY <1>1, <1>2, <1>4, <1>6
<1>8. \A t \in Nat : Instant(dt) <= t /\ t < Instant(new) /\ Matches(part, FromTimestamp(t).at) => FALSE
    BY <1>3, <1>6
<1>9. Clean(part, from, new)
    BY <1>5, <1>7, <1>8, CleanStep
<1>10. ASSUME NEW k \in 1..n PROVE FieldFits(part, k, new.at)
  <2>1. CASE k = n
      BY <2>1, <1>2, <1>6
  <2>2. CASE k # n
    <3>1. k \in 1..(n - 1) /\ k \in 1..7 /\ \A j \in 1..((k + 1) - 1) : j \in 1..(n - 1)
        BY <2>2
    <3>2. Agree(k + 1, dt.at, r)
        BY <1>2, <3>1 DEF Agree
    <3>3. FieldFits(part, k, r)
        BY <3>1, <3>2, <1>1, <1>2, FitsAgree
    <3> QED BY <3>3, <1>6
  <2> QED BY <2>1, <2>2
<1> QED BY <1>9, <1>10 DEF new, r

\* In the hour before such a midnight the clocks show a day's first hour.
LEMMA MissedShown ==
    ASSUME NEW g \in Nat, g % Day = 0, Forward + 2 * Hour <= g, g <= Back,
           NEW t \in Nat, g - Hour <= t, t < g
    PROVE  OverForward(t)
<1>1. /\ Hour \in Nat \ {0} /\ Day \in Nat \ {0} /\ Forward \in Nat /\ Back \in Nat /\ End \in Nat
      /\ Back + Hour <= End /\ HoursPerDay \in Nat \ {0} /\ Day = HoursPerDay * Hour
    BY Changes, UnitsAre
<1>2. Forward < t /\ t < Back /\ t < End
    BY <1>1
<1>3. FromTimestamp(t).at = t + Hour
    BY <1>1, <1>2, ShownAt
<1>4. (t + Hour) % Day = t + Hour - g
  <2> DEFINE q == g \div Day  s == t + Hour - g
  <2>1. q \in Int /\ g = (Day * q) + (g % Day)
    <3>1. g \in Int
        OBVIOUS
    <3>2. Day \in Nat \ {0}
        BY <1>1
    <3> QED BY ONLY <3>1, <3>2, DivMod DEF q
  <2>2. Hour <= Day
    <3>1. HoursPerDay >= 1 /\ HoursPerDay \in Int /\ 1 \in Int /\ 0 \in Int
        BY <1>1
    <3>2. Hour * 0 + Hour <= Hour * HoursPerDay
        BY <3>1, <1>1, MulMono
    <3> QED BY <3>2, <1>1, UnitsAre
  <2>3. s \in 0..(Day - 1)
      BY <2>2, <1>1
  <2> HIDE DEF q
  <2>4. Day * q = g /\ t + Hour = g + s
      BY <2>1, <1>1
  <2> HIDE DEF s
  <2>5. ((Day * q) + s) % Day = s
      BY <2>1, <2>3, <1>1, DivUnique
  <2> QED BY <2>4, <2>5 DEF s
<1> QED BY <1>1, <1>2, <1>3, <1>4 DEF OverForward

LEMMA PassedOver ==
    ASSUME NEW part, NEW from \in Nat, NEW to \in Nat, NEW g \in Nat,
           \A t \in Passed(part, from, to) :
               /\ g % Day = 0 /\ Forward + 2 * Hour <= g /\ g <= Back
               /\ g - Hour <= t /\ t < g
    PROVE  \A t \in Passed(part, from, to) :
               /\ OverForward(t)
               /\ \A u \in Passed(part, from, to) : t - u < Hour
<1> SUFFICES ASSUME NEW t \in Passed(part, from, to), NEW u \in Passed(part, from, to)
             PROVE  OverForward(t) /\ t - u < Hour
    OBVIOUS
<1>1. t \in Nat /\ u \in Nat
    BY PassedIs
<1>2. /\ g % Day = 0 /\ Forward + 2 * Hour <= g /\ g <= Back
      /\ g - Hour <= t /\ t < g /\ g - Hour <= u /\ u < g
    OBVIOUS
<1>3. t - u < Hour
    BY <1>1, <1>2, Changes
<1> QED BY <1>1, <1>2, <1>3, MissedShown

\* A search has passed over nothing that matches, and the fields before the one it
\* is at fit.
SearchInv(part) ==
    /\ start \in Times
    /\ fieldnum = 0 /\ Back + Hour < End => MissedOnly(part, start, End)
    /\ fieldnum # 0 => /\ Clean(part, start, next)
                       /\ \A k \in 1..(fieldnum - 1) : FieldFits(part, k, next.at)
    /\ fieldnum = 8 => ~ PastEnd(part, next)

\* dt is what the search that began at start was to find.
EarliestIs(part, dt) ==
    start \in Times /\ Matches(part, dt.at) /\ MissedOnly(part, start, Instant(dt))

\* The triggers that CronEarliest is about: a cron trigger alone, without jitter.
Exact == SingleCron /\ trig.parts[1].jitter = 0

\* Any part that is searched, by whatever trigger; the answer only of one that is
\* exact.
CronInv ==
    /\ pc = "cron" => SearchInv(Part)
    /\ Exact => /\ \A i \in DOMAIN answers : answers[i] # None => EarliestIs(trig.parts[1], answers[i])
                /\ pc = "found" => EarliestIs(trig.parts[1], next)

LEMMA TurnSearch ==
    ASSUME OnTheHour, TypeInv, pc = "cron", fieldnum \in 1..7, SearchInv(Part)
    PROVE  LET new == Turn(Part)[1]
               k == Turn(Part)[2]
           IN  /\ k = 0 /\ Back + Hour < End => MissedOnly(Part, start, End)
               /\ k # 0 => /\ Clean(Part, start, new)
                           /\ \A j \in 1..(k - 1) : FieldFits(Part, j, new.at)
<1> DEFINE n == fieldnum
           name == FieldNames[n]
           c == Value(name, next.at)
           v == NextValue(Part.fields[n], name, next.at)
<1>1. CronPart(Part) /\ next \in Times
    BY PartIs DEF TypeInv
<1>2. next.at \in Wall
    BY <1>1, TimeIs
<1>3. /\ start \in Times /\ Clean(Part, start, next)
      /\ \A k \in 1..(n - 1) : FieldFits(Part, k, next.at)
    BY DEF SearchInv
<1>4. /\ c # NoValue
      /\ v # NoValue => \E e \in Part.fields[n] : v \in Meant(e, name, next.at)
    BY <1>1, <1>2, WantedNext
<1>5. CASE v = NoValue
  <2>1. Turn(Part) = <<Incremented(next, n - 1), Carry(n - 1, next.at)>>
      BY <1>4, <1>5 DEF Turn
  <2>2. Stuck(Part, n, n - 1, next.at)
      BY <1>5 DEF Stuck
  <2> HIDE DEF n
  <2>3. n \in 1..7
      BY DEF n
  <2> QED BY <2>1, <2>2, <2>3, <1>1, <1>3, StuckTurn
<1>6. CASE v # NoValue /\ v = c
  <2>1. Turn(Part) = <<next, n + 1>>
      BY <1>6 DEF Turn
  <2>2. FieldFits(Part, n, next.at)
      BY <1>4, <1>6 DEF FieldFits
  <2> HIDE DEF n
  <2>3. n \in 1..7 /\ n + 1 # 0
      BY DEF n
  <2>4. ASSUME NEW j \in 1..((n + 1) - 1) PROVE FieldFits(Part, j, next.at)
    <3>1. j = n \/ j \in 1..(n - 1)
        BY <2>3
    <3> QED BY <3>1, <2>2, <1>3
  <2> QED BY <2>1, <2>3, <2>4, <1>3
<1>7. CASE v # NoValue /\ v # c /\ ~ Real(name)
  <2>1. Turn(Part) = <<Incremented(next, n), Carry(n, next.at)>>
      BY <1>7 DEF Turn
  <2>2. Stuck(Part, n, n, next.at)
    <3>1. n \notin RealFields
        BY <1>7, Names
    <3>2. n \in {4, 5}
        BY <3>1 DEF RealFields
    <3> QED BY <3>2, <1>7 DEF Stuck
  <2> HIDE DEF n
  <2>3. n \in 1..7
      BY DEF n
  <2> QED BY <2>1, <2>2, <2>3, <1>1, <1>3, StuckTurn
<1>8. CASE v # NoValue /\ v # c /\ Real(name)
  <2> DEFINE new == Local(Reading(next.at, n, v), next.fold)
  <2>1. Turn(Part) = <<new, n + 1>>
      BY <1>8 DEF Turn
  <2>2. Set(Part, n, v, next.at)
    <3>1. n \in RealFields
        BY <1>8, Names
    <3> QED BY <3>1, <1>8 DEF Set
  <2>3. Clean(Part, start, new) /\ \A k \in 1..n : FieldFits(Part, k, new.at)
      BY <2>2, <1>1, <1>3, SetTurn
  <2> HIDE DEF n, new
  <2>4. n \in 1..7 /\ n + 1 # 0 /\ (n + 1) - 1 = n
      BY DEF n
  <2> QED BY <2>1, <2>3, <2>4
<1> QED BY <1>5, <1>6, <1>7, <1>8

\* A single cron part is the one that is asked.
LEMMA SingleIs ==
    ASSUME TypeInv, SingleCron, Len(answers) < Len(trig.parts)
    PROVE  answers = <<>> /\ Part = trig.parts[1] /\ CronPart(Part)
<1>1. trig \in Triggers /\ answers \in Seq(Times \cup {None})
    BY DEF TypeInv
<1>2. Len(trig.parts) = 1
    BY <1>1, PartsAre DEF SingleCron
<1>3. answers = <<>> /\ Len(answers) = 0
    BY <1>1, <1>2
<1>4. Part = trig.parts[1]
    BY <1>3 DEF Part
<1> QED BY <1>3, <1>4, PartIs DEF SingleCron

LEMMA CronAsk ==
    ASSUME TypeInv, CronInv, Ask
    PROVE  CronInv'
<1>1. /\ Len(answers) < Len(trig.parts)
      /\ UNCHANGED <<trig, answers>>
    BY DEF Ask
<1>2. Part' = Part
    BY <1>1 DEF Part
<1>3. Exact' => answers' = <<>>
    BY <1>1, SingleIs DEF Exact, SingleCron
<1>4. pc' # "found" /\ (pc' = "cron" => AskCron)
    BY DEF Ask, AskCron, AskCalendar
<1>5. ASSUME pc' = "cron" PROVE SearchInv(Part)'
  <2>1. AskCron
      BY <1>4, <1>5
  <2>2. Start(Part) \in Moving
      BY <2>1, <1>1, PartIs, StartIs DEF AskCron
  <2>3. start' = AsLocal(Ceil(Start(Part))) /\ next' = start' /\ fieldnum' = 1 /\ ~ Overflows(start')
      BY <2>1, <1>5 DEF AskCron
  <2>4. start' \in Times
      BY <2>2, <2>3, BeginIs
  <2>5. Clean(Part, start', next')
      BY <2>3, <2>4, CleanBegin
  <2>6. Clean(Part, start, next)'
      BY <2>5, <1>2 DEF Clean, MissedOnly
  <2> QED BY <2>3, <2>4, <2>6 DEF SearchInv
<1> QED BY <1>3, <1>4, <1>5 DEF CronInv

\* A step to another answer.
LEMMA CronAnswer ==
    ASSUME TypeInv, CronInv, NEW dt, Answer(dt), UNCHANGED <<trig, start>>,
           Exact /\ dt # None => EarliestIs(trig.parts[1], dt)
    PROVE  CronInv'
<1>1. answers' = Append(answers, dt) /\ pc' = "ask" /\ UNCHANGED <<trig, start>>
    BY DEF Answer
<1>2. \A i \in DOMAIN answers' : answers'[i] = dt \/ (i \in DOMAIN answers /\ answers'[i] = answers[i])
  <2>1. answers \in Seq(Times \cup {None})
      BY DEF TypeInv
  <2> QED BY <2>1, <1>1
<1>3. Exact' <=> Exact
    BY <1>1 DEF Exact, SingleCron
<1>4. ASSUME Exact
      PROVE  \A i \in DOMAIN answers' : answers'[i] # None => EarliestIs(trig.parts[1], answers'[i])
    BY <1>2, <1>4 DEF CronInv
<1>5. ASSUME Exact
      PROVE  \A i \in DOMAIN answers' : answers'[i] # None => EarliestIs(trig.parts[1], answers[i])'
    BY <1>1, <1>4, <1>5 DEF EarliestIs, MissedOnly
<1> QED BY <1>1, <1>3, <1>5 DEF CronInv

LEMMA CronCronTurn ==
    ASSUME OnTheHour, TypeInv, CronInv, CronTurn
    PROVE  CronInv'
<1>1. /\ pc = "cron" /\ fieldnum \in 1..7 /\ next' = Turn(Part)[1] /\ fieldnum' = Turn(Part)[2]
      /\ UNCHANGED <<trig, start>>
    BY Names DEF CronTurn
<1>2. CASE PastEnd(Part, next')
  <2>1. Answer(None)
      BY <1>2 DEF CronTurn
  <2> QED BY <2>1, <1>1, CronAnswer
<1>3. CASE ~ PastEnd(Part, next')
  <2>1. UNCHANGED <<answers, pc>>
      BY <1>3 DEF CronTurn
  <2>2. Part' = Part
      BY <2>1, <1>1 DEF Part
  <2>3. start \in Times
      BY <1>1 DEF CronInv, SearchInv
  <2>4. /\ fieldnum' = 0 /\ Back + Hour < End => MissedOnly(Part, start, End)
        /\ fieldnum' # 0 => /\ Clean(Part, start, next')
                            /\ \A j \in 1..(fieldnum' - 1) : FieldFits(Part, j, next'.at)
      BY <1>1, TurnSearch DEF CronInv
  <2>5. /\ fieldnum' = 0 /\ Back + Hour < End => MissedOnly(Part, start, End)'
        /\ fieldnum' # 0 => /\ Clean(Part, start, next)'
                            /\ \A j \in 1..(fieldnum' - 1) : FieldFits(Part, j, next.at)'
      BY <2>2, <2>4, <1>1 DEF Clean, MissedOnly, FieldFits
  <2>6. SearchInv(Part)'
      BY <2>2, <2>3, <2>5, <1>1, <1>3 DEF SearchInv, PastEnd
  <2>7. (Exact' <=> Exact) /\ pc' # "found"
      BY <2>1, <1>1 DEF Exact, SingleCron
  <2>8. ASSUME Exact
        PROVE  \A i \in DOMAIN answers' : answers'[i] # None => EarliestIs(trig.parts[1], answers[i])'
      BY <2>1, <2>8, <1>1 DEF EarliestIs, MissedOnly, CronInv
  <2> QED BY <2>6, <2>7, <2>8 DEF CronInv
<1> QED BY <1>2, <1>3

LEMMA CronCronAnswers ==
    ASSUME TypeInv, CronInv, CronAnswers
    PROVE  CronInv'
<1>1. /\ pc = "cron" /\ fieldnum \notin 1..7
      /\ UNCHANGED <<trig, start>>
    BY Names DEF CronAnswers, search
<1>2. /\ Len(answers) < Len(trig.parts) /\ CronPart(Part)
      /\ next \in Times /\ fieldnum \in 0..8
    BY <1>1, PartIs DEF TypeInv
<1>3. CASE fieldnum = 0
  <2>1. Answer(None)
      BY <1>3 DEF CronAnswers
  <2> QED BY <2>1, <1>1, CronAnswer
<1>4. CASE fieldnum # 0
  <2>1. PICK d \in 0..Part.jitter :
            LET dt == Jittered(Part, next, d)
            IN  IF Overflows(dt)
                THEN pc' = "raised" /\ UNCHANGED answers
                ELSE Answer(IF Part.end = None THEN dt ELSE Earliest(dt, Part.end))
      BY <1>4 DEF CronAnswers
  <2>2. CASE Overflows(Jittered(Part, next, d))
    <3>1. pc' = "raised" /\ UNCHANGED answers
        BY <2>1, <2>2
    <3>2. (Exact' <=> Exact)
        BY <1>1 DEF Exact, SingleCron
    <3>3. ASSUME Exact
          PROVE  \A i \in DOMAIN answers' : answers'[i] # None => EarliestIs(trig.parts[1], answers[i])'
        BY <3>1, <3>3, <1>1 DEF EarliestIs, MissedOnly, CronInv
    <3> QED BY <3>1, <3>2, <3>3 DEF CronInv
  <2>3. CASE ~ Overflows(Jittered(Part, next, d))
    <3> DEFINE j == Jittered(Part, next, d)
               a == IF Part.end = None THEN j ELSE Earliest(j, Part.end)
    <3>1. Answer(a)
        BY <2>1, <2>3
    <3>2. ASSUME Exact PROVE EarliestIs(trig.parts[1], a)
      <4>1. Part = trig.parts[1] /\ Part.jitter = 0
          BY <3>2, <1>2, SingleIs DEF Exact
      <4>2. fieldnum = 8
          BY <1>1, <1>2, <1>4
      <4>3. SearchInv(Part)
          BY <1>1 DEF CronInv
      <4>4. a = next
          BY <4>1, <4>2, <4>3 DEF SearchInv, PastEnd, Earliest, Jittered
      <4>5. start \in Times /\ Matches(Part, next.at) /\ MissedOnly(Part, start, Instant(next))
          BY <4>2, <4>3, MatchesIs DEF SearchInv, Clean
      <4> QED BY <4>1, <4>4, <4>5 DEF EarliestIs
    <3> HIDE DEF a
    <3> QED BY <3>1, <3>2, <1>1, CronAnswer
  <2> QED BY <2>2, <2>3
<1> QED BY <1>3, <1>4

\* The steps of a calendar interval's search are none of a single cron trigger's.
LEMMA CronCalendar ==
    ASSUME TypeInv, CronInv, AddMonths \/ CalendarTurn
    PROVE  CronInv'
<1>1. /\ pc \in {"months", "calendar"} /\ UNCHANGED <<trig, start>> /\ Len(answers) < Len(trig.parts)
      /\ Part.kind = "calendar"
      /\ pc' \notin {"cron", "found"}
    BY DEF AddMonths, CalendarTurn, Answer, TypeInv
<1>2. ~ SingleCron
  <2>1. ASSUME SingleCron PROVE FALSE
      BY <2>1, <1>1, SingleIs, CronPartIs
  <2> QED BY <2>1
<1> QED BY <1>1, <1>2 DEF CronInv, SingleCron, Exact

LEMMA CronFound ==
    ASSUME TypeInv, CronInv, Found
    PROVE  CronInv'
<1>1. pc' = "found" /\ UNCHANGED <<trig, answers, start>>
    BY DEF Found
<1>2. next' \in Answered \ {None}
    BY TypeFound
<1>3. Exact' <=> Exact
    BY <1>1 DEF Exact, SingleCron
<1>4. Exact => EarliestIs(trig.parts[1], next')
    BY <1>2 DEF CronInv, Answered
<1>5. Exact => \A i \in DOMAIN answers : answers[i] # None => EarliestIs(trig.parts[1], answers[i])
    BY DEF CronInv
<1> QED BY <1>1, <1>3, <1>4, <1>5 DEF CronInv, EarliestIs, MissedOnly

LEMMA CronStep ==
    ASSUME OnTheHour, TypeInv, CronInv, [Next]_vars
    PROVE  CronInv'
<1>1. CASE Over
  <2>1. pc' = "end" /\ UNCHANGED <<trig, answers, start>>
      BY <1>1 DEF Over, search
  <2> QED BY <2>1 DEF CronInv, Exact, SingleCron, EarliestIs, MissedOnly
<1>2. CASE AskAgain
  <2>1. pc' = "ask" /\ answers' = <<>>
      BY <1>2 DEF AskAgain
  <2> QED BY <2>1 DEF CronInv
<1>3. CASE Fire
  <2>1. pc' = "ask" /\ answers' = <<>>
      BY <1>3 DEF Fire
  <2> QED BY <2>1 DEF CronInv
<1>4. CASE UNCHANGED vars
  <2>1. UNCHANGED <<trig, answers, start, pc, next, fieldnum>>
      BY <1>4 DEF vars, search
  <2> QED BY <2>1 DEF CronInv, Exact, SingleCron, EarliestIs, MissedOnly, SearchInv, Part, Clean,
                      FieldFits, PastEnd
<1> QED BY <1>1, <1>2, <1>3, <1>4, CronAsk, CronCronTurn, CronCronAnswers, CronCalendar,
           CronFound DEF Next, Turns

\* CronTrigger answers the earliest time that matches its fields, for every set of
\* expressions in any calendar whose clocks change on the hour: what a search from
\* before the change forward passes over lies in one hour before a midnight.
THEOREM CronEarliestHolds ==
    ASSUME OnTheHour
    PROVE  Spec => []CronEarliest
<1>1. Init => TypeInv /\ CronInv
    BY TypeInit DEF Init, CronInv
<1>2. TypeInv /\ CronInv /\ [Next]_vars => TypeInv' /\ CronInv'
    BY TypeStep, CronStep
<1>3. TypeInv /\ CronInv => CronEarliest
  <2> SUFFICES ASSUME TypeInv, CronInv, pc = "found", Exact
               PROVE  LET part == trig.parts[1]
                          passed == Passed(part, Instant(start), Instant(next))
                      IN  /\ Matches(part, next.at)
                          /\ \A t \in passed : /\ start.at < Forward + Hour
                                               /\ OverForward(t)
                                               /\ \A u \in passed : t - u < Hour
      BY DEF CronEarliest, Exact
  <2> DEFINE part == trig.parts[1]
             passed == Passed(part, Instant(start), Instant(next))
  <2>1. Matches(part, next.at) /\ MissedOnly(part, start, Instant(next))
      BY DEF CronInv, EarliestIs
  <2>2. PICK g \in Nat : \A t \in passed :
            /\ start.at < Forward + Hour
            /\ g % Day = 0 /\ Forward + 2 * Hour <= g /\ g <= Back
            /\ g - Hour <= t /\ t < g
      BY <2>1 DEF MissedOnly
  <2> HIDE DEF part
  <2>3. Instant(start) \in Nat /\ Instant(next) \in Nat
      BY InstantTimes DEF CronInv, EarliestIs, TypeInv
  <2>4. \A t \in passed : OverForward(t) /\ \A u \in passed : t - u < Hour
      BY <2>2, <2>3, PassedOver
  <2> QED BY <2>1, <2>2, <2>4 DEF part
<1> QED BY <1>1, <1>2, <1>3, PTL DEF Spec

-----------------------------------------------------------------------------
(* A search ends only when nothing is left.                                 *)

\* Where a search begins: at the fire time, or the clock before the first one.
Begin == IF prev = None THEN clock ELSE Instant(prev)

\* The second occurrence of an hour whose last minute has fired.
LastBefore(t) == prev = Local(Back + Hour - 1, 0) /\ FromTimestamp(t).fold = 1

AfterBegin(part, t) ==
    /\ GreatestOf({clock, Instant(prev)}) < t
    /\ prev = None /\ part.start # None => Instant(part.start) <= t

\* A search begins no later than it has to.
Covers(part, from) ==
    /\ \A t \in Wall : AfterBegin(part, t) => Instant(from) <= t \/ LastBefore(t)
    /\ from.at < Forward + Hour => Begin < Forward + Hour

\* No later instant up to the part's end matches it, but for those passed over.
NothingLeft(part) ==
    \A t \in Wall :
        /\ AfterBegin(part, t)
        /\ Matches(part, FromTimestamp(t).at)
        /\ part.end # None => t <= Instant(part.end) /\ ~ Before(part.end, FromTimestamp(t))
        => \/ Begin < Forward + Hour /\ OverForward(t)
           \/ LastBefore(t)

\* Each search begins before all that is left, each part that answered None has
\* nothing left, and a trigger that is over has no cron part with anything left.
OverInv ==
    trig.mode # "and" =>
        /\ prev = None => now = [Other(clock) EXCEPT !.past = 2]
        /\ prev # None => Before(JustAfter(prev), now)
        /\ pc = "cron" => Covers(Part, start)
        /\ \A i \in DOMAIN answers :
               answers[i] = None /\ trig.parts[i].kind = "cron" => NothingLeft(trig.parts[i])
        /\ pc = "end" => \A i \in DOMAIN trig.parts :
                             trig.parts[i].kind = "cron" => NothingLeft(trig.parts[i])

LEMMA AfterIs ==
    ASSUME TypeInv, NEW part, NEW t \in Nat
    PROVE  /\ clock \in Nat /\ Instant(prev) \in Nat
           /\ AfterBegin(part, t) <=>
                  /\ clock < t /\ Instant(prev) < t
                  /\ prev = None /\ part.start # None => Instant(part.start) <= t
<1>1. clock \in Nat
    BY Changes DEF TypeInv, Wall
<1>2. Instant(prev) \in Nat
  <2>1. CASE prev = None
      BY <2>1 DEF None, Instant
  <2>2. CASE prev # None
    <3>1. /\ prev.zone \in {"local", "other"} /\ prev.at \in Wall /\ prev.at \in Nat
          /\ prev.fold \in {0, 1} /\ (prev.fold = 1 => Back <= prev.at)
        BY <2>2, Changes DEF TypeInv, Readings, Wall
    <3> QED BY <3>1, InstantIs DEF Instant
  <2> QED BY <2>1, <2>2
<1> DEFINE p == Instant(prev)
<1>3. GreatestOf({clock, p}) = IF clock <= p THEN p ELSE clock
  <2> HIDE DEF p
  <2>1. clock \in Int /\ p \in Int
      BY <1>1, <1>2 DEF p
  <2> QED BY <2>1, PairBounds
<1>4. GreatestOf({clock, p}) < t <=> clock < t /\ p < t
  <2> HIDE DEF p
  <2> QED BY <1>1, <1>2, <1>3 DEF p
<1> QED BY <1>1, <1>2, <1>4 DEF AfterBegin

\* The first unit after a reading.
LEMMA UnitAfter ==
    ASSUME NEW p \in Wall, NEW f \in {0, 1}, f = 1 => Back <= p, NEW t \in Nat,
           Timestamp(p, f) < t
    PROVE  Timestamp(p + 1, 0) <= t \/ (f = 0 /\ p = Back + Hour - 1 /\ FromTimestamp(t).fold = 1)
<1>1. p \in Nat /\ Hour \in Nat \ {0} /\ Forward \in Nat /\ Back \in Nat /\ Forward + 2 * Hour <= Back
    BY Changes DEF Wall
<1>2. CASE p + 1 < Forward + Hour
  <2>1. Timestamp(p + 1, 0) = p + 1 /\ Timestamp(p, f) = p
      BY <1>1, <1>2 DEF Timestamp, InSummer
  <2> QED BY <2>1, <1>1
<1>3. CASE Forward + Hour <= p + 1 /\ p + 1 < Back + Hour
  <2>1. Timestamp(p + 1, 0) = p + 1 - Hour /\ p - Hour <= Timestamp(p, f)
      BY <1>1, <1>3 DEF Timestamp, InSummer
  <2>2. Timestamp(p, f) \in Int
      BY <1>1 DEF Timestamp
  <2> QED BY <2>1, <2>2, <1>1
<1>4. CASE Back + Hour <= p + 1
  <2>1. Timestamp(p + 1, 0) = p + 1
      BY <1>1, <1>4 DEF Timestamp, InSummer
  <2>2. CASE f = 1 \/ Back + Hour <= p
    <3>1. Timestamp(p, f) = p
        BY <2>2, <1>1, <1>4 DEF Timestamp, InSummer
    <3> QED BY <2>1, <3>1, <1>1
  <2>3. CASE f = 0 /\ p = Back + Hour - 1
    <3>1. Timestamp(p, f) = Back - 1
        BY <2>3, <1>1 DEF Timestamp, InSummer
    <3>2. Back <= t
        BY <3>1, <1>1
    <3>3. CASE t < Back + Hour
      <4>1. FromTimestamp(t) = Local(t, 1)
          BY <3>2, <3>3, <1>1 DEF FromTimestamp
      <4> QED BY <4>1, <2>3, LocalIs
    <3>4. CASE Back + Hour <= t
        BY <3>4, <2>1, <2>3, <1>1
    <3> QED BY <3>3, <3>4, <1>1
  <2> QED BY <2>2, <2>3, <1>1, <1>4
<1> QED BY <1>2, <1>3, <1>4, <1>1

\* From the start date, or from the clock, before a job has fired.
LEMMA CoversFirst ==
    ASSUME TypeInv, OverInv, trig.mode # "and", prev = None,
           NEW part, CronPart(part),
           ~ Overflows(AsLocal(Ceil(Start(part))))
    PROVE  Covers(part, AsLocal(Ceil(Start(part))))
<1> DEFINE from == AsLocal(Ceil(Start(part)))
<1>1. /\ clock \in Nat /\ clock \in Wall /\ clock < End
      /\ Hour \in Nat \ {0} /\ Forward \in Nat /\ Back \in Nat /\ End \in Nat
      /\ Forward + 2 * Hour <= Back /\ Back + Hour <= End
    BY Changes DEF TypeInv, Wall
<1>2. Begin = clock
    BY DEF Begin
<1>3. now = [zone |-> "other", at |-> clock, fold |-> 0, past |-> 2]
    BY DEF OverInv, Other
<1>4. Start(part) = IF part.start = None THEN now ELSE Latest(now, part.start)
    BY DEF Start
<1>5. ASSUME Start(part) = now PROVE Covers(part, from)
  <2>1. now \in Moving
      BY MovingIs DEF TypeInv
  <2>2. from = FromTimestamp(clock + 1) /\ clock + 1 \in Nat /\ clock + 1 <= End
    <3>1. now.past = 2 /\ now.zone = "other" /\ now.at = clock
        BY <1>3
    <3>2. LET at == IF now.past > 0 THEN now.at + 1 ELSE now.at
          IN  at \in Nat /\ at <= End /\ (now.zone = "other" => AsLocal(Ceil(now)) = FromTimestamp(at))
        BY <2>1, BeginIs
    <3> QED BY <3>1, <3>2, <1>5
  <2>3. clock + 1 < End
    <3>1. ASSUME clock + 1 = End PROVE FALSE
      <4>1. FromTimestamp(End) = Local(End, 0)
          BY <1>1 DEF FromTimestamp
      <4>2. from.at = End
          BY <4>1, <3>1, <2>2, LocalIs
      <4> QED BY <4>2, <1>1 DEF Overflows
    <3> QED BY <3>1, <2>2, <1>1
  <2>4. Instant(from) = clock + 1
      BY <2>2, <2>3, RoundTrip
  <2>5. from.at < Forward + Hour => clock < Forward + Hour
      BY <2>2, <2>3, <1>1, ShownAt
  <2> HIDE DEF from
  <2>6. ASSUME NEW t \in Wall, AfterBegin(part, t) PROVE Instant(from) <= t
    <3>1. t \in Nat
        BY <1>1 DEF Wall
    <3>2. clock < t
        BY <3>1, <2>6, AfterIs
    <3> QED BY <3>1, <3>2, <2>4, <1>1
  <2> QED BY <2>5, <2>6, <1>2 DEF Covers
<1>6. ASSUME part.start # None, Before(now, part.start), Start(part) = part.start
      PROVE  Covers(part, from)
  <2>1. part.start \in Times /\ part.start = Local(part.start.at, 0)
      BY <1>6, CronPartIs, MomentsAre
  <2>2. from = part.start
    <3>1. part.start.past = 0 /\ part.start.zone = "local"
        BY <2>1, TimeIs
    <3> QED BY <3>1, <1>6 DEF Ceil, AsLocal
  <2> HIDE DEF from
  <2>3. ASSUME NEW t \in Wall, AfterBegin(part, t) PROVE Instant(from) <= t
    <3>1. t \in Nat
        BY <1>1 DEF Wall
    <3> QED BY <3>1, <2>2, <2>3, <1>6, AfterIs
  <2>4. ASSUME from.at < Forward + Hour PROVE clock < Forward + Hour
    <3> DEFINE w == part.start.at
    <3>1. w \in Wall /\ w \in Nat /\ Instant(part.start) = Timestamp(w, 0)
        BY <2>1, TimeIs, LocalIs, <1>1 DEF Wall
    <3>2. Instant(part.start) = w
        BY <3>1, <2>2, <2>4, InstantIs
    <3>3. clock <= Instant(part.start)
      <4>1. part.start.zone = "local" /\ now.zone = "other" /\ Instant(now) = clock
          BY <2>1, <1>3, TimeIs DEF Instant
      <4>2. Instant(part.start) \in Int
          BY <3>1, <3>2
      <4> QED BY <4>1, <4>2, <1>1, <1>6 DEF Before
    <3> QED BY <3>1, <3>2, <3>3, <2>2, <2>4, <1>1
  <2> QED BY <2>3, <2>4, <1>2 DEF Covers
<1> QED BY <1>4, <1>5, <1>6 DEF Latest

\* From the microsecond after the previous fire time.
LEMMA CoversNext ==
    ASSUME TypeInv, OverInv, trig.mode # "and", prev # None,
           NEW part, CronPart(part),
           ~ Overflows(AsLocal(Ceil(Start(part))))
    PROVE  Covers(part, AsLocal(Ceil(Start(part))))
<1> DEFINE from == AsLocal(Ceil(Start(part)))
<1>1. /\ Hour \in Nat \ {0} /\ Forward \in Nat /\ Back \in Nat /\ End \in Nat
      /\ Forward + 2 * Hour <= Back /\ Back + Hour <= End
    BY Changes
<1>2. Begin = Instant(prev)
    BY DEF Begin
<1>3. /\ prev \in Readings /\ prev.past = 0 /\ prev \in Moving
      /\ prev.zone \in {"local", "other"} /\ prev.at \in Wall /\ prev.at \in Nat
      /\ prev.fold \in {0, 1} /\ (prev.fold = 1 => prev.zone = "local" /\ Back <= prev.at)
      /\ prev = [zone |-> prev.zone, at |-> prev.at, fold |-> prev.fold, past |-> 0]
  <2>1. prev \in Readings /\ prev.past = 0
      BY DEF TypeInv
  <2>2. prev \in Moving
      BY <2>1, MovingIs
  <2>3. prev.at \in Wall /\ prev.at \in Nat
      BY <2>1, <1>1 DEF Readings, Wall
  <2> QED BY <2>1, <2>2, <2>3 DEF Readings
<1> DEFINE j == JustAfter(prev)
<1>4. j = [zone |-> prev.zone, at |-> prev.at, fold |-> 0, past |-> 1] /\ j \in Moving
    BY <1>3, JustAfterIs, MovingIs
<1>5. Before(j, now)
    BY DEF OverInv
<1> HIDE DEF j
<1>6. Start(part) = j
  <2>1. Earliest(now, j) = j
      BY <1>5 DEF Earliest
  <2>2. Before(prev, j)
      BY <1>3, <1>4 DEF Before
  <2>3. ~ Same(j, prev)
      BY <2>2 DEF Same
  <2> QED BY <2>1, <2>3, StartIs DEF j
<1>7. /\ prev.at + 1 \in Nat /\ prev.at + 1 <= End
      /\ prev.zone = "local" => from = Local(prev.at + 1, 0)
      /\ prev.zone = "other" => from = FromTimestamp(prev.at + 1)
  <2>1. j.zone = prev.zone /\ j.past = 1 /\ j.at = prev.at
      BY <1>4
  <2>2. LET at == IF j.past > 0 THEN j.at + 1 ELSE j.at
            c == AsLocal(Ceil(j))
        IN  /\ at \in Nat /\ at <= End
            /\ j.zone = "local" => c = Local(at, IF j.past > 0 THEN 0 ELSE j.fold)
            /\ j.zone = "other" => c = FromTimestamp(at)
      BY <1>4, BeginIs
  <2>3. (IF j.past > 0 THEN j.at + 1 ELSE j.at) = prev.at + 1 /\ (IF j.past > 0 THEN 0 ELSE j.fold) = 0
      BY <2>1
  <2> QED BY <2>1, <2>2, <2>3, <1>6
<1>8. CASE prev.zone = "other"
  <2>1. prev.at + 1 < End
    <3>1. ASSUME prev.at + 1 = End PROVE FALSE
      <4>1. FromTimestamp(End) = Local(End, 0)
          BY <1>1 DEF FromTimestamp
      <4>2. from.at = End
          BY <4>1, <3>1, <1>7, <1>8, LocalIs
      <4> QED BY <4>2, <1>1 DEF Overflows
    <3> QED BY <3>1, <1>7, <1>1
  <2>2. Instant(from) = prev.at + 1 /\ Instant(prev) = prev.at
      BY <2>1, <1>7, <1>8, RoundTrip DEF Instant
  <2>3. from.at < Forward + Hour => prev.at < Forward + Hour
    <3> DEFINE u == prev.at + 1
    <3>1. u \in Nat /\ u < End /\ from = FromTimestamp(u)
        BY <2>1, <1>7, <1>8
    <3> HIDE DEF u, from
    <3>2. from.at < Forward + Hour => u < Forward + Hour
        BY <3>1, <1>1, ShownAt
    <3> QED BY <3>2, <1>1, <1>3 DEF u
  <2> HIDE DEF from
  <2>4. ASSUME NEW t \in Wall, AfterBegin(part, t) PROVE Instant(from) <= t
    <3>1. t \in Nat
        BY <1>1 DEF Wall
    <3>2. Instant(prev) < t
        BY <3>1, <2>4, AfterIs
    <3> QED BY <3>1, <3>2, <2>2, <1>3
  <2>5. Covers(part, from)
      BY <2>2, <2>3, <2>4, <1>2 DEF Covers
  <2> QED BY <2>5 DEF from
<1>9. CASE prev.zone = "local"
  <2> DEFINE p == prev.at  f == prev.fold
  <2>1. prev = Local(p, f) /\ Instant(prev) = Timestamp(p, f)
      BY <1>3, <1>9 DEF Local, Instant
  <2>2. from = Local(p + 1, 0) /\ from.at = p + 1 /\ Instant(from) = Timestamp(p + 1, 0)
      BY <1>7, <1>9, LocalIs
  <2>3. ASSUME NEW t \in Wall, AfterBegin(part, t) PROVE Instant(from) <= t \/ LastBefore(t)
    <3>1. t \in Nat
        BY <1>1 DEF Wall
    <3>2. Timestamp(p, f) < t
        BY <3>1, <2>1, <2>3, AfterIs
    <3>3. p \in Wall /\ f \in {0, 1} /\ (f = 1 => Back <= p)
        BY <1>3
    <3> HIDE DEF from, p, f
    <3>4. Timestamp(p + 1, 0) <= t \/ (f = 0 /\ p = Back + Hour - 1 /\ FromTimestamp(t).fold = 1)
        BY <3>1, <3>2, <3>3, UnitAfter
    <3> QED BY <3>4, <2>1, <2>2 DEF LastBefore
  <2>4. from.at < Forward + Hour => Instant(prev) < Forward + Hour
    <3>1. p \in Nat /\ f \in {0, 1} /\ (f = 1 => Back <= p)
        BY <1>3
    <3> HIDE DEF from, p, f
    <3>2. from.at < Forward + Hour => Timestamp(p, f) = p
        BY <3>1, <2>2, <1>1 DEF Timestamp, InSummer
    <3> QED BY <3>1, <3>2, <2>1, <2>2, <1>1
  <2> HIDE DEF from
  <2>5. Covers(part, from)
      BY <2>3, <2>4, <1>2 DEF Covers
  <2> QED BY <2>5 DEF from
<1> QED BY <1>3, <1>8, <1>9

\* What a search that is past the end date has not reached is after that date.
LEMMA PastEndCovers ==
    ASSUME NEW e \in Wall, NEW new \in Times, Before(Local(e, 0), new),
           NEW t \in Wall, t <= Instant(Local(e, 0)), ~ Before(Local(e, 0), FromTimestamp(t))
    PROVE  t < Instant(new)
<1> DEFINE w == new.at  f == new.fold  x == FromTimestamp(t).at
<1>1. /\ Hour \in Nat \ {0} /\ Forward \in Nat /\ Back \in Nat /\ End \in Nat
      /\ Forward + 2 * Hour <= Back /\ Back + Hour <= End
      /\ e \in Nat /\ t \in Nat /\ t < End
    BY Changes DEF Wall
<1>2. /\ w \in Nat /\ f \in {0, 1} /\ (f = 1 => Back <= w)
      /\ Instant(new) = Timestamp(w, f)
    BY InstantTimes, TimeIs, <1>1 DEF Wall
<1>3. e < w /\ x <= e
  <2>1. Local(e, 0) \in Times /\ FromTimestamp(t) \in Times /\ Local(e, 0).at = e
      BY <1>1, TimesAre, RoundTrip, LocalIs
  <2>2. e < w
      BY <2>1, TimesOrder
  <2>3. ~ (e < x)
      BY <2>1, TimesOrder
  <2>4. x \in Int
      BY <1>1, ShownAt
  <2> HIDE DEF x, w
  <2> QED BY <2>2, <2>3, <2>4, <1>1
<1>4. Instant(Local(e, 0)) = Timestamp(e, 0)
    BY LocalIs
<1>5. t <= Timestamp(e, 0)
    BY <1>4
<1>6. /\ x \in Nat
      /\ (t < Forward \/ Back <= t) => x = t
      /\ Forward <= t /\ t < Back => x = t + Hour
    BY <1>1, ShownAt
<1> DEFINE T == Timestamp(e, 0)  i == Instant(new)
<1> HIDE DEF w, f, x
<1>11. T <= e /\ T \in Int /\ t <= T
    BY <1>1, <1>5 DEF Timestamp, InSummer
<1> HIDE DEF T, i
<1>12. ASSUME w <= i PROVE t < i
  <2>1. i \in Int
    <3>1. i \in Nat
        BY InstantTimes DEF i
    <3> QED BY <3>1
  <2> QED BY <2>1, <1>1, <1>2, <1>3, <1>11, <1>12
<1> SUFFICES t < i
    BY DEF i
<1>7. CASE f = 1
  <2>1. i = w
      BY <1>1, <1>2, <1>7 DEF Timestamp, InSummer, i
  <2> QED BY <2>1, <1>2, <1>12
<1>8. CASE f = 0 /\ w < Forward + Hour
  <2>1. i = w
      BY <1>1, <1>2, <1>8 DEF Timestamp, InSummer, i
  <2> QED BY <2>1, <1>2, <1>12
<1>9. CASE f = 0 /\ Forward + Hour <= w /\ w < Back + Hour
  <2>1. i = w - Hour
      BY <1>1, <1>2, <1>9 DEF Timestamp, InSummer, i
  <2>2. CASE Forward <= t /\ t < Back
      BY <2>1, <2>2, <1>1, <1>2, <1>3, <1>6
  <2>3. CASE t < Forward
      BY <2>1, <2>3, <1>1, <1>2, <1>9
  <2>4. CASE Back <= t
    <3>1. Forward + Hour <= e => T = e - Hour
        BY <1>1, <1>2, <1>3, <1>9 DEF Timestamp, InSummer, T
    <3> QED BY <2>1, <2>4, <3>1, <1>1, <1>2, <1>3, <1>9, <1>11
  <2> QED BY <2>2, <2>3, <2>4, <1>1
<1>10. CASE f = 0 /\ Back + Hour <= w
  <2>1. i = w
      BY <1>1, <1>2, <1>10 DEF Timestamp, InSummer, i
  <2> QED BY <2>1, <1>2, <1>12
<1> QED BY <1>1, <1>2, <1>7, <1>8, <1>9, <1>10

\* A search that has missed nothing up to where it stops leaves nothing.
LEMMA LeavesNothing ==
    ASSUME TypeInv, NEW part, start \in Times, Covers(part, start),
           NEW to \in Nat, MissedOnly(part, start, to),
           \A t \in Wall :
               (part.end # None => t <= Instant(part.end) /\ ~ Before(part.end, FromTimestamp(t)))
               => t < to
    PROVE  NothingLeft(part)
<1> SUFFICES ASSUME NEW t \in Wall, AfterBegin(part, t), Matches(part, FromTimestamp(t).at),
                    part.end # None => t <= Instant(part.end) /\ ~ Before(part.end, FromTimestamp(t)),
                    ~ LastBefore(t)
             PROVE  Begin < Forward + Hour /\ OverForward(t)
    BY DEF NothingLeft
<1>1. t \in Nat /\ t < to /\ Instant(start) <= t /\ Instant(start) \in Nat
    BY InstantTimes, Changes DEF Covers, Wall
<1>2. t \in Passed(part, Instant(start), to)
    BY <1>1, PassedIs
<1>3. PICK g \in Nat : \A u \in Passed(part, Instant(start), to) :
          /\ start.at < Forward + Hour
          /\ g % Day = 0 /\ Forward + 2 * Hour <= g /\ g <= Back
          /\ g - Hour <= u /\ u < g
    BY DEF MissedOnly
<1>4. OverForward(t)
    BY <1>1, <1>2, <1>3, MissedShown
<1> QED BY <1>2, <1>3, <1>4 DEF Covers

\* Where a search without a match ends.
LEMMA TurnOver ==
    ASSUME TypeInv, pc = "cron", fieldnum \in 1..7, Turn(Part)[2] = 0
    PROVE  Turn(Part)[1] = Local(0, 0)
<1> DEFINE name == FieldNames[fieldnum]
           v == NextValue(Part.fields[fieldnum], name, next.at)
<1>1. \/ Turn(Part) = <<Incremented(next, fieldnum - 1), Carry(fieldnum - 1, next.at)>>
      \/ Turn(Part) = <<next, fieldnum + 1>>
      \/ Turn(Part) = <<Local(Reading(next.at, fieldnum, v), next.fold), fieldnum + 1>>
      \/ Turn(Part) = <<Incremented(next, fieldnum), Carry(fieldnum, next.at)>>
  <2>1. CASE v = NoValue
      BY <2>1 DEF Turn
  <2>2. CASE v # NoValue /\ v = Value(name, next.at)
      BY <2>2 DEF Turn
  <2>3. CASE v # NoValue /\ v # Value(name, next.at)
      BY <2>3 DEF Turn
  <2> QED BY <2>1, <2>2, <2>3
<1>2. fieldnum + 1 # 0
    OBVIOUS
<1>3. PICK n : Turn(Part) = <<Incremented(next, n), Carry(n, next.at)>>
    BY <1>1, <1>2
<1> QED BY <1>3 DEF Incremented

\* A step that changes neither the clock, nor the fire time, nor the trigger.
LEMMA OverKept ==
    ASSUME UNCHANGED <<trig, clock, prev>>
    PROVE  /\ \A part, from : Covers(part, from)' <=> Covers(part, from)
           /\ \A part : NothingLeft(part)' <=> NothingLeft(part)
    BY DEF Covers, NothingLeft, AfterBegin, Begin, LastBefore

LEMMA OverAsk ==
    ASSUME TypeInv, OverInv, Ask
    PROVE  OverInv'
<1>1. /\ Len(answers) < Len(trig.parts)
      /\ UNCHANGED <<trig, clock, prev, now, answers>>
    BY DEF Ask
<1>2. Part' = Part
    BY <1>1 DEF Part
<1>3. pc' # "end" /\ (pc' = "cron" => AskCron)
    BY DEF Ask, AskCron, AskCalendar
<1>4. ASSUME pc' = "cron", trig.mode # "and" PROVE Covers(Part, start)'
  <2>1. AskCron
      BY <1>3, <1>4
  <2>2. CronPart(Part)
      BY <2>1, <1>1, PartIs DEF AskCron
  <2>3. start' = AsLocal(Ceil(Start(Part))) /\ ~ Overflows(start')
      BY <2>1, <1>4 DEF AskCron
  <2>4. Covers(Part, start')
      BY <2>2, <2>3, <1>4, CoversFirst, CoversNext
  <2> QED BY <2>4, <1>1, <1>2 DEF Covers, AfterBegin, Begin, LastBefore
<1>5. \A part : NothingLeft(part)' <=> NothingLeft(part)
    BY <1>1, OverKept
<1>6. trig.mode # "and" =>
          /\ prev' = None => now' = [Other(clock') EXCEPT !.past = 2]
          /\ prev' # None => Before(JustAfter(prev'), now')
    BY <1>1 DEF OverInv
<1>7. trig.mode # "and" =>
          \A i \in DOMAIN answers' :
              answers'[i] = None /\ trig'.parts[i].kind = "cron" => NothingLeft(trig.parts[i])'
    BY <1>1 DEF OverInv, NothingLeft, AfterBegin, Begin, LastBefore
<1>8. trig.mode # "and" =>
          /\ (prev = None)' => (now = [Other(clock) EXCEPT !.past = 2])'
          /\ (prev # None)' => Before(JustAfter(prev), now)'
    BY <1>1, <1>6 DEF OverInv, Before, JustAfter, Instant
<1> QED BY <1>1, <1>3, <1>4, <1>7, <1>8 DEF OverInv

LEMMA OverAnswer ==
    ASSUME TypeInv, OverInv, NEW dt, Answer(dt), UNCHANGED <<trig, clock, prev, now>>,
           Len(answers) < Len(trig.parts),
           trig.mode # "and" /\ dt = None /\ Part.kind = "cron" => NothingLeft(Part)
    PROVE  OverInv'
<1>1. answers' = Append(answers, dt) /\ pc' = "ask" /\ UNCHANGED <<trig, clock, prev, now>>
    BY DEF Answer
<1>2. \A i \in DOMAIN answers' :
          \/ answers'[i] = dt /\ i = Len(answers) + 1
          \/ i \in DOMAIN answers /\ answers'[i] = answers[i]
  <2>1. answers \in Seq(Times \cup {None})
      BY DEF TypeInv
  <2> QED BY <2>1, <1>1
<1>3. ASSUME trig.mode # "and", NEW i \in DOMAIN answers', answers'[i] = None,
             trig.parts[i].kind = "cron"
      PROVE  NothingLeft(trig.parts[i])
  <2>1. CASE answers'[i] = dt /\ i = Len(answers) + 1
      BY <2>1, <1>3 DEF Part
  <2>2. CASE i \in DOMAIN answers /\ answers'[i] = answers[i]
      BY <2>2, <1>3 DEF OverInv
  <2> QED BY <2>1, <2>2, <1>2
<1>6. ASSUME trig.mode # "and", NEW i \in DOMAIN answers', answers'[i] = None,
             trig.parts[i].kind = "cron"
      PROVE  NothingLeft(trig.parts[i])'
  <2>1. NothingLeft(trig.parts[i])
      BY <1>3, <1>6
  <2> QED BY <2>1, <1>1 DEF NothingLeft, AfterBegin, Begin, LastBefore
<1>4. trig.mode # "and" =>
          \A i \in DOMAIN answers' :
              answers'[i] = None /\ trig'.parts[i].kind = "cron" => NothingLeft(trig.parts[i])'
    BY <1>1, <1>6
<1>5. trig.mode # "and" =>
          /\ (prev = None)' => (now = [Other(clock) EXCEPT !.past = 2])'
          /\ (prev # None)' => Before(JustAfter(prev), now)'
    BY <1>1 DEF OverInv, Before, JustAfter, Instant
<1> QED BY <1>1, <1>4, <1>5 DEF OverInv

LEMMA OverCronTurn ==
    ASSUME OnTheHour, TypeInv, CronInv, OverInv, CronTurn
    PROVE  OverInv'
<1>1. /\ pc = "cron" /\ fieldnum \in 1..7 /\ next' = Turn(Part)[1] /\ fieldnum' = Turn(Part)[2]
      /\ UNCHANGED <<trig, clock, prev, now, start>>
      /\ Len(answers) < Len(trig.parts)
    BY Names DEF CronTurn, TypeInv
<1>2. CASE PastEnd(Part, next')
  <2>1. Answer(None)
      BY <1>2 DEF CronTurn
  <2>2. ASSUME trig.mode # "and" PROVE NothingLeft(Part)
    <3>1. CronPart(Part)
        BY <1>1, PartIs DEF TypeInv
    <3>2. Part.end # None /\ Before(Part.end, next') /\ next' \in Times
        BY <1>1, <1>2, TurnIs DEF PastEnd
    <3>3. Part.end \in Times /\ Part.end = Local(Part.end.at, 0) /\ Part.end.at \in Wall
        BY <3>1, <3>2, CronPartIs, MomentsAre, TimeIs
    <3>4. fieldnum' # 0
      <4>1. ASSUME fieldnum' = 0 PROVE FALSE
        <5>1. next' = Local(0, 0)
            BY <4>1, <1>1, TurnOver
        <5>2. next'.at = 0
            BY <5>1, LocalIs
        <5>3. Part.end.at < next'.at
            BY <3>2, <3>3, TimesOrder
        <5>4. Part.end.at \in Nat
            BY <3>3, Changes DEF Wall
        <5> QED BY <5>2, <5>3, <5>4
      <4> QED BY <4>1
    <3>5. start \in Times /\ SearchInv(Part) /\ Covers(Part, start)
        BY <1>1, <2>2 DEF CronInv, OverInv, SearchInv
    <3>6. MissedOnly(Part, start, Instant(next'))
        BY <3>4, <3>5, <1>1, TurnSearch DEF Clean
    <3>7. ASSUME NEW t \in Wall, t <= Instant(Part.end), ~ Before(Part.end, FromTimestamp(t))
          PROVE  t < Instant(next')
        BY <3>2, <3>3, <3>7, PastEndCovers
    <3>8. Instant(next') \in Nat
        BY <3>2, InstantTimes
    <3> QED BY <3>2, <3>5, <3>6, <3>7, <3>8, LeavesNothing
  <2> QED BY <2>1, <2>2, <1>1, OverAnswer
<1>3. CASE ~ PastEnd(Part, next')
  <2>1. UNCHANGED <<answers, pc>>
      BY <1>3 DEF CronTurn
  <2>2. Part' = Part
      BY <2>1, <1>1 DEF Part
  <2>3. trig.mode # "and" => Covers(Part, start)'
      BY <2>2, <1>1 DEF OverInv, Covers, AfterBegin, Begin, LastBefore
  <2>4. trig.mode # "and" =>
            \A i \in DOMAIN answers' :
                answers'[i] = None /\ trig'.parts[i].kind = "cron" => NothingLeft(trig.parts[i])'
      BY <2>1, <1>1 DEF OverInv, NothingLeft, AfterBegin, Begin, LastBefore
  <2>5. trig.mode # "and" =>
            /\ (prev = None)' => (now = [Other(clock) EXCEPT !.past = 2])'
            /\ (prev # None)' => Before(JustAfter(prev), now)'
      BY <1>1 DEF OverInv, Before, JustAfter, Instant
  <2> QED BY <2>1, <2>3, <2>4, <2>5, <1>1 DEF OverInv
<1> QED BY <1>2, <1>3

LEMMA OverCronAnswers ==
    ASSUME Back + Hour < End, TypeInv, CronInv, OverInv, CronAnswers
    PROVE  OverInv'
<1>1. /\ pc = "cron" /\ fieldnum \notin 1..7
      /\ UNCHANGED <<trig, clock, prev, now, start>>
    BY Names DEF CronAnswers, search
<1>2. /\ Len(answers) < Len(trig.parts) /\ CronPart(Part)
      /\ next \in Times /\ fieldnum \in 0..8
    BY <1>1, PartIs DEF TypeInv
<1>3. CASE fieldnum = 0
  <2>1. Answer(None)
      BY <1>3 DEF CronAnswers
  <2>2. ASSUME trig.mode # "and" PROVE NothingLeft(Part)
    <3>1. start \in Times /\ MissedOnly(Part, start, End) /\ Covers(Part, start)
        BY <1>1, <1>3, <2>2 DEF CronInv, OverInv, SearchInv
    <3>2. End \in Nat /\ \A t \in Wall : t < End
        BY Changes DEF Wall
    <3> QED BY <3>1, <3>2, LeavesNothing
  <2> QED BY <2>1, <2>2, <1>1, <1>2, OverAnswer
<1>4. CASE fieldnum # 0
  <2>1. PICK d \in 0..Part.jitter :
            LET dt == Jittered(Part, next, d)
            IN  IF Overflows(dt)
                THEN pc' = "raised" /\ UNCHANGED answers
                ELSE Answer(IF Part.end = None THEN dt ELSE Earliest(dt, Part.end))
      BY <1>4 DEF CronAnswers
  <2>2. CASE Overflows(Jittered(Part, next, d))
    <3>1. pc' = "raised" /\ UNCHANGED answers
        BY <2>1, <2>2
    <3>2. trig.mode # "and" =>
              \A i \in DOMAIN answers' :
                  answers'[i] = None /\ trig'.parts[i].kind = "cron" => NothingLeft(trig.parts[i])'
        BY <3>1, <1>1 DEF OverInv, NothingLeft, AfterBegin, Begin, LastBefore
    <3>3. trig.mode # "and" =>
              /\ (prev = None)' => (now = [Other(clock) EXCEPT !.past = 2])'
              /\ (prev # None)' => Before(JustAfter(prev), now)'
        BY <1>1 DEF OverInv, Before, JustAfter, Instant
    <3> QED BY <3>1, <3>2, <3>3, <1>1 DEF OverInv
  <2>3. CASE ~ Overflows(Jittered(Part, next, d))
    <3> DEFINE j == Jittered(Part, next, d)
               a == IF Part.end = None THEN j ELSE Earliest(j, Part.end)
    <3>1. Answer(a)
        BY <2>1, <2>3
    <3>2. a \in Times
        BY <2>3, <1>2, AnswerIs
    <3>3. a # None
        BY <3>2, MovingIs
    <3> HIDE DEF a
    <3> QED BY <3>1, <3>3, <1>1, <1>2, OverAnswer
  <2> QED BY <2>2, <2>3
<1> QED BY <1>3, <1>4

LEMMA OverCalendar ==
    ASSUME TypeInv, OverInv, AddMonths \/ CalendarTurn
    PROVE  OverInv'
<1>1. /\ pc \in {"months", "calendar"} /\ UNCHANGED <<trig, clock, prev, now>>
      /\ Len(answers) < Len(trig.parts) /\ Part.kind = "calendar"
    BY DEF AddMonths, CalendarTurn, TypeInv
<1>2. CASE \E dt : Answer(dt)
  <2>1. PICK dt : Answer(dt)
      BY <1>2
  <2>2. Part.kind # "cron"
      BY <1>1
  <2> QED BY <2>1, <2>2, <1>1, OverAnswer
<1>3. CASE UNCHANGED answers /\ pc' \notin {"cron", "end"}
  <2>1. trig.mode # "and" =>
            \A i \in DOMAIN answers' :
                answers'[i] = None /\ trig'.parts[i].kind = "cron" => NothingLeft(trig.parts[i])'
      BY <1>1, <1>3 DEF OverInv, NothingLeft, AfterBegin, Begin, LastBefore
  <2>2. trig.mode # "and" =>
            /\ (prev = None)' => (now = [Other(clock) EXCEPT !.past = 2])'
            /\ (prev # None)' => Before(JustAfter(prev), now)'
      BY <1>1 DEF OverInv, Before, JustAfter, Instant
  <2> QED BY <2>1, <2>2, <1>1, <1>3 DEF OverInv
<1>4. (\E dt : Answer(dt)) \/ (UNCHANGED answers /\ pc' \notin {"cron", "end"})
  <2>1. AddMonths => UNCHANGED answers /\ pc' \notin {"cron", "end"}
      BY DEF AddMonths
  <2>2. ASSUME CalendarTurn
        PROVE  (\E dt : Answer(dt)) \/ (UNCHANGED answers /\ pc' \notin {"cron", "end"})
      BY <2>2 DEF CalendarTurn
  <2> QED BY <2>1, <2>2
<1> QED BY <1>2, <1>3, <1>4

LEMMA OverOver ==
    ASSUME TypeInv, OverInv, Over
    PROVE  OverInv'
<1>1. /\ pc = "ask" /\ pc' = "end" /\ NoFireTime /\ Len(answers) = Len(trig.parts)
      /\ UNCHANGED <<trig, clock, prev, now, answers>>
    BY DEF Over
<1>2. DOMAIN answers = 1..Len(trig.parts) /\ DOMAIN trig.parts = 1..Len(trig.parts)
      /\ trig.mode \in {"single", "or", "and"}
      /\ (trig.mode = "single" => Len(trig.parts) = 1)
    BY <1>1, PartsAre DEF TypeInv
<1>3. ASSUME trig.mode # "and" PROVE \A i \in DOMAIN trig.parts : answers[i] = None
  <2>1. CASE trig.mode = "or"
    <3>1. Answered = {None}
        BY <1>1, <2>1 DEF NoFireTime
    <3> QED BY <3>1, <1>2 DEF Answered
  <2>2. CASE trig.mode = "single"
    <3>1. None \in Answered
        BY <1>1, <2>2 DEF NoFireTime
    <3>2. PICK i \in DOMAIN answers : answers[i] = None
        BY <3>1 DEF Answered
    <3>3. DOMAIN answers = {1} /\ DOMAIN trig.parts = {1}
      <4>1. 1..Len(trig.parts) = {1}
        <5>1. Len(trig.parts) = 1 /\ 1..1 = {1}
            BY <2>2, <1>2
        <5> QED BY <5>1
      <4> QED BY <4>1, <1>2
    <3> QED BY <3>2, <3>3
  <2> QED BY <2>1, <2>2, <1>2, <1>3
<1>4. ASSUME trig.mode # "and", NEW i \in DOMAIN trig.parts, trig.parts[i].kind = "cron"
      PROVE  NothingLeft(trig.parts[i])'
  <2>1. NothingLeft(trig.parts[i])
      BY <1>2, <1>3, <1>4 DEF OverInv
  <2> QED BY <2>1, <1>1 DEF NothingLeft, AfterBegin, Begin, LastBefore
<1>5. trig.mode # "and" =>
          /\ (prev = None)' => (now = [Other(clock) EXCEPT !.past = 2])'
          /\ (prev # None)' => Before(JustAfter(prev), now)'
    BY <1>1 DEF OverInv, Before, JustAfter, Instant
<1>6. trig.mode # "and" =>
          \A i \in DOMAIN trig'.parts : trig'.parts[i].kind = "cron" => NothingLeft(trig.parts[i])'
    BY <1>1, <1>4
<1> QED BY <1>1, <1>2, <1>5, <1>6 DEF OverInv

LEMMA OverFound ==
    ASSUME TypeInv, OverInv, Found
    PROVE  OverInv'
<1>1. /\ pc' = "found" /\ UNCHANGED <<trig, clock, prev, now, answers>>
    BY DEF Found
<1>2. trig.mode # "and" =>
          \A i \in DOMAIN answers' :
              answers'[i] = None /\ trig'.parts[i].kind = "cron" => NothingLeft(trig.parts[i])'
    BY <1>1 DEF OverInv, NothingLeft, AfterBegin, Begin, LastBefore
<1>3. trig.mode # "and" =>
          /\ (prev = None)' => (now = [Other(clock) EXCEPT !.past = 2])'
          /\ (prev # None)' => Before(JustAfter(prev), now)'
    BY <1>1 DEF OverInv, Before, JustAfter, Instant
<1> QED BY <1>1, <1>2, <1>3 DEF OverInv

LEMMA OverFire ==
    ASSUME TypeInv, OverInv, Fire
    PROVE  OverInv'
<1>1. prev' # None
  <2>1. next \in Times /\ prev' = Kept(next)
      BY DEF Fire, TypeInv
  <2> QED BY <2>1, KeptIs
<1>2. answers' = <<>> /\ pc' = "ask"
    BY DEF Fire
<1>3. Before(JustAfter(prev), now)'
  <2>1. Before(JustAfter(prev), now)' <=> Before(JustAfter(prev'), now')
      BY DEF Before, JustAfter, Instant
  <2> QED BY <2>1, FireIsDue
<1> QED BY <1>1, <1>2, <1>3 DEF OverInv

LEMMA OverStep ==
    ASSUME OnTheHour, Back + Hour < End, TypeInv, CronInv, OverInv, [Next]_vars
    PROVE  OverInv'
<1>1. CASE AskAgain
  <2>1. trig.mode = "and" /\ trig' = trig
      BY <1>1 DEF AskAgain, Agreed
  <2>2. ~ (trig.mode # "and")'
      BY <2>1
  <2> QED BY <2>2 DEF OverInv
<1>2. CASE UNCHANGED vars
  <2>1. UNCHANGED <<trig, clock, prev, now, answers, pc, start>>
      BY <1>2 DEF vars, search
  <2>2. Part' = Part
      BY <2>1 DEF Part
  <2>3. trig.mode # "and" => (pc = "cron" => Covers(Part, start))'
      BY <2>1, <2>2 DEF OverInv, Covers, AfterBegin, Begin, LastBefore
  <2>4. trig.mode # "and" =>
            /\ (prev = None)' => (now = [Other(clock) EXCEPT !.past = 2])'
            /\ (prev # None)' => Before(JustAfter(prev), now)'
      BY <2>1 DEF OverInv, Before, JustAfter, Instant
  <2>5. trig.mode # "and" =>
            \A i \in DOMAIN answers' :
                answers'[i] = None /\ trig'.parts[i].kind = "cron" => NothingLeft(trig.parts[i])'
      BY <2>1 DEF OverInv, NothingLeft, AfterBegin, Begin, LastBefore
  <2>6. ASSUME trig.mode # "and", pc' = "end",
               NEW i \in DOMAIN trig'.parts, trig'.parts[i].kind = "cron"
        PROVE  NothingLeft(trig.parts[i])'
    <3>1. NothingLeft(trig.parts[i])
        BY <2>1, <2>6 DEF OverInv
    <3> QED BY <2>1, <3>1 DEF NothingLeft, AfterBegin, Begin, LastBefore
  <2> QED BY <2>1, <2>3, <2>4, <2>5, <2>6 DEF OverInv
<1> QED BY <1>1, <1>2, OverAsk, OverCronTurn, OverCronAnswers, OverCalendar, OverOver,
           OverFound, OverFire DEF Next, Turns

\* A trigger of cron and calendar parts is over only when no time is left that
\* matches one of its cron parts, but for those that a search passes over: for any
\* set of triggers in any calendar whose clocks change on the hour, and back before
\* its last hour.
THEOREM EndsWhenOverHolds ==
    ASSUME OnTheHour, Back + Hour < End
    PROVE  Spec => []EndsWhenOver
<1>1. Init => TypeInv /\ CronInv /\ OverInv
    BY TypeInit DEF Init, CronInv, OverInv
<1>2. TypeInv /\ CronInv /\ OverInv /\ [Next]_vars => TypeInv' /\ CronInv' /\ OverInv'
    BY TypeStep, CronStep, OverStep
<1>3. TypeInv /\ OverInv => EndsWhenOver
  <2> SUFFICES ASSUME TypeInv, OverInv, pc = "end", trig.mode # "and",
                      NEW i \in DOMAIN trig.parts, trig.parts[i].kind = "cron",
                      NEW t \in Passed(trig.parts[i], GreatestOf({clock, Instant(prev)}) + 1, End),
                      prev = None /\ trig.parts[i].start # None => Instant(trig.parts[i].start) <= t,
                      trig.parts[i].end # None => /\ t <= Instant(trig.parts[i].end)
                                                  /\ ~ Before(trig.parts[i].end, FromTimestamp(t))
               PROVE  \/ Begin < Forward + Hour /\ OverForward(t)
                      \/ LastBefore(t)
      BY DEF EndsWhenOver, Begin, LastBefore
  <2> DEFINE part == trig.parts[i]
             last == GreatestOf({clock, Instant(prev)})
  <2>1. NothingLeft(part)
      BY DEF OverInv
  <2>2. last \in Nat
    <3>1. clock \in Nat /\ Instant(prev) \in Nat
        BY AfterIs
    <3> DEFINE p == Instant(prev)
    <3> HIDE DEF p
    <3>2. GreatestOf({clock, p}) = IF clock <= p THEN p ELSE clock
      <4>1. clock \in Int /\ p \in Int
          BY <3>1 DEF p
      <4> QED BY <4>1, PairBounds
    <3> QED BY <3>1, <3>2 DEF p
  <2> HIDE DEF last
  <2>3. t \in Nat /\ last + 1 <= t /\ t < End /\ Matches(part, FromTimestamp(t).at)
    <3>1. last + 1 \in Nat /\ End \in Nat
        BY <2>2, Changes
    <3>2. t \in Passed(part, last + 1, End)
        BY DEF last
    <3> QED BY <3>1, <3>2, PassedIs
  <2>4. t \in Wall /\ last < t
      BY <2>2, <2>3, Changes DEF Wall
  <2>5. AfterBegin(part, t)
      BY <2>4 DEF AfterBegin, last
  <2> QED BY <2>1, <2>3, <2>4, <2>5 DEF NothingLeft
<1> QED BY <1>1, <1>2, <1>3, PTL DEF Spec
=============================================================================
