------------------------------ MODULE Calendar ------------------------------
(***************************************************************************)
(* The market calendar (modules/gex/jobs/calendar.py): the table of full   *)
(* closures, what a trading day is, and which session a chain belongs to   *)
(* that was captured at some moment.                                       *)
(*                                                                         *)
(* Days are numbered from 2021-01-01.  A day has four parts: before the    *)
(* open, the regular session, after the close, and the evening in which    *)
(* the UTC date is already the next day's.                                 *)
(***************************************************************************)
EXTENDS Integers, FiniteSets

CONSTANTS FirstDay, LastDay  \* bound: the days walked over

ASSUME CalendarAssumption == FirstDay \in Nat /\ LastDay \in Nat /\ FirstDay > 6

VARIABLES
    day, part,  \* the moment
    opened,     \* history: the last day whose open has been seen
    closed      \* history: the last day whose close has been seen

calendarVars == <<day, part, opened, closed>>

Parts == 0 .. 3
Before == 0
Session == 1
After == 2
Evening == 3

-----------------------------------------------------------------------------
\* The proleptic calendar of datetime.date.
Years == 2021 .. 2028
Leap(y) == y % 4 = 0
YearStart(y) == 365 * (y - 2021) + (y - 2021) \div 4
YearOf(n) == CHOOSE y \in Years : YearStart(y) <= n /\ n < YearStart(y + 1)
MonthLength(y) == <<31, IF Leap(y) THEN 29 ELSE 28, 31, 30, 31, 30, 31, 31, 30, 31, 30, 31>>
MonthStart(y) ==
    LET start[m \in 1 .. 12] == IF m = 1 THEN YearStart(y) ELSE start[m - 1] + MonthLength(y)[m - 1]
    IN  start
Date(y, m, d) == MonthStart(y)[m] + d - 1
Weekday(n) == (n + 4) % 7  \* 0 is Monday

\* _HOLIDAYS_BY_YEAR, as <<month, day>>.
HolidayTable == [y \in 2021 .. 2027 |->
    CASE y = 2021 -> {<<1,1>>, <<1,18>>, <<2,15>>, <<4,2>>, <<5,31>>, <<7,5>>, <<9,6>>, <<11,25>>, <<12,24>>}
      [] y = 2022 -> {<<1,17>>, <<2,21>>, <<4,15>>, <<5,30>>, <<6,20>>, <<7,4>>, <<9,5>>, <<11,24>>, <<12,26>>}
      [] y = 2023 -> {<<1,2>>, <<1,16>>, <<2,20>>, <<4,7>>, <<5,29>>, <<6,19>>, <<7,4>>, <<9,4>>, <<11,23>>, <<12,25>>}
      [] y = 2024 -> {<<1,1>>, <<1,15>>, <<2,19>>, <<3,29>>, <<5,27>>, <<6,19>>, <<7,4>>, <<9,2>>, <<11,28>>, <<12,25>>}
      [] y = 2025 -> {<<1,1>>, <<1,9>>, <<1,20>>, <<2,17>>, <<4,18>>, <<5,26>>, <<6,19>>, <<7,4>>, <<9,1>>, <<11,27>>, <<12,25>>}
      [] y = 2026 -> {<<1,1>>, <<1,19>>, <<2,16>>, <<4,3>>, <<5,25>>, <<6,19>>, <<7,3>>, <<9,7>>, <<11,26>>, <<12,25>>}
      [] y = 2027 -> {<<1,1>>, <<1,18>>, <<2,15>>, <<3,26>>, <<5,31>>, <<6,18>>, <<7,5>>, <<9,6>>, <<11,25>>, <<12,24>>}]

Holidays == UNION {{Date(y, md[1], md[2]) : md \in HolidayTable[y]} : y \in DOMAIN HolidayTable}

\* A plausible bug: the table was regenerated from the rule that a holiday on a Saturday moves to
\* the Friday before, which New Year's Day does not follow.
RegeneratedHoliday(n) == n \in Holidays \cup {Date(2021, 12, 31)}

\* is_market_holiday: a year without data is open.
IsHoliday(n) == n \in Holidays

IsTradingDay(n) == Weekday(n) < 5 /\ ~IsHoliday(n)

\* No run of closed days is longer than four, so the walk back is within the week.
ASSUME ClosuresAreShort ==
    \A n \in FirstDay .. LastDay + 1 : \E d \in n - 6 .. n - 1 : IsTradingDay(d)

PreviousTradingDay(n) ==
    CHOOSE d \in n - 6 .. n - 1 : IsTradingDay(d) /\ \A e \in d + 1 .. n - 1 : ~IsTradingDay(e)

\* A plausible bug: the rule pivots on the date alone.
SessionOfDate(n, p) == IF IsTradingDay(n) THEN n ELSE PreviousTradingDay(n)

\* session_date: a capture inside or after a trading day's open is that day's.
SessionDate(n, p) == IF IsTradingDay(n) /\ p >= Session THEN n ELSE PreviousTradingDay(n)

IsRegularSession(n, p) == IsTradingDay(n) /\ p = Session

\* effective_data_time: outside the session the chain is frozen since the last close.
EffectiveDate(n, p) ==
    IF IsRegularSession(n, p) \/ (IsTradingDay(n) /\ p > Session) THEN n ELSE PreviousTradingDay(n)

-----------------------------------------------------------------------------
CalendarInit ==
    /\ day = FirstDay /\ part = Before
    /\ opened = PreviousTradingDay(FirstDay)
    /\ closed = PreviousTradingDay(FirstDay)

\* The clock moves to the next part of the day; the market opens and closes on trading days.
PartPasses ==
    LET nextDay == IF part = Evening THEN day + 1 ELSE day
        nextPart == (part + 1) % 4
    IN
    /\ nextDay <= LastDay
    /\ day' = nextDay
    /\ part' = nextPart
    /\ opened' = IF nextPart = Session /\ IsTradingDay(day) THEN day ELSE opened
    /\ closed' = IF nextPart = After /\ IsTradingDay(day) THEN day ELSE closed

CalendarSpec == CalendarInit /\ [][PartPasses]_calendarVars

-----------------------------------------------------------------------------
\* The reference: the exchange's published rules of observance.

\* The n-th given weekday of a month, and the last one.
Nth(y, m, weekday, n) ==
    CHOOSE d \in Date(y, m, 1) + 7 * (n - 1) .. Date(y, m, 1) + 7 * n - 1 : Weekday(d) = weekday
LastMonday(y, m) == CHOOSE d \in Date(y, m, 25) .. Date(y, m, 31) : Weekday(d) = 0

\* A fixed holiday on a Saturday is observed the Friday before, on a Sunday the Monday after.
Observed(n) == IF Weekday(n) = 5 THEN n - 1 ELSE IF Weekday(n) = 6 THEN n + 1 ELSE n

GoodFriday(y) ==
    LET a == y % 19
        c == y \div 100
        h == (19 * a + c - (c \div 4) - ((c - ((c + 8) \div 25) + 1) \div 3) + 15) % 30
        l == (32 + 2 * (c % 4) + 2 * ((y % 100) \div 4) - h - (y % 4)) % 7
        m == (a + 11 * h + 22 * l) \div 451
        easter == h + l - 7 * m + 114
    IN  Date(y, easter \div 31, (easter % 31) + 1) - 2

RuleHolidays(y) ==
    {Nth(y, 1, 0, 3), Nth(y, 2, 0, 3), GoodFriday(y), LastMonday(y, 5), Observed(Date(y, 7, 4)),
     Nth(y, 9, 0, 1), Nth(y, 11, 3, 4), Observed(Date(y, 12, 25))}
    \cup (IF Weekday(Date(y, 1, 1)) = 5 THEN {} ELSE {Observed(Date(y, 1, 1))})
    \cup (IF y = 2021 THEN {} ELSE {Observed(Date(y, 6, 19))})

\* The one closure of these years no rule gives: the day of mourning of January 2025.
Extraordinary == {Date(2025, 1, 9)}

Closures == Extraordinary \cup UNION {RuleHolidays(y) : y \in DOMAIN HolidayTable}

\* The table of closures, typed in by hand for seven years with three places where the
\* mechanical rules and the exchange differ, closes exactly the weekdays the exchange closes.
TableFollowsRules ==
    YearOf(day) \in DOMAIN HolidayTable /\ Weekday(day) < 5 =>
        (IsHoliday(day) <=> day \in Closures)

\* A capture belongs to the session whose book the vendor still serves: the last one that has
\* opened, through weekends, holidays and the small hours; and what it shows is as old as the
\* last close, or the session that is under way.
CaptureBelongsToLastOpen ==
    /\ SessionDate(day, part) = opened
    /\ EffectiveDate(day, part) = IF part = Session /\ opened = day THEN day ELSE closed
=============================================================================
