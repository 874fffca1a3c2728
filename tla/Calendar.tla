------------------------------ MODULE Calendar -------------------------------
(***************************************************************************)
(* The days histories are asked for: mt5-session/src/client/history.rs     *)
(* `date` finds the date of a time, and mt5-native/src/subscription.rs     *)
(* `date_token` packs it into 16 bits.  The calendar goes on day by day    *)
(* beside them.                                                            *)
(*                                                                         *)
(* Times are counted in days here, since the time of day is dropped first: *)
(* 4_039_372_800 seconds are the 46_752 days before 2098.                  *)
(***************************************************************************)
EXTENDS Integers

CONSTANT Years      \* the years the calendar is followed through

ASSUME CalendarAssumption == Years \subseteq Int

VARIABLES dayNumber, civil  \* external: days since 1970, and their date

calendar == <<dayNumber, civil>>

NoDate == <<>>

------------------------------------------------------------------------------
(* The code *)

\* Years begin in March, so that a leap day ends one.
date(day) ==
    LET z == day + 719468
        era == z \div 146097
        doe == z - era * 146097
        yoe == (doe - doe \div 1460 + doe \div 36524 - doe \div 146096) \div 365
        doy == doe - (365 * yoe + yoe \div 4 - yoe \div 100)
        mp == (5 * doy + 2) \div 153
        month == IF mp < 10 THEN mp + 3 ELSE mp - 9
        year == yoe + era * 400 + (IF month <= 2 THEN 1 ELSE 0)
    IN  IF 0 <= day /\ day < 46752
        THEN <<year, month, doy - (153 * mp + 2) \div 5 + 1>> ELSE NoDate

Leap(year) == (year % 4 = 0 /\ year % 100 # 0) \/ year % 400 = 0

is_valid_calendar_date(year, month, day) ==
    /\ month \in 1 .. 12
    /\ day \in 1 .. CASE month \in {4, 6, 9, 11} -> 30
                      [] month = 2 -> IF Leap(year) THEN 29 ELSE 28
                      [] OTHER -> 31

\* Fault: months are counted from zero.
TokenFromZero(year, month, day) ==
    IF year \in 1970 .. 2097 /\ is_valid_calendar_date(year, month, day)
    THEN (year - 1970) * 512 + (month - 1) * 32 + day ELSE -1
\* The three fields share no bit, so or-ing them adds them.
date_token(year, month, day) ==
    IF year \in 1970 .. 2097 /\ is_valid_calendar_date(year, month, day)
    THEN (year - 1970) * 512 + month * 32 + day ELSE -1

------------------------------------------------------------------------------
(* The calendar *)

MonthLengths(year) ==
    <<31, IF Leap(year) THEN 29 ELSE 28, 31, 30, 31, 30, 31, 31, 30, 31, 30, 31>>

\* 1972 was the first leap year.
DaysBefore(year) == 365 * (year - 1970) + (year - 1969) \div 4

CalendarInit ==
    \E year \in Years : dayNumber = DaysBefore(year) /\ civil = <<year, 1, 1>>

Tomorrow ==
    /\ civil # <<civil[1], 12, 31>>
    /\ dayNumber' = dayNumber + 1
    /\ civil' = IF civil[3] < MonthLengths(civil[1])[civil[2]]
                THEN [civil EXCEPT ![3] = @ + 1] ELSE <<civil[1], civil[2] + 1, 1>>

CalendarSpec == CalendarInit /\ [][Tomorrow]_calendar

------------------------------------------------------------------------------
(* Properties *)

Token(d) == date_token(d[1], d[2], d[3])

\* A day is asked for under its date, and in the container of that date alone: the token
\* tells year, month and day, the next day has a greater one, and nothing outside the
\* years a token can hold is asked for.
DatesSurvive ==
    IF civil[1] \in 1970 .. 2097
    THEN /\ date(dayNumber) = civil
         /\ Token(civil) < 65536
         /\ civil = <<Token(civil) \div 512 + 1970, (Token(civil) \div 32) % 16,
                      Token(civil) % 32>>
         /\ dayNumber < 46751 => Token(civil) < Token(date(dayNumber + 1))
         /\ date_token(civil[1], civil[2], civil[3] + 1) # -1 =>
                date(dayNumber + 1) = <<civil[1], civil[2], civil[3] + 1>>
    ELSE date(dayNumber) = NoDate /\ Token(civil) = -1

=============================================================================
