-------------------------- MODULE NativeDataProofs ---------------------------
(***************************************************************************)
(* What the native client keeps and works out, for every value of the      *)
(* constants: the tokens of dates, the endpoint pool, the bars of a        *)
(* history, the client's book, the history of trades, the frames of a      *)
(* stream.                                                                 *)
(***************************************************************************)
EXTENDS Calendar, EndpointPool, BarHistory, ClientBook, TradeHistory, FrameParser,
        SequenceTheorems, FiniteSetTheorems, WellFoundedInduction, TLAPS

------------------------------------------------------------------------------
(* Dates *)

Requested(year, month, day) ==
    year \in 1970 .. 2097 /\ is_valid_calendar_date(year, month, day)

LEMMA Fields ==
    ASSUME NEW year, NEW month, NEW day, Requested(year, month, day)
    PROVE  /\ year \in 1970 .. 2097 /\ month \in 1 .. 12 /\ day \in 1 .. 31
           /\ date_token(year, month, day) = (year - 1970) * 512 + month * 32 + day
<1>1. day \in 1 .. 31
  <2>1. CASE month \in {4, 6, 9, 11}
    BY <2>1 DEF Requested, is_valid_calendar_date
  <2>2. CASE month = 2
    BY <2>2 DEF Requested, is_valid_calendar_date
  <2>3. CASE month \notin {2, 4, 6, 9, 11}
    BY <2>3 DEF Requested, is_valid_calendar_date
  <2> QED
    BY <2>1, <2>2, <2>3
<1> QED
  BY <1>1 DEF Requested, is_valid_calendar_date, date_token

\* A token fits 16 bits and tells the year, the month and the day again: two days never
\* share a container (subscription.rs `date_token`).
THEOREM TokenTellsDate ==
    ASSUME NEW year, NEW month, NEW day, Requested(year, month, day)
    PROVE  /\ date_token(year, month, day) \in Nat /\ date_token(year, month, day) < 65536
           /\ year = date_token(year, month, day) \div 512 + 1970
           /\ month = (date_token(year, month, day) \div 32) % 16
           /\ day = date_token(year, month, day) % 32
<1>1. /\ year \in 1970 .. 2097 /\ month \in 1 .. 12 /\ day \in 1 .. 31
      /\ date_token(year, month, day) = (year - 1970) * 512 + month * 32 + day
  BY Fields
<1>2. date_token(year, month, day) \in Nat /\ date_token(year, month, day) < 65536
  BY <1>1
<1>3. year = date_token(year, month, day) \div 512 + 1970
  BY <1>1
<1>4. day = date_token(year, month, day) % 32
  BY <1>1
<1>5. date_token(year, month, day) \div 32 = (year - 1970) * 16 + month
  BY <1>1
<1>6. ((year - 1970) * 16 + month) % 16 = month
  BY <1>1
<1>7. month = (date_token(year, month, day) \div 32) % 16
  BY <1>5, <1>6
<1> QED
  BY <1>2, <1>3, <1>4, <1>7

Earlier(y1, m1, d1, y2, m2, d2) ==
    \/ y1 < y2
    \/ y1 = y2 /\ m1 < m2
    \/ y1 = y2 /\ m1 = m2 /\ d1 < d2

\* Of two days the later has the greater token: sorting containers by their tokens sorts
\* them by day (history.rs `ticks`).
THEOREM TokensOrderDates ==
    ASSUME NEW y1, NEW m1, NEW d1, NEW y2, NEW m2, NEW d2,
           Requested(y1, m1, d1), Requested(y2, m2, d2), Earlier(y1, m1, d1, y2, m2, d2)
    PROVE  date_token(y1, m1, d1) < date_token(y2, m2, d2)
<1>1. /\ y1 \in 1970 .. 2097 /\ m1 \in 1 .. 12 /\ d1 \in 1 .. 31
      /\ date_token(y1, m1, d1) = (y1 - 1970) * 512 + m1 * 32 + d1
  BY Fields
<1>2. /\ y2 \in 1970 .. 2097 /\ m2 \in 1 .. 12 /\ d2 \in 1 .. 31
      /\ date_token(y2, m2, d2) = (y2 - 1970) * 512 + m2 * 32 + d2
  BY Fields
<1> QED
  BY <1>1, <1>2 DEF Earlier

Extra(year) == IF Leap(year) THEN 1 ELSE 0

\* The days of a year before each month.
Elapsed(year) ==
    <<0, 31, 59 + Extra(year), 90 + Extra(year), 120 + Extra(year), 151 + Extra(year),
      181 + Extra(year), 212 + Extra(year), 243 + Extra(year), 273 + Extra(year),
      304 + Extra(year), 334 + Extra(year)>>

\* The same in a year that begins in March.
FromMarch(month) == <<306, 337, 0, 31, 61, 92, 122, 153, 184, 214, 245, 275>>[month]

LEMMA MonthsFollow ==
    ASSUME NEW year \in Int, NEW month \in 1 .. 12
    PROVE  /\ Elapsed(year)[month] \in Int /\ MonthLengths(year)[month] \in 28 .. 31
           /\ month # 12 => Elapsed(year)[month + 1] = Elapsed(year)[month] + MonthLengths(year)[month]
           /\ Elapsed(year)[month] >= 0
           /\ Elapsed(year)[month] + MonthLengths(year)[month] <= 365 + Extra(year)
<1>1. Extra(year) \in {0, 1} /\ (Leap(year) <=> Extra(year) = 1)
  BY DEF Extra
<1>2. /\ Elapsed(year)[1] = 0 /\ Elapsed(year)[2] = 31 /\ Elapsed(year)[3] = 59 + Extra(year)
      /\ Elapsed(year)[4] = 90 + Extra(year) /\ Elapsed(year)[5] = 120 + Extra(year)
      /\ Elapsed(year)[6] = 151 + Extra(year) /\ Elapsed(year)[7] = 181 + Extra(year)
      /\ Elapsed(year)[8] = 212 + Extra(year) /\ Elapsed(year)[9] = 243 + Extra(year)
      /\ Elapsed(year)[10] = 273 + Extra(year) /\ Elapsed(year)[11] = 304 + Extra(year)
      /\ Elapsed(year)[12] = 334 + Extra(year)
  BY DEF Elapsed
<1>3. /\ MonthLengths(year)[1] = 31 /\ MonthLengths(year)[2] = 28 + Extra(year)
      /\ MonthLengths(year)[3] = 31 /\ MonthLengths(year)[4] = 30 /\ MonthLengths(year)[5] = 31
      /\ MonthLengths(year)[6] = 30 /\ MonthLengths(year)[7] = 31 /\ MonthLengths(year)[8] = 31
      /\ MonthLengths(year)[9] = 30 /\ MonthLengths(year)[10] = 31 /\ MonthLengths(year)[11] = 30
      /\ MonthLengths(year)[12] = 31
  BY <1>1 DEF MonthLengths
<1> DEFINE E(i) == Elapsed(year)[i]
           M(i) == MonthLengths(year)[i]
<1>4. /\ month \in {1, 2, 3, 4, 5, 6, 7, 8, 9, 10, 11, 12}
  OBVIOUS
<1> QED
  BY <1>1, <1>2, <1>3, <1>4

LEMMA SpringOrLater ==
    ASSUME NEW year \in 1970 .. 2097, NEW month \in 1 .. 12
    PROVE  Elapsed(year)[month] = FromMarch(month) + IF month <= 2 THEN -306 ELSE 59 + Extra(year)
<1>1. Extra(year) \in Int
  BY DEF Extra
<1>2. /\ Elapsed(year)[1] = 0 /\ Elapsed(year)[2] = 31 /\ Elapsed(year)[3] = 59 + Extra(year)
      /\ Elapsed(year)[4] = 90 + Extra(year) /\ Elapsed(year)[5] = 120 + Extra(year)
      /\ Elapsed(year)[6] = 151 + Extra(year) /\ Elapsed(year)[7] = 181 + Extra(year)
      /\ Elapsed(year)[8] = 212 + Extra(year) /\ Elapsed(year)[9] = 243 + Extra(year)
      /\ Elapsed(year)[10] = 273 + Extra(year) /\ Elapsed(year)[11] = 304 + Extra(year)
      /\ Elapsed(year)[12] = 334 + Extra(year)
  BY DEF Elapsed
<1>3. /\ FromMarch(1) = 306 /\ FromMarch(2) = 337 /\ FromMarch(3) = 0 /\ FromMarch(4) = 31
      /\ FromMarch(5) = 61 /\ FromMarch(6) = 92 /\ FromMarch(7) = 122 /\ FromMarch(8) = 153
      /\ FromMarch(9) = 184 /\ FromMarch(10) = 214 /\ FromMarch(11) = 245 /\ FromMarch(12) = 275
  BY DEF FromMarch
<1> QED
  BY <1>1, <1>2, <1>3

\* A day of a year that begins in March.
MarchDay(month, day, doy) ==
    /\ month \in 1 .. 12 /\ day \in 1 .. 31
    /\ day <= CASE month \in {4, 6, 9, 11} -> 30 [] month = 2 -> 29 [] OTHER -> 31
    /\ doy = FromMarch(month) + day - 1

\* It tells month and day.
LEMMA DayOfMarchYear ==
    ASSUME NEW month, NEW day, NEW doy, MarchDay(month, day, doy)
    PROVE  /\ doy \in 0 .. 365 /\ (doy = 365 => month = 2 /\ day = 29)
           /\ (5 * doy + 2) \div 153 = IF month <= 2 THEN month + 9 ELSE month - 3
           /\ doy - (153 * ((5 * doy + 2) \div 153) + 2) \div 5 + 1 = day
<1> DEFINE last == CASE month \in {4, 6, 9, 11} -> 30 [] month = 2 -> 29 [] OTHER -> 31
<1>1. /\ month \in {1, 2, 3, 4, 5, 6, 7, 8, 9, 10, 11, 12} /\ day \in 1 .. 31 /\ day <= last
      /\ doy = FromMarch(month) + day - 1
  BY DEF MarchDay
<1>3. /\ FromMarch(1) = 306 /\ FromMarch(2) = 337 /\ FromMarch(3) = 0 /\ FromMarch(4) = 31
      /\ FromMarch(5) = 61 /\ FromMarch(6) = 92 /\ FromMarch(7) = 122 /\ FromMarch(8) = 153
      /\ FromMarch(9) = 184 /\ FromMarch(10) = 214 /\ FromMarch(11) = 245 /\ FromMarch(12) = 275
  BY DEF FromMarch
<1>4. CASE month = 1 BY <1>1, <1>3, <1>4
<1>5. CASE month = 2 BY <1>1, <1>3, <1>5
<1>6. CASE month = 3 BY <1>1, <1>3, <1>6
<1>7. CASE month = 4 BY <1>1, <1>3, <1>7
<1>8. CASE month = 5 BY <1>1, <1>3, <1>8
<1>9. CASE month = 6 BY <1>1, <1>3, <1>9
<1>10. CASE month = 7 BY <1>1, <1>3, <1>10
<1>11. CASE month = 8 BY <1>1, <1>3, <1>11
<1>12. CASE month = 9 BY <1>1, <1>3, <1>12
<1>13. CASE month = 10 BY <1>1, <1>3, <1>13
<1>14. CASE month = 11 BY <1>1, <1>3, <1>14
<1>15. CASE month = 12 BY <1>1, <1>3, <1>15
<1> QED
  BY <1>1, <1>4, <1>5, <1>6, <1>7, <1>8, <1>9, <1>10, <1>11, <1>12, <1>13, <1>14, <1>15

\* The day of an era, where a day more comes only after three of four years.
EraDay(k, doy, doe) ==
    /\ k \in 0 .. 97 \union 369 .. 399 /\ doy \in 0 .. 365
    /\ doy = 365 => k % 4 = 3
    /\ doe = 365 * k + k \div 4 - k \div 100 + doy

\* It tells the year of the era.
LEMMA YearOfEra ==
    ASSUME NEW k, NEW doy, NEW doe, EraDay(k, doy, doe)
    PROVE  (doe - doe \div 1460 + doe \div 36524 - doe \div 146096) \div 365 = k
<1> DEFINE a == k \div 4
           b == k % 4
           x == doe \div 1460
           c == doe \div 36524
           e == doe \div 146096
<1>e. /\ k \in 0 .. 97 \union 369 .. 399 /\ doy \in 0 .. 365
      /\ doy = 365 => k % 4 = 3
      /\ doe = 365 * k + k \div 4 - k \div 100 + doy
  BY DEF EraDay
<1>1. /\ k \in Int /\ doy \in Int /\ 0 <= doy /\ doy <= 365 /\ a \in Int /\ b \in 0 .. 3 /\ k = 4 * a + b /\ doe \in Int
      /\ k \in 0 .. 97 => k \div 100 = 0 /\ a \in 0 .. 24
      /\ k \in 369 .. 399 => k \div 100 = 3 /\ a \in 92 .. 99
  BY <1>e
<1>2. doy = 365 => b = 3
  BY <1>e
<1>z. x = doe \div 1460 /\ c = doe \div 36524 /\ e = doe \div 146096
  OBVIOUS
<1> DEFINE y == (doe - x + c - e) \div 365
<1> HIDE DEF a, b, x, c, e
<1>x. /\ x \in Int /\ 1460 * x <= doe /\ doe < 1460 * x + 1460
      /\ c \in Int /\ 36524 * c <= doe /\ doe < 36524 * c + 36524
      /\ e \in Int /\ 146096 * e <= doe /\ doe < 146096 * e + 146096
  BY <1>1 DEF x, c, e
<1>y. ASSUME NEW n \in Int, 365 * k <= n, n <= 365 * k + 364 PROVE n \div 365 = k
  BY <1>1, <1>y
<1> HIDE DEF y
<1>3. ASSUME k \in 0 .. 97
      PROVE  y = k
  <2>1. doe = 1461 * a + 365 * b + doy /\ doe = 365 * k + a + doy /\ a \in 0 .. 24
    BY <1>e, <1>1, <1>3 DEF a
  <2>2. doe >= 0 /\ doe <= 36523
    BY <1>1, <1>2, <1>3, <2>1
  <2>c. c = 0 /\ e = 0
    BY <1>1, <1>x, <2>2
  <2>3. \/ x = a /\ a + 365 * b + doy < 1460
        \/ x = a + 1 /\ a + 365 * b + doy >= 1460
    BY <1>1, <1>2, <1>x, <2>1
  <2>4. 365 * k <= doe - x /\ doe - x <= 365 * k + 364
    BY <1>1, <1>2, <1>x, <2>1, <2>3
  <2>5. y = k
    BY <1>1, <1>x, <1>y, <2>c, <2>4 DEF y
  <2> QED
    BY <2>5
<1>4. ASSUME k \in 369 .. 399
      PROVE  y = k
  <2>1. doe = 1461 * a + 365 * b + doy - 3 /\ doe = 365 * k + a + doy - 3 /\ a \in 92 .. 99
    BY <1>e, <1>1, <1>4 DEF a
  <2>2. 109572 <= doe /\ doe <= 146096
    BY <1>1, <1>2, <2>1
  <2>c. c - e = 3
    BY <1>1, <1>x, <2>2
  <2>3. \/ x = a /\ a - 3 + 365 * b + doy < 1460
        \/ x = a + 1 /\ a - 3 + 365 * b + doy >= 1460
    BY <1>1, <1>2, <1>x, <2>1
  <2>4. 365 * k <= doe - x + 3 /\ doe - x + 3 <= 365 * k + 364
    BY <1>1, <1>2, <1>x, <2>1, <2>3
  <2>6. doe - x + c - e = doe - x + 3
    BY <1>1, <2>c, <1>x
  <2>5. y = k
    BY <1>1, <1>x, <1>y, <2>6, <2>4 DEF y
  <2> QED
    BY <2>5
<1>5. k \in 0 .. 97 \/ k \in 369 .. 399
  BY <1>e
<1>6. y = k
  BY <1>3, <1>4, <1>5
<1> QED
  BY <1>6, <1>z DEF y

LEMMA LastDays ==
    ASSUME NEW year \in Int, NEW month \in 1 .. 12
    PROVE  /\ MonthLengths(year)[month] = (CASE month \in {4, 6, 9, 11} -> 30
                                             [] month = 2 -> IF Leap(year) THEN 29 ELSE 28
                                             [] OTHER -> 31)
           /\ \A day \in Int : is_valid_calendar_date(year, month, day) <=>
                                 1 <= day /\ day <= MonthLengths(year)[month]
<1>3. /\ MonthLengths(year)[1] = 31 /\ MonthLengths(year)[2] = (IF Leap(year) THEN 29 ELSE 28)
      /\ MonthLengths(year)[3] = 31 /\ MonthLengths(year)[4] = 30 /\ MonthLengths(year)[5] = 31
      /\ MonthLengths(year)[6] = 30 /\ MonthLengths(year)[7] = 31 /\ MonthLengths(year)[8] = 31
      /\ MonthLengths(year)[9] = 30 /\ MonthLengths(year)[10] = 31 /\ MonthLengths(year)[11] = 30
      /\ MonthLengths(year)[12] = 31
  BY DEF MonthLengths
<1>4. month \in {1, 2, 3, 4, 5, 6, 7, 8, 9, 10, 11, 12}
  OBVIOUS
<1>5. CASE month = 2
  BY <1>3, <1>5 DEF is_valid_calendar_date
<1>6. CASE month \in {4, 6, 9, 11}
  BY <1>3, <1>6 DEF is_valid_calendar_date
<1>7. CASE month \in {1, 3, 5, 7, 8, 10, 12}
  BY <1>3, <1>7 DEF is_valid_calendar_date
<1> QED
  BY <1>4, <1>5, <1>6, <1>7

\* A day by its number: the days of the years before, of the months before, and of the month.
DayOf(year, month, day) == DaysBefore(year) + Elapsed(year)[month] + day - 1

\* A day of the years that `date` and `date_token` cover.
Covered(year, month, day) ==
    /\ year \in 1970 .. 2097 /\ month \in 1 .. 12
    /\ day \in Int /\ 1 <= day /\ day <= MonthLengths(year)[month]

\* `date` finds the date of every day of the years it covers.
LEMMA DateIs ==
    ASSUME NEW year, NEW month, NEW day, Covered(year, month, day)
    PROVE  date(DayOf(year, month, day)) = <<year, month, day>>
<1>0. /\ year \in 1970 .. 2097 /\ month \in 1 .. 12
      /\ day \in Int /\ 1 <= day /\ day <= MonthLengths(year)[month]
  BY DEF Covered
<1> DEFINE n == DayOf(year, month, day)
           marchYear == IF month <= 2 THEN year - 1 ELSE year
           doy == FromMarch(month) + day - 1
<1>n. n = DaysBefore(year) + Elapsed(year)[month] + day - 1
  BY DEF DayOf
<1>m. marchYear = IF month <= 2 THEN year - 1 ELSE year
  OBVIOUS
<1>d. doy = FromMarch(month) + day - 1
  OBVIOUS
<1> HIDE DEF n, marchYear, doy
<1>1. /\ year \in Int /\ 1970 <= year /\ year <= 2097 /\ month \in Int /\ 1 <= month /\ month <= 12
      /\ Extra(year) = (IF year % 4 = 0 THEN 1 ELSE 0)
      /\ Elapsed(year)[month] \in Int /\ Elapsed(year)[month] >= 0
      /\ Elapsed(year)[month] + MonthLengths(year)[month] <= 365 + Extra(year)
      /\ MonthLengths(year)[month] \in 28 .. 31
  <2>1. year \in Int /\ 1970 <= year /\ year <= 2097 /\ month \in Int /\ 1 <= month /\ month <= 12
    BY <1>0
  <2>2. Leap(year) <=> year % 4 = 0
    BY <1>0 DEF Leap
  <2>3. year \in Int
    BY <2>1
  <2>4. /\ Elapsed(year)[month] \in Int /\ MonthLengths(year)[month] \in 28 .. 31
        /\ Elapsed(year)[month] >= 0
        /\ Elapsed(year)[month] + MonthLengths(year)[month] <= 365 + Extra(year)
    BY <1>0, <2>3, MonthsFollow
  <2>5. Extra(year) = (IF year % 4 = 0 THEN 1 ELSE 0)
    BY <2>2 DEF Extra
  <2> QED
    BY <2>1, <2>4, <2>5
<1>2. day \in Int /\ 1 <= day /\ day <= MonthLengths(year)[month] /\ MonthLengths(year)[month] <= 31
  BY <1>0, <1>1
<1>3. n \in Int /\ 0 <= n /\ n <= 46751
  BY <1>1, <1>2, <1>n DEF DaysBefore
<1> DEFINE mp == (5 * doy + 2) \div 153
<1>4. /\ doy \in 0 .. 365 /\ (doy = 365 => month = 2 /\ day = 29)
      /\ mp = (IF month <= 2 THEN month + 9 ELSE month - 3)
      /\ doy - (153 * mp + 2) \div 5 + 1 = day
  <2> HIDE DEF mp
  <2>1. day <= CASE month \in {4, 6, 9, 11} -> 30 [] month = 2 -> 29 [] OTHER -> 31
    BY <1>0, <1>1, <1>2, LastDays
  <2>2. MarchDay(month, day, doy)
    BY <1>0, <1>2, <1>d, <2>1 DEF MarchDay
  <2>3. mp = (5 * doy + 2) \div 153
    BY DEF mp
  <2> QED
    BY <2>2, <2>3, DayOfMarchYear
<1>p. mp = (5 * doy + 2) \div 153
  OBVIOUS
<1> HIDE DEF mp
<1>5. Elapsed(year)[month] = FromMarch(month) + IF month <= 2 THEN -306 ELSE 59 + Extra(year)
  BY <1>0, SpringOrLater
<1>6. FromMarch(month) \in Int
  BY <1>0 DEF FromMarch
<1>q. marchYear \in Int /\ 1969 <= marchYear /\ marchYear <= 2097 /\ doy \in Int /\ 0 <= doy /\ doy <= 365
  BY <1>1, <1>m, <1>4
<1>7. n + 719468 = 365 * marchYear + marchYear \div 4 - 15 + doy
  <2>1. n = 365 * (year - 1970) + (year - 1969) \div 4 + Elapsed(year)[month] + day - 1
    BY <1>n DEF DaysBefore
  <2>2. CASE month <= 2
    <3>1. (year - 1969) \div 4 + 492 = (year - 1) \div 4
      BY <1>1
    <3>2. marchYear = year - 1 /\ Elapsed(year)[month] = FromMarch(month) - 306
      BY <1>1, <1>m, <1>5, <1>6, <2>2
    <3> QED
      BY <1>1, <1>2, <1>3, <1>6, <1>d, <2>1, <3>1, <3>2
  <2>3. CASE ~(month <= 2)
    <3>1. (year - 1969) \div 4 + 492 + Extra(year) = year \div 4
      BY <1>1
    <3>2. marchYear = year /\ Elapsed(year)[month] = FromMarch(month) + 59 + Extra(year)
      BY <1>1, <1>m, <1>5, <1>6, <2>3
    <3> QED
      BY <1>1, <1>2, <1>3, <1>6, <1>d, <2>1, <3>1, <3>2
  <2> QED
    BY <2>2, <2>3
<1> DEFINE era == (n + 719468) \div 146097
<1>8. era = IF marchYear < 2000 THEN 4 ELSE 5
  BY <1>3, <1>7, <1>q
<1>9. era \in Int
  BY <1>3
<1> DEFINE k == marchYear - 400 * era
           doe == n + 719468 - era * 146097
<1>10. /\ k \in 0 .. 97 \union 369 .. 399 /\ k \in Int /\ doe = 365 * k + k \div 4 - k \div 100 + doy
       /\ k % 4 = marchYear % 4 /\ k + era * 400 = marchYear
  <2> HIDE DEF era
  <2>1. CASE marchYear < 2000
    BY <1>3, <1>7, <1>8, <1>q, <2>1
  <2>2. CASE ~(marchYear < 2000)
    BY <1>3, <1>7, <1>8, <1>q, <2>2
  <2> QED
    BY <2>1, <2>2
<1>11. doy = 365 => k % 4 = 3
  <2> SUFFICES ASSUME doy = 365 PROVE k % 4 = 3
    OBVIOUS
  <2>1. month = 2 /\ MonthLengths(year)[month] >= 29 /\ marchYear = year - 1
    BY <1>1, <1>2, <1>4, <1>m
  <2>2. Leap(year) /\ year % 4 = 0
    BY <1>0, <1>1, <2>1, LastDays DEF Extra
  <2>3. (year - 1) % 4 = 3
    BY <1>1, <2>2
  <2> HIDE DEF k
  <2> QED
    BY <1>10, <2>1, <2>3
<1> HIDE DEF era, k
<1> DEFINE yoe == (doe - doe \div 1460 + doe \div 36524 - doe \div 146096) \div 365
<1>12. doe = n + 719468 - era * 146097
  OBVIOUS
<1> HIDE DEF doe
<1>13. yoe = k
  <2>1. EraDay(k, doy, doe)
    BY <1>4, <1>10, <1>11 DEF EraDay
  <2> QED
    BY <2>1, YearOfEra
<1>14. yoe = (doe - doe \div 1460 + doe \div 36524 - doe \div 146096) \div 365
  OBVIOUS
<1> HIDE DEF yoe
<1>15. doe - (365 * yoe + yoe \div 4 - yoe \div 100) = doy
  BY <1>10, <1>13, <1>q
<1> DEFINE found == IF mp < 10 THEN mp + 3 ELSE mp - 9
<1>16. found = month /\ yoe + era * 400 + (IF found <= 2 THEN 1 ELSE 0) = year
  BY <1>1, <1>4, <1>10, <1>13, <1>m
<1> HIDE DEF found
<1>17. found = IF mp < 10 THEN mp + 3 ELSE mp - 9
  BY DEF found
<1>18. doy - (153 * mp + 2) \div 5 + 1 = day
  BY <1>4
<1>19. era = (n + 719468) \div 146097
  BY DEF era
<1>20. date(n) = <<yoe + era * 400 + (IF found <= 2 THEN 1 ELSE 0), found, doy - (153 * mp + 2) \div 5 + 1>>
  <2>1. 0 <= n /\ n < 46752
    BY <1>3
  <2>2. n \in Int /\ era \in Int /\ doe \in Int /\ yoe \in Int /\ mp \in Int /\ doy \in Int
    BY <1>3, <1>9, <1>12, <1>10, <1>13, <1>q, <1>p
  <2> QED
    BY ONLY <2>1, <2>2, <1>19, <1>12, <1>14, <1>15, <1>p, <1>17, SMTT(60) DEF date
<1> DEFINE foundYear == yoe + era * 400 + (IF found <= 2 THEN 1 ELSE 0)
           foundDay == doy - (153 * mp + 2) \div 5 + 1
<1>21. foundYear = year /\ foundDay = day /\ date(n) = <<foundYear, found, foundDay>>
  BY <1>16, <1>18, <1>20, Zenon
<1> HIDE DEF foundYear, foundDay
<1>22. date(n) = <<year, month, day>>
  BY <1>16, <1>21, Zenon
<1> QED
  BY <1>22, Zenon DEF n

CalendarInv ==
    \E year \in Int : \E month \in 1 .. 12 : \E day \in 1 .. MonthLengths(year)[month] :
        civil = <<year, month, day>> /\ dayNumber = DayOf(year, month, day)

LEMMA CalendarStarts == CalendarInit => CalendarInv
<1> SUFFICES ASSUME CalendarInit PROVE CalendarInv
  OBVIOUS
<1>1. PICK year \in Years : dayNumber = DaysBefore(year) /\ civil = <<year, 1, 1>>
  BY DEF CalendarInit
<1>2. year \in Int
  BY CalendarAssumption
<1>3. Elapsed(year)[1] = 0 /\ MonthLengths(year)[1] = 31
  BY DEF Elapsed, MonthLengths
<1>4. dayNumber = DayOf(year, 1, 1)
  <2>1. DaysBefore(year) \in Int
    BY <1>2 DEF DaysBefore
  <2> QED
    BY <1>1, <1>3, <2>1 DEF DayOf
<1>5. 1 \in 1 .. 12 /\ 1 \in 1 .. MonthLengths(year)[1]
  BY <1>3
<1> QED
  BY <1>1, <1>2, <1>4, <1>5 DEF CalendarInv

LEMMA CalendarGoesOn == CalendarInv /\ [Tomorrow]_calendar => CalendarInv'
<1> SUFFICES ASSUME CalendarInv, [Tomorrow]_calendar PROVE CalendarInv'
  OBVIOUS
<1>1. CASE UNCHANGED calendar
  BY <1>1 DEF calendar, CalendarInv
<1>2. CASE Tomorrow
  <2>a. PICK year \in Int, month \in 1 .. 12 :
            \E day \in 1 .. MonthLengths(year)[month] :
                civil = <<year, month, day>> /\ dayNumber = DayOf(year, month, day)
    BY DEF CalendarInv
  <2>1. PICK day \in 1 .. MonthLengths(year)[month] :
            civil = <<year, month, day>> /\ dayNumber = DayOf(year, month, day)
    BY <2>a
  <2> DEFINE length == MonthLengths(year)[month]
  <2>2. /\ Elapsed(year)[month] \in Int /\ length \in 28 .. 31
        /\ month # 12 => Elapsed(year)[month + 1] = Elapsed(year)[month] + length
    BY MonthsFollow
  <2>3. civil[1] = year /\ civil[2] = month /\ civil[3] = day
    BY <2>1
  <2>4. /\ dayNumber' = dayNumber + 1 /\ civil # <<year, 12, 31>>
        /\ civil' = IF day < length THEN [civil EXCEPT ![3] = @ + 1] ELSE <<year, month + 1, 1>>
    BY <1>2, <2>3 DEF Tomorrow
  <2>5. DaysBefore(year) \in Int
    BY DEF DaysBefore
  <2> HIDE DEF length
  <2>6. CASE day < length
    <3>1. civil' = <<year, month, day + 1>>
      BY <2>1, <2>4, <2>6
    <3>2. day + 1 \in 1 .. MonthLengths(year)[month]
      BY <2>2, <2>6 DEF length
    <3>3. dayNumber' = DayOf(year, month, day + 1)
      BY <2>1, <2>2, <2>4, <2>5 DEF DayOf
    <3> QED
      BY <3>1, <3>2, <3>3 DEF CalendarInv
  <2>7. CASE ~(day < length)
    <3>1. day = length
      BY <2>2, <2>7 DEF length
    <3>2. month # 12
      <4> SUFFICES ASSUME month = 12 PROVE FALSE
        OBVIOUS
      <4>1. length = 31
        BY DEF length, MonthLengths
      <4> QED
        BY <2>1, <2>4, <3>1, <4>1
    <3>3. month + 1 \in 1 .. 12
      BY <3>2
    <3>4. civil' = <<year, month + 1, 1>>
      BY <2>4, <2>7
    <3>5. dayNumber' = DayOf(year, month + 1, 1)
      BY <2>1, <2>2, <2>4, <2>5, <3>1, <3>2 DEF DayOf
    <3>6. 1 \in 1 .. MonthLengths(year)[month + 1]
      <4>1. MonthLengths(year)[month + 1] \in 28 .. 31
        BY <3>3, MonthsFollow
      <4> QED
        BY <4>1
    <3> QED
      BY <3>3, <3>4, <3>5, <3>6 DEF CalendarInv
  <2> QED
    BY <2>6, <2>7
<1> QED
  BY <1>1, <1>2

LEMMA NumbersOfYears ==
    ASSUME NEW year \in Int, NEW month \in 1 .. 12, NEW day \in 1 .. MonthLengths(year)[month]
    PROVE  /\ DayOf(year, month, day) \in Int
           /\ year < 1970 => DayOf(year, month, day) < 0
           /\ year > 2097 => DayOf(year, month, day) > 46751
           /\ year <= 2097 => DayOf(year, month, day) <= 46751
<1>1. /\ Elapsed(year)[month] \in Int /\ MonthLengths(year)[month] \in 28 .. 31
      /\ Elapsed(year)[month] >= 0
      /\ Elapsed(year)[month] + MonthLengths(year)[month] <= 365 + Extra(year)
  BY MonthsFollow
<1>2. Extra(year) \in {0, 1} /\ (Extra(year) = 1 => year % 4 = 0)
  BY DEF Extra, Leap
<1>3. DayOf(year, month, day) = 365 * (year - 1970) + (year - 1969) \div 4 + Elapsed(year)[month] + day - 1
  BY DEF DayOf, DaysBefore
<1> DEFINE q == (year - 1969) \div 4
<1>4. q \in Int /\ 4 * q <= year - 1969 /\ year - 1969 < 4 * q + 4
  OBVIOUS
<1>5. DayOf(year, month, day) = 365 * (year - 1970) + q + Elapsed(year)[month] + day - 1
  BY <1>3
<1> HIDE DEF q
<1>6. day \in Int /\ 1 <= day /\ day <= MonthLengths(year)[month]
  BY <1>1
<1>7. DayOf(year, month, day) \in Int
  BY <1>1, <1>4, <1>5, <1>6
<1>8. year < 1970 => DayOf(year, month, day) < 0
  BY <1>1, <1>2, <1>4, <1>5, <1>6
<1>9. year > 2097 => DayOf(year, month, day) > 46751
  BY <1>1, <1>4, <1>5, <1>6
<1>10. year <= 2097 => DayOf(year, month, day) <= 46751
  BY <1>1, <1>2, <1>4, <1>5, <1>6
<1> QED
  BY <1>7, <1>8, <1>9, <1>10

LEMMA CoveredIsAsked ==
    ASSUME NEW year, NEW month, NEW day, Covered(year, month, day)
    PROVE  /\ Requested(year, month, day)
           /\ date(DayOf(year, month, day)) = <<year, month, day>>
<1>1. /\ year \in 1970 .. 2097 /\ month \in 1 .. 12 /\ year \in Int
      /\ day \in Int /\ 1 <= day /\ day <= MonthLengths(year)[month]
  BY DEF Covered
<1>3. is_valid_calendar_date(year, month, day)
  BY <1>1, LastDays
<1>5. Requested(year, month, day)
  BY <1>1, <1>3 DEF Requested
<1>6. date(DayOf(year, month, day)) = <<year, month, day>>
  BY DateIs
<1> QED
  BY <1>5, <1>6

\* The day after one that is covered.
LEMMA NextIsLater ==
    ASSUME NEW year, NEW month, NEW day, Covered(year, month, day),
           DayOf(year, month, day) < 46751
    PROVE  \E y, m, d : /\ Covered(y, m, d) /\ Earlier(year, month, day, y, m, d)
                        /\ DayOf(y, m, d) = DayOf(year, month, day) + 1
<1> DEFINE length == MonthLengths(year)[month]
<1>1. /\ year \in 1970 .. 2097 /\ month \in 1 .. 12 /\ year \in Int /\ month \in Int
      /\ day \in Int /\ 1 <= day /\ day <= length
  BY DEF Covered
<1>2. /\ length \in 28 .. 31 /\ Elapsed(year)[month] \in Int
      /\ month # 12 => Elapsed(year)[month + 1] = Elapsed(year)[month] + length
  BY <1>1, MonthsFollow
<1>3. DaysBefore(year) \in Int
  BY <1>1 DEF DaysBefore
<1>4. CASE day < length
  <2>1. Covered(year, month, day + 1)
    BY <1>1, <1>2, <1>4 DEF Covered
  <2>2. DayOf(year, month, day + 1) = DayOf(year, month, day) + 1
    BY <1>1, <1>2, <1>3 DEF DayOf
  <2>3. Earlier(year, month, day, year, month, day + 1)
    BY <1>1 DEF Earlier
  <2> QED
    BY <2>1, <2>2, <2>3
<1>5. CASE day = length /\ month # 12
  <2>0. month + 1 \in 1 .. 12
    BY <1>1, <1>5
  <2>4. MonthLengths(year)[month + 1] \in 28 .. 31
    BY <1>1, <2>0, MonthsFollow
  <2>1. Covered(year, month + 1, 1)
    BY <1>1, <2>0, <2>4 DEF Covered
  <2>2. DayOf(year, month + 1, 1) = DayOf(year, month, day) + 1
    BY <1>1, <1>2, <1>3, <1>5 DEF DayOf
  <2>3. Earlier(year, month, day, year, month + 1, 1)
    BY <1>1 DEF Earlier
  <2> QED
    BY <2>1, <2>2, <2>3
<1>6. CASE day = length /\ month = 12
  <2>1. /\ length = 31 /\ Elapsed(year)[month] = 334 + Extra(year)
        /\ Elapsed(year + 1)[1] = 0 /\ MonthLengths(year + 1)[1] = 31
    BY <1>6 DEF MonthLengths, Elapsed
  <2>2. Extra(year) = (IF year % 4 = 0 THEN 1 ELSE 0)
    <3>1. Leap(year) <=> year % 4 = 0
      BY <1>1 DEF Leap
    <3> QED
      BY <3>1 DEF Extra
  <2>3. DaysBefore(year + 1) = DaysBefore(year) + 365 + Extra(year)
    <3>1. (year + 1 - 1969) \div 4 = (year - 1969) \div 4 + (IF year % 4 = 0 THEN 1 ELSE 0)
      BY <1>1
    <3>2. (year - 1969) \div 4 \in Int
      BY <1>1
    <3> QED
      BY <1>1, <2>2, <3>1, <3>2 DEF DaysBefore
  <2>4. DayOf(year + 1, 1, 1) = DayOf(year, month, day) + 1
    BY <1>1, <1>3, <1>6, <2>1, <2>2, <2>3 DEF DayOf
  <2>5. year # 2097
    <3> SUFFICES ASSUME year = 2097 PROVE FALSE
      OBVIOUS
    <3>1. DaysBefore(year) = 46387 /\ Extra(year) = 0
      BY <2>2 DEF DaysBefore
    <3>2. DayOf(year, month, day) = 46751
      BY <1>6, <2>1, <3>1 DEF DayOf
    <3> QED
      BY <3>2
  <2>6. Covered(year + 1, 1, 1)
    BY <1>1, <2>1, <2>5 DEF Covered
  <2>7. Earlier(year, month, day, year + 1, 1, 1)
    BY <1>1 DEF Earlier
  <2> QED
    BY <2>4, <2>6, <2>7
<1> QED
  BY <1>1, <1>2, <1>4, <1>5, <1>6

LEMMA OtherDays ==
    ASSUME NEW n \in Int, n < 0 \/ n > 46751
    PROVE  date(n) = NoDate
<1>1. ~(0 <= n /\ n < 46752)
  OBVIOUS
<1> QED
  BY <1>1, SMTT(60) DEF date

LEMMA DatesOf == CalendarInv => DatesSurvive
<1> SUFFICES ASSUME CalendarInv PROVE DatesSurvive
  OBVIOUS
<1>a. PICK year \in Int, month \in 1 .. 12 :
          \E day \in 1 .. MonthLengths(year)[month] :
              civil = <<year, month, day>> /\ dayNumber = DayOf(year, month, day)
  BY DEF CalendarInv
<1>1. PICK day \in 1 .. MonthLengths(year)[month] :
          civil = <<year, month, day>> /\ dayNumber = DayOf(year, month, day)
  BY <1>a
<1>2. civil[1] = year /\ civil[2] = month /\ civil[3] = day /\ dayNumber \in Int
  BY <1>1, NumbersOfYears
<1>3. /\ MonthLengths(year)[month] \in 28 .. 31 /\ day \in Int
      /\ 1 <= day /\ day <= MonthLengths(year)[month]
  BY MonthsFollow
<1>t. Token(civil) = date_token(year, month, day)
  BY <1>2 DEF Token
<1>4. CASE year \in 1970 .. 2097
  <2>1. Covered(year, month, day)
    BY <1>3, <1>4 DEF Covered
  <2>2. Requested(year, month, day) /\ date(dayNumber) = civil
    BY <1>1, <2>1, CoveredIsAsked
  <2>3. /\ Token(civil) < 65536
        /\ civil = <<Token(civil) \div 512 + 1970, (Token(civil) \div 32) % 16, Token(civil) % 32>>
    BY <1>1, <1>t, <2>2, TokenTellsDate
  <2>4. ASSUME dayNumber < 46751 PROVE Token(civil) < Token(date(dayNumber + 1))
    <3>1. PICK y, m, d : /\ Covered(y, m, d) /\ Earlier(year, month, day, y, m, d)
                         /\ DayOf(y, m, d) = dayNumber + 1
      BY <1>1, <2>1, <2>4, NextIsLater
    <3>2. Requested(y, m, d) /\ date(dayNumber + 1) = <<y, m, d>>
      BY <3>1, CoveredIsAsked
    <3>3. Token(date(dayNumber + 1)) = date_token(y, m, d)
      BY <3>2 DEF Token
    <3> QED
      BY <1>t, <2>2, <3>1, <3>2, <3>3, TokensOrderDates
  <2>5. ASSUME date_token(civil[1], civil[2], civil[3] + 1) # -1
        PROVE  date(dayNumber + 1) = <<civil[1], civil[2], civil[3] + 1>>
    <3>1. is_valid_calendar_date(year, month, day + 1)
      BY <1>2, <2>5 DEF date_token
    <3>2. day + 1 <= MonthLengths(year)[month]
      BY <1>3, <3>1, LastDays
    <3>3. Covered(year, month, day + 1)
      BY <1>3, <1>4, <3>2 DEF Covered
    <3>4. DaysBefore(year) \in Int /\ Elapsed(year)[month] \in Int
      BY MonthsFollow DEF DaysBefore
    <3>5. DayOf(year, month, day + 1) = dayNumber + 1
      BY <1>1, <1>3, <3>4 DEF DayOf
    <3>6. date(DayOf(year, month, day + 1)) = <<year, month, day + 1>>
      BY <3>3, CoveredIsAsked
    <3> QED
      BY <1>2, <3>5, <3>6
  <2> QED
    BY <1>2, <1>4, <2>2, <2>3, <2>4, <2>5 DEF DatesSurvive
<1>5. CASE year \notin 1970 .. 2097
  <2>1. dayNumber < 0 \/ dayNumber > 46751
    BY <1>1, <1>5, NumbersOfYears
  <2>2. date(dayNumber) = NoDate
    BY <1>2, <2>1, OtherDays
  <2>3. Token(civil) = -1
    BY <1>t, <1>5 DEF date_token
  <2> QED
    BY <1>2, <1>5, <2>2, <2>3 DEF DatesSurvive
<1> QED
  BY <1>4, <1>5

\* Whatever years the calendar goes through, every day a history may be asked for is found
\* under its own date, which its token tells again, with a greater one on the next day, and
\* no other day is asked for (history.rs `date`, subscription.rs `date_token`).
THEOREM DatesAreTheDays == CalendarSpec => []DatesSurvive
<1>1. CalendarSpec => []CalendarInv
  BY CalendarStarts, CalendarGoesOn, PTL DEF CalendarSpec
<1> QED
  BY <1>1, DatesOf, PTL

------------------------------------------------------------------------------
(* Folds *)

LEMMA LeastNatural ==
    ASSUME NEW S \in SUBSET Nat, NEW n \in S
    PROVE  \E m \in S : \A j \in 0 .. m - 1 : j \notin S
<1>1. PICK m \in S : \A j \in S : ~(<<j, m>> \in OpToRel(<, Nat))
  BY NatLessThanWellFounded, WFMin
<1>2. \A j \in S : ~(j < m)
  BY <1>1 DEF OpToRel
<1>3. \A j \in 0 .. m - 1 : j \notin S
  BY <1>2
<1> QED
  BY <1>3

\* The greatest of numbers up to k that have k.
LEMMA MaxOfUpTo ==
    ASSUME NEW k \in Nat, NEW s \in SUBSET (1 .. k), k \in s
    PROVE  Max(s) = k
<1>1. \A y \in s : k >= y
  OBVIOUS
<1>2. \A x \in s : (\A y \in s : x >= y) => x = k
  OBVIOUS
<1>3. \E x \in s : \A y \in s : x >= y
  BY <1>1
<1>4. Max(s) \in s /\ \A y \in s : Max(s) >= y
  BY <1>3 DEF Max
<1> QED
  BY <1>2, <1>4

Iterates(X, b, n, G, it) ==
    /\ it \in [SUBSET (1 .. n) -> X]
    /\ \A s \in SUBSET (1 .. n) :
         it[s] = IF s = {} THEN b ELSE G[Max(s)][it[s \ {Max(s)}]]

\* A fold over 1 .. n has values: the function by which the community modules define it
\* is there, for every step G[i] from a value to a value.
LEMMA FoldExists ==
    ASSUME NEW X, NEW b \in X, NEW n \in Nat, NEW G \in [1 .. n -> [X -> X]]
    PROVE  \E it : Iterates(X, b, n, G, it)
<1> DEFINE Fits(k, it) ==
             \A s \in SUBSET (1 .. k) :
               it[s] = IF s = {} THEN b ELSE G[Max(s)][it[s \ {Max(s)}]]
           Bad == {k \in 0 .. n : ~\E it \in [SUBSET (1 .. k) -> X] : Fits(k, it)}
<1>0. SUFFICES ASSUME ~\E it \in [SUBSET (1 .. n) -> X] : Fits(n, it)
               PROVE  FALSE
  BY DEF Iterates
<1>1. n \in Bad
  <2>1. n \in 0 .. n
    OBVIOUS
  <2> QED
    BY <1>0, <2>1
<1>2. Bad \in SUBSET Nat
  OBVIOUS
<1>3. PICK k \in Bad : \A j \in 0 .. k - 1 : j \notin Bad
  <2> HIDE DEF Bad
  <2> QED
    BY <1>1, <1>2, LeastNatural
<1>4. CASE k = 0
  <2> DEFINE it == [s \in SUBSET (1 .. 0) |-> b]
  <2>1. \A s \in SUBSET (1 .. 0) : s = {}
    OBVIOUS
  <2>2. it \in [SUBSET (1 .. 0) -> X] /\ Fits(0, it)
    BY <2>1
  <2> QED
    BY <1>3, <1>4, <2>2
<1>5. CASE k # 0
  <2>1. k \in 1 .. n /\ k - 1 \in 0 .. k - 1 /\ k - 1 \in 0 .. n
    BY <1>3, <1>5
  <2>2. PICK ot \in [SUBSET (1 .. k - 1) -> X] : Fits(k - 1, ot)
    BY <1>3, <2>1
  <2> DEFINE it == [s \in SUBSET (1 .. k) |-> IF k \in s THEN G[k][ot[s \ {k}]] ELSE ot[s]]
  <2>3. ASSUME NEW s \in SUBSET (1 .. k)
        PROVE  /\ s \ {k} \in SUBSET (1 .. k - 1)
               /\ k \notin s => s \in SUBSET (1 .. k - 1)
    BY <2>1
  <2>4. G[k] \in [X -> X]
    BY <2>1
  <2>5. it \in [SUBSET (1 .. k) -> X]
    BY <2>2, <2>3, <2>4
  <2>6. ASSUME NEW s \in SUBSET (1 .. k)
        PROVE  it[s] = IF s = {} THEN b ELSE G[Max(s)][it[s \ {Max(s)}]]
    <3>1. CASE k \in s
      <4>1. Max(s) = k
        BY <2>1, <3>1, MaxOfUpTo
      <4>2. it[s] = G[k][ot[s \ {k}]]
        BY <3>1
      <4>3. s \ {k} \in SUBSET (1 .. k) /\ k \notin s \ {k}
        OBVIOUS
      <4>4. it[s \ {k}] = ot[s \ {k}]
        BY <4>3
      <4> QED
        BY <3>1, <4>1, <4>2, <4>4
    <3>2. CASE k \notin s
      <4>1. s \in SUBSET (1 .. k - 1) /\ it[s] = ot[s]
        BY <2>3, <3>2
      <4>2. ot[s] = IF s = {} THEN b ELSE G[Max(s)][ot[s \ {Max(s)}]]
        BY <2>2, <4>1
      <4>3. k \notin s \ {Max(s)} /\ s \ {Max(s)} \in SUBSET (1 .. k)
        BY <3>2
      <4>4. it[s \ {Max(s)}] = ot[s \ {Max(s)}]
        BY <4>3
      <4> QED
        BY <4>1, <4>2, <4>4
    <3> QED
      BY <3>1, <3>2
  <2>7. Fits(k, it)
    BY <2>6
  <2> QED
    BY <1>3, <2>5, <2>7
<1> QED
  BY <1>4, <1>5

\* Induction over positions, for a set of them.
LEMMA EveryPosition ==
    ASSUME NEW n \in Nat, NEW S, 0 \in S, \A k \in 1 .. n : k - 1 \in S => k \in S
    PROVE  \A k \in 0 .. n : k \in S
<1> DEFINE Bad == {k \in 0 .. n : k \notin S}
<1>1. SUFFICES ASSUME NEW i \in Bad
               PROVE  FALSE
  OBVIOUS
<1>2. Bad \in SUBSET Nat
  OBVIOUS
<1>3. PICK k \in Bad : \A j \in 0 .. k - 1 : j \notin Bad
  <2> HIDE DEF Bad
  <2> QED
    BY <1>1, <1>2, LeastNatural
<1>4. k # 0 /\ k \in 1 .. n /\ k - 1 \in 0 .. k - 1 /\ k - 1 \in 0 .. n
  BY <1>3
<1> QED
  BY <1>3, <1>4

LEMMA MaxIsIn ==
    ASSUME NEW n \in Nat, NEW d \in SUBSET (1 .. n), d # {}
    PROVE  Max(d) \in d
<1> DEFINE S == {k \in Nat : \A j \in d : j <= k}
<1>1. S \in SUBSET Nat /\ n \in S
  OBVIOUS
<1>2. PICK m \in S : \A j \in 0 .. m - 1 : j \notin S
  <2> HIDE DEF S
  <2> QED
    BY <1>1, LeastNatural
<1>3. m \in d
  <2>1. SUFFICES ASSUME m \notin d
                 PROVE  FALSE
    OBVIOUS
  <2>2. \A j \in d : j <= m - 1 /\ j \in Nat \ {0}
    BY <1>2, <2>1
  <2>3. PICK e \in d : TRUE
    OBVIOUS
  <2>4. e <= m - 1 /\ e \in Nat \ {0} /\ m \in Nat
    BY <1>2, <2>2, <2>3
  <2>5. m - 1 \in 0 .. m - 1 /\ m - 1 \in Nat
    BY <2>4
  <2> QED
    BY <1>2, <2>2, <2>5
<1>4. \A j \in d : m >= j
  BY <1>2
<1>5. \E x \in d : \A y \in d : x >= y
  BY <1>3, <1>4
<1> QED
  BY <1>5 DEF Max

\* The values of a fold that starts at b, for every set of the positions 1 .. n.
FoldValues(X, b, n, G, it) ==
    /\ it \in [SUBSET (1 .. n) -> X]
    /\ it[{}] = b
    /\ \A d \in SUBSET (1 .. n) :
         d # {} => /\ Max(d) \in 1 .. n /\ d \ {Max(d)} \in SUBSET (1 .. n)
                   /\ it[d \ {Max(d)}] \in X
                   /\ it[d] = G[Max(d)][it[d \ {Max(d)}]]

HasFold(X, b, n, G) == \E it : FoldValues(X, b, n, G, it)

LEMMA FoldThere ==
    ASSUME NEW X, NEW b \in X, NEW n \in Nat, NEW G \in [1 .. n -> [X -> X]]
    PROVE  HasFold(X, b, n, G)
<1>1. PICK it \in [SUBSET (1 .. n) -> X] :
        \A s \in SUBSET (1 .. n) :
          it[s] = IF s = {} THEN b ELSE G[Max(s)][it[s \ {Max(s)}]]
  <2>1. PICK it : Iterates(X, b, n, G, it)
    BY FoldExists
  <2> QED
    BY <2>1 DEF Iterates
<1>2. it[{}] = b
  BY <1>1
<1>3. ASSUME NEW d \in SUBSET (1 .. n), d # {}
      PROVE  /\ Max(d) \in 1 .. n /\ d \ {Max(d)} \in SUBSET (1 .. n)
             /\ it[d \ {Max(d)}] \in X
             /\ it[d] = G[Max(d)][it[d \ {Max(d)}]]
  <2>1. Max(d) \in d
    BY <1>3, MaxIsIn
  <2>2. d \ {Max(d)} \in SUBSET (1 .. n)
    OBVIOUS
  <2>3. it[d \ {Max(d)}] \in X
    BY <1>1, <2>2
  <2>4. it[d] = G[Max(d)][it[d \ {Max(d)}]]
    BY <1>1, <1>3
  <2> QED
    BY <2>1, <2>2, <2>3, <2>4
<1>4. FoldValues(X, b, n, G, it)
  BY <1>1, <1>2, <1>3 DEF FoldValues
<1> QED
  BY <1>4 DEF HasFold

\* Folding position by position stays in a set that no step leaves.
LEMMA FoldStays ==
    ASSUME NEW X, NEW n \in Nat, NEW it, it[{}] \in X,
           \A k \in 1 .. n : it[(1 .. k) \ {Max(1 .. k)}] \in X => it[1 .. k] \in X
    PROVE  it[1 .. n] \in X
<1> DEFINE S == {k \in 0 .. n : it[1 .. k] \in X}
<1>1. 1 .. 0 = {} /\ 0 \in S
  <2>1. 1 .. 0 = {}
    OBVIOUS
  <2> QED
    BY <2>1
<1>2. ASSUME NEW k \in 1 .. n, k - 1 \in S
      PROVE  k \in S
  <2>1. Max(1 .. k) = k
    BY MaxOfUpTo
  <2>2. (1 .. k) \ {k} = 1 .. k - 1
    OBVIOUS
  <2>3. it[1 .. k] \in X
    BY <1>2, <2>1, <2>2
  <2> QED
    BY <2>3
<1>3. \A k \in 0 .. n : k \in S
  <2> HIDE DEF S
  <2> QED
    BY <1>1, <1>2, EveryPosition
<1> QED
  BY <1>3

KeepIter(s, S, it) ==
    it = [d \in SUBSET (DOMAIN s) |->
            IF d = {} THEN <<>>
            ELSE IF s[Max(d)] \in S THEN Append(it[d \ {Max(d)}], s[Max(d)])
                 ELSE it[d \ {Max(d)}]]

LEMMA OnlyIsFold ==
    ASSUME NEW s, NEW S, NEW jt, KeepIter(s, S, jt)
    PROVE  \E it : KeepIter(s, S, it) /\ Only(s, S) = it[DOMAIN s]
<1>1. Only(s, S) = (CHOOSE it : KeepIter(s, S, it))[DOMAIN s]
  BY Zenon DEF Only, FoldLeft, MapThenFoldSet, KeepIter
<1>2. KeepIter(s, S, CHOOSE it : KeepIter(s, S, it))
  OBVIOUS
<1> QED
  BY <1>1, <1>2

\* What `Only` keeps.
LEMMA OnlyKeeps ==
    ASSUME NEW Y, NEW S, NEW s \in Seq(Y)
    PROVE  Only(s, S) \in Seq(S \intersect {s[i] : i \in 1 .. Len(s)})
<1> DEFINE n == Len(s)
           K == S \intersect {s[i] : i \in 1 .. n}
           X == Seq(K)
           G == [i \in 1 .. n |-> [x \in X |-> IF s[i] \in S THEN Append(x, s[i]) ELSE x]]
<1>1. n \in Nat /\ DOMAIN s = 1 .. n /\ <<>> \in X
  BY EmptySeq
<1>2. ASSUME NEW x \in X, NEW i \in 1 .. n
      PROVE  (IF s[i] \in S THEN Append(x, s[i]) ELSE x) \in X
  <2>1. CASE s[i] \in S
    <3>1. s[i] \in K
      BY <2>1
    <3>2. Append(x, s[i]) \in X
      BY <3>1, AppendProperties
    <3> QED
      BY <2>1, <3>2
  <2> QED
    BY <2>1
<1>3. HasFold(X, <<>>, n, G)
  <2>1. G \in [1 .. n -> [X -> X]]
    BY <1>2
  <2> HIDE DEF G, n, X
  <2> QED
    BY <1>1, <2>1, FoldThere
<1>4. PICK jt : FoldValues(X, <<>>, n, G, jt)
  BY <1>3 DEF HasFold
<1>5. KeepIter(s, S, jt)
  <2>1. jt \in [SUBSET (DOMAIN s) -> X]
    BY <1>1, <1>4 DEF FoldValues
  <2>2. ASSUME NEW d \in SUBSET (DOMAIN s)
        PROVE  jt[d] = IF d = {} THEN <<>>
                       ELSE IF s[Max(d)] \in S THEN Append(jt[d \ {Max(d)}], s[Max(d)])
                            ELSE jt[d \ {Max(d)}]
    <3>1. CASE d = {}
      BY <1>4, <3>1 DEF FoldValues
    <3>2. CASE d # {}
      <4>1. /\ Max(d) \in 1 .. n /\ jt[d \ {Max(d)}] \in X
            /\ jt[d] = G[Max(d)][jt[d \ {Max(d)}]]
        BY <1>1, <1>4, <3>2 DEF FoldValues
      <4> QED
        BY <3>2, <4>1
    <3> QED
      BY <3>1, <3>2
  <2> QED
    BY <2>1, <2>2 DEF KeepIter
<1>6. PICK it : KeepIter(s, S, it) /\ Only(s, S) = it[DOMAIN s]
  <2> HIDE DEF G, n, X
  <2> QED
    BY <1>5, OnlyIsFold
<1>7. it[{}] = <<>>
  BY <1>6 DEF KeepIter
<1>8. ASSUME NEW k \in 1 .. n, it[(1 .. k) \ {Max(1 .. k)}] \in X
      PROVE  it[1 .. k] \in X
  <2>1. Max(1 .. k) = k
    BY MaxOfUpTo
  <2>2. 1 .. k \in SUBSET (DOMAIN s) /\ 1 .. k # {}
    <3>1. 1 \in 1 .. k /\ 1 .. k \subseteq 1 .. n
      OBVIOUS
    <3> QED
      BY <1>1, <3>1
  <2>3. it[1 .. k] = IF s[k] \in S THEN Append(it[(1 .. k) \ {k}], s[k])
                     ELSE it[(1 .. k) \ {k}]
    BY <1>6, <2>1, <2>2 DEF KeepIter
  <2> QED
    BY <1>2, <1>8, <2>1, <2>3
<1>9. it[1 .. n] \in X
  <2> HIDE DEF G, n, X
  <2> QED
    BY <1>1, <1>7, <1>8, FoldStays
<1> QED
  BY <1>1, <1>6, <1>9

Routed == [address : Valid, learned : BOOLEAN]

WithIter(rs, names, learned, it) ==
    it = [d \in SUBSET (DOMAIN names) |->
            IF d = {} THEN rs
            ELSE IF Known(it[d \ {Max(d)}], names[Max(d)]) THEN it[d \ {Max(d)}]
                 ELSE Append(it[d \ {Max(d)}], Route(names[Max(d)], learned))]

LEMMA WithRoutesIsFold ==
    ASSUME NEW rs, NEW names, NEW learned, NEW jt, WithIter(rs, names, learned, jt)
    PROVE  \E it : /\ WithIter(rs, names, learned, it)
                   /\ WithRoutes(rs, names, learned) = it[DOMAIN names]
<1>1. WithRoutes(rs, names, learned)
        = (CHOOSE it : WithIter(rs, names, learned, it))[DOMAIN names]
  BY Zenon DEF WithRoutes, FoldLeft, MapThenFoldSet, WithIter
<1>2. WithIter(rs, names, learned, CHOOSE it : WithIter(rs, names, learned, it))
  OBVIOUS
<1> QED
  BY <1>1, <1>2

\* The routes that begin with rs and go on with learned ones, or with seeds.
Beyond(rs, learned) ==
    {x \in Seq(Routed) :
        /\ Len(rs) <= Len(x)
        /\ \A i \in 1 .. Len(rs) : x[i] = rs[i]
        /\ \A i \in Len(rs) + 1 .. Len(x) : x[i].learned = learned}

\* Routes that are known keep their place.
LEMMA WithRoutesKeeps ==
    ASSUME NEW rs \in Seq(Routed), NEW names \in Seq(Valid), NEW learned \in BOOLEAN
    PROVE  WithRoutes(rs, names, learned) \in Beyond(rs, learned)
<1> DEFINE n == Len(names)
           X == Beyond(rs, learned)
           Step(x, i) == IF Known(x, names[i]) THEN x ELSE Append(x, Route(names[i], learned))
           G == [i \in 1 .. n |-> [x \in X |-> Step(x, i)]]
<1>1. n \in Nat /\ DOMAIN names = 1 .. n /\ rs \in X
  <2>1. rs \in X
    BY DEF Beyond
  <2> QED
    BY <2>1
<1>2. ASSUME NEW x \in X, NEW i \in 1 .. n
      PROVE  Step(x, i) \in X
  <2> DEFINE r == Route(names[i], learned)
  <2>1. r \in Routed /\ r.learned = learned
    BY DEF Routed, Route
  <2>2. x \in Seq(Routed)
    BY DEF Beyond
  <2>3. /\ Append(x, r) \in Seq(Routed)
        /\ Len(Append(x, r)) = Len(x) + 1
        /\ \A j \in 1 .. Len(x) : Append(x, r)[j] = x[j]
        /\ Append(x, r)[Len(x) + 1] = r
    <3> HIDE DEF r
    <3> QED
      BY <2>1, <2>2, AppendProperties
  <2>4. Append(x, r) \in X
    <3> HIDE DEF r
    <3>1. Len(x) \in Nat /\ Len(rs) \in Nat /\ Len(rs) <= Len(x)
      BY <2>2 DEF Beyond
    <3>2. \A j \in 1 .. Len(rs) : Append(x, r)[j] = rs[j]
      BY <2>3, <3>1 DEF Beyond
    <3>3. ASSUME NEW j \in Len(rs) + 1 .. Len(Append(x, r))
          PROVE  Append(x, r)[j].learned = learned
      <4>0. Len(Append(x, r)) = Len(x) + 1
        BY <2>3
      <4>1. j = Len(x) + 1 \/ (j \in Len(rs) + 1 .. Len(x) /\ j \in 1 .. Len(x))
        BY <3>1, <4>0
      <4> QED
        BY <2>1, <2>3, <4>1 DEF Beyond
    <3>4. Len(rs) <= Len(Append(x, r))
      BY <2>3, <3>1
    <3> QED
      BY <2>3, <3>2, <3>3, <3>4 DEF Beyond
  <2> QED
    BY <2>4
<1> HIDE DEF Step, X
<1>3. HasFold(X, rs, n, G)
  <2>1. G \in [1 .. n -> [X -> X]]
    BY <1>2
  <2> HIDE DEF G, n
  <2> QED
    BY <1>1, <2>1, FoldThere
<1>4. PICK jt : FoldValues(X, rs, n, G, jt)
  BY <1>3 DEF HasFold
<1>5. WithIter(rs, names, learned, jt)
  <2>1. jt \in [SUBSET (DOMAIN names) -> X]
    BY <1>1, <1>4 DEF FoldValues
  <2>2. ASSUME NEW d \in SUBSET (DOMAIN names)
        PROVE  jt[d] = IF d = {} THEN rs ELSE Step(jt[d \ {Max(d)}], Max(d))
    <3>1. CASE d = {}
      BY <1>4, <3>1 DEF FoldValues
    <3>2. CASE d # {}
      <4>1. /\ Max(d) \in 1 .. n /\ jt[d \ {Max(d)}] \in X
            /\ jt[d] = G[Max(d)][jt[d \ {Max(d)}]]
        BY <1>1, <1>4, <3>2 DEF FoldValues
      <4> QED
        BY <3>2, <4>1
    <3> QED
      BY <3>1, <3>2
  <2> QED
    BY <2>1, <2>2 DEF WithIter, Step
<1>6. PICK it : /\ WithIter(rs, names, learned, it)
                /\ WithRoutes(rs, names, learned) = it[DOMAIN names]
  BY <1>5, WithRoutesIsFold
<1>7. it[{}] = rs
  BY <1>6 DEF WithIter
<1>8. ASSUME NEW k \in 1 .. n, it[(1 .. k) \ {Max(1 .. k)}] \in X
      PROVE  it[1 .. k] \in X
  <2>1. Max(1 .. k) = k
    BY MaxOfUpTo
  <2>2. 1 .. k \in SUBSET (DOMAIN names) /\ 1 .. k # {}
    <3>1. 1 \in 1 .. k /\ 1 .. k \subseteq 1 .. n
      OBVIOUS
    <3> QED
      BY <1>1, <3>1
  <2>3. it[1 .. k] = Step(it[(1 .. k) \ {k}], k)
    BY <1>6, <2>1, <2>2 DEF WithIter, Step
  <2> QED
    BY <1>2, <1>8, <2>1, <2>3
<1>9. it[1 .. n] \in X
  <2> HIDE DEF n
  <2> QED
    BY <1>1, <1>7, <1>8, FoldStays
<1> QED
  BY <1>1, <1>6, <1>9 DEF X

FlatIter(seqs, f) ==
    f = [i \in 1 .. Len(seqs) |-> IF i = 1 THEN seqs[i] ELSE f[i - 1] \o seqs[i]]

LEMMA FlattenIsFunction ==
    ASSUME NEW seqs, NEW g, FlatIter(seqs, g), Len(seqs) # 0
    PROVE  \E f : FlatIter(seqs, f) /\ FlattenSeq(seqs) = f[Len(seqs)]
<1>1. FlattenSeq(seqs) = (CHOOSE f : FlatIter(seqs, f))[Len(seqs)]
  BY Zenon DEF FlattenSeq, FlatIter
<1>2. FlatIter(seqs, CHOOSE f : FlatIter(seqs, f))
  OBVIOUS
<1> QED
  BY <1>1, <1>2

\* Sequences end to end have no elements but theirs.
LEMMA FlattenKeeps ==
    ASSUME NEW P, NEW n \in Nat \ {0}, NEW seqs \in [1 .. n -> Seq(P)]
    PROVE  FlattenSeq(seqs) \in Seq(P)
<1> DEFINE X == Seq(P)
           G == [i \in 1 .. n |-> [x \in X |-> x \o seqs[i]]]
<1>1. <<>> \in X /\ \A i \in 1 .. n : seqs[i] \in X
  BY EmptySeq
<1>2. Len(seqs) = n
  <2>1. DOMAIN seqs = 1 .. n /\ seqs \in Seq(X)
    BY SeqDef
  <2> QED
    BY <2>1, LenProperties
<1>3. ASSUME NEW x \in X, NEW i \in 1 .. n
      PROVE  x \o seqs[i] \in X
  BY <1>1, ConcatProperties
<1>4. HasFold(X, <<>>, n, G)
  <2>1. G \in [1 .. n -> [X -> X]]
    BY <1>3
  <2> HIDE DEF G, X
  <2> QED
    BY <1>1, <2>1, FoldThere
<1>5. PICK it : FoldValues(X, <<>>, n, G, it)
  BY <1>4 DEF HasFold
<1> DEFINE g == [i \in 1 .. n |-> it[1 .. i]]
<1>6. ASSUME NEW i \in 1 .. n
      PROVE  it[1 .. i] = IF i = 1 THEN seqs[i] ELSE it[1 .. i - 1] \o seqs[i]
  <2>0. i \in Nat /\ i \in 1 .. i /\ 1 .. i \in SUBSET (1 .. i)
    OBVIOUS
  <2>1. Max(1 .. i) = i
    BY <2>0, MaxOfUpTo
  <2>2. 1 .. i \in SUBSET (1 .. n) /\ 1 .. i # {} /\ (1 .. i) \ {i} = 1 .. i - 1
    <3>1. 1 \in 1 .. i /\ 1 .. i \subseteq 1 .. n
      OBVIOUS
    <3>2. (1 .. i) \ {i} = 1 .. i - 1
      OBVIOUS
    <3> QED
      BY <3>1, <3>2
  <2>3. it[1 .. i] = G[i][it[1 .. i - 1]] /\ it[1 .. i - 1] \in X
    <3> HIDE DEF G
    <3> QED
      BY <1>5, <2>1, <2>2 DEF FoldValues
  <2>4. it[1 .. i] = it[1 .. i - 1] \o seqs[i]
    BY <2>3
  <2>5. CASE i = 1
    <3>1. 1 .. 0 = {}
      OBVIOUS
    <3>2. it[1 .. i - 1] = <<>>
      BY <1>5, <2>5, <3>1 DEF FoldValues
    <3>3. <<>> \o seqs[i] = seqs[i]
      BY <1>1, ConcatEmptySeq
    <3> QED
      BY <2>4, <2>5, <3>2, <3>3
  <2> QED
    BY <2>4, <2>5
<1>7. FlatIter(seqs, g)
  <2>1. \A i \in 1 .. n : i # 1 => i - 1 \in 1 .. n
    OBVIOUS
  <2> QED
    BY <1>2, <1>6, <2>1 DEF FlatIter
<1>8. PICK f : FlatIter(seqs, f) /\ FlattenSeq(seqs) = f[n]
  <2> HIDE DEF g
  <2> QED
    BY <1>2, <1>7, FlattenIsFunction
<1> DEFINE S == {0} \union {k \in 1 .. n : f[k] \in X}
<1>9. ASSUME NEW k \in 1 .. n, k - 1 \in S
      PROVE  k \in S
  <2>1. f[k] = IF k = 1 THEN seqs[k] ELSE f[k - 1] \o seqs[k]
    BY <1>2, <1>8 DEF FlatIter
  <2>2. CASE k = 1
    BY <1>1, <2>1, <2>2
  <2>3. CASE k # 1
    <3>1. f[k - 1] \in X
      BY <1>9, <2>3
    <3> QED
      BY <1>3, <2>1, <2>3, <3>1
  <2> QED
    BY <2>2, <2>3
<1>10. \A k \in 0 .. n : k \in S
  <2>1. 0 \in S
    OBVIOUS
  <2> HIDE DEF S
  <2> QED
    BY <1>9, <2>1, EveryPosition
<1>11. n \in 0 .. n /\ n # 0
  OBVIOUS
<1>12. f[n] \in X
  BY <1>10, <1>11
<1> QED
  BY <1>8, <1>12

TargetIter(s, first, it) ==
    it = [d \in SUBSET (DOMAIN s) |->
            IF d = {} THEN first
            ELSE IF Len(it[d \ {Max(d)}]) < MaxTargets /\ ~Contains(it[d \ {Max(d)}], s[Max(d)])
                 THEN Append(it[d \ {Max(d)}], s[Max(d)])
                 ELSE it[d \ {Max(d)}]]

First == IF lastPeer = NoPeer THEN <<>> ELSE <<lastPeer>>

LEMMA TargetsIsFold ==
    ASSUME NEW found, NEW jt, TargetIter(FlattenSeq(found), First, jt)
    PROVE  \E it : /\ TargetIter(FlattenSeq(found), First, it)
                   /\ Targets(found) = it[DOMAIN FlattenSeq(found)]
<1>1. Targets(found)
        = (CHOOSE it : TargetIter(FlattenSeq(found), First, it))[DOMAIN FlattenSeq(found)]
  BY Zenon DEF Targets, FoldLeft, MapThenFoldSet, TargetIter, First
<1>2. TargetIter(FlattenSeq(found), First,
                 CHOOSE it : TargetIter(FlattenSeq(found), First, it))
  OBVIOUS
<1> QED
  BY <1>1, <1>2

\* The targets are the last peer and peers found, and no more than the limit.
LEMMA TargetsKeep ==
    ASSUME NEW P, NEW found, FlattenSeq(found) \in Seq(P), First \in Seq(P),
           MaxTargets \in Nat \ {0}
    PROVE  Targets(found) \in Seq(P) /\ Len(Targets(found)) <= MaxTargets
<1> DEFINE s == FlattenSeq(found)
           n == Len(s)
           X == {x \in Seq(P) : Len(x) <= MaxTargets}
           Step(x, i) == IF Len(x) < MaxTargets /\ ~Contains(x, s[i]) THEN Append(x, s[i]) ELSE x
           G == [i \in 1 .. n |-> [x \in X |-> Step(x, i)]]
<1>1. n \in Nat /\ DOMAIN s = 1 .. n /\ First \in X /\ \A i \in 1 .. n : s[i] \in P
  <2>1. Len(First) <= 1
    BY DEF First
  <2>2. Len(First) \in Nat
    OBVIOUS
  <2>3. First \in X
    BY <2>1, <2>2
  <2> QED
    BY <2>3
<1>2. ASSUME NEW x \in X, NEW i \in 1 .. n
      PROVE  Step(x, i) \in X
  <2>1. CASE Len(x) < MaxTargets
    <3>1. Append(x, s[i]) \in Seq(P) /\ Len(Append(x, s[i])) = Len(x) + 1
      <4> HIDE DEF s
      <4> QED
        BY <1>1, AppendProperties
    <3>2. Len(x) \in Nat
      OBVIOUS
    <3>3. Append(x, s[i]) \in X
      BY <2>1, <3>1, <3>2
    <3> QED
      BY <3>3
  <2> QED
    BY <2>1
<1> HIDE DEF Step, X
<1>3. HasFold(X, First, n, G)
  <2>1. G \in [1 .. n -> [X -> X]]
    BY <1>2
  <2> HIDE DEF G, n
  <2> QED
    BY <1>1, <2>1, FoldThere
<1>4. PICK jt : FoldValues(X, First, n, G, jt)
  BY <1>3 DEF HasFold
<1>5. TargetIter(s, First, jt)
  <2>1. jt \in [SUBSET (DOMAIN s) -> X]
    BY <1>1, <1>4 DEF FoldValues
  <2>2. ASSUME NEW d \in SUBSET (DOMAIN s)
        PROVE  jt[d] = IF d = {} THEN First ELSE Step(jt[d \ {Max(d)}], Max(d))
    <3>1. CASE d = {}
      BY <1>4, <3>1 DEF FoldValues
    <3>2. CASE d # {}
      <4>1. /\ Max(d) \in 1 .. n /\ jt[d \ {Max(d)}] \in X
            /\ jt[d] = G[Max(d)][jt[d \ {Max(d)}]]
        BY <1>1, <1>4, <3>2 DEF FoldValues
      <4> QED
        BY <3>2, <4>1
    <3> QED
      BY <3>1, <3>2
  <2> HIDE DEF s
  <2> QED
    BY <2>1, <2>2 DEF TargetIter, Step
<1>6. PICK it : TargetIter(s, First, it) /\ Targets(found) = it[DOMAIN s]
  BY <1>5, TargetsIsFold
<1>7. it[{}] = First
  BY <1>6 DEF TargetIter
<1>8. ASSUME NEW k \in 1 .. n, it[(1 .. k) \ {Max(1 .. k)}] \in X
      PROVE  it[1 .. k] \in X
  <2>1. Max(1 .. k) = k
    BY MaxOfUpTo
  <2>2. 1 .. k \in SUBSET (DOMAIN s) /\ 1 .. k # {}
    <3>1. 1 \in 1 .. k /\ 1 .. k \subseteq 1 .. n
      OBVIOUS
    <3> QED
      BY <1>1, <3>1
  <2>3. it[1 .. k] = Step(it[(1 .. k) \ {k}], k)
    <3> HIDE DEF s
    <3> QED
      BY <1>6, <2>1, <2>2 DEF TargetIter, Step
  <2> QED
    BY <1>2, <1>8, <2>1, <2>3
<1>9. it[1 .. n] \in X
  <2> HIDE DEF n
  <2> QED
    BY <1>1, <1>7, <1>8, FoldStays
<1> QED
  BY <1>1, <1>6, <1>9 DEF X

------------------------------------------------------------------------------
(* Private peers *)

SeedsOf(rs) == {rs[i].address : i \in {j \in DOMAIN rs : ~rs[j].learned}}

LedTo(S, p) == \E s \in S : \E found \in Lookup(s) : Contains(found, p)

\* The peers that may be dialled while the routes are these.
Permitted(S) == {p \in Peers \union {NoPeer} : p \in Private => LedTo(S, p)}

\* What is about to be dialled, is connected, or will be dialled first is allowed;
\* it stays so as seeds are never dropped.
PoolInv ==
    /\ routes \in Seq(Routed) /\ Len(routes) \in 1 .. MaxRoutes
    /\ targets \in Seq(Permitted(Seeds) \ {NoPeer}) /\ Len(targets) <= MaxTargets
    /\ lastPeer \in Permitted(Seeds) /\ peer \in Permitted(Seeds)

LEMMA AllowedGrows ==
    ASSUME NEW S, NEW T, S \subseteq T
    PROVE  /\ Permitted(S) \subseteq Permitted(T)
           /\ Seq(Permitted(S) \ {NoPeer}) \subseteq Seq(Permitted(T) \ {NoPeer})
<1>1. Permitted(S) \subseteq Permitted(T)
  BY DEF Permitted, LedTo
<1>2. Permitted(S) \ {NoPeer} \subseteq Permitted(T) \ {NoPeer}
  BY <1>1
<1> QED
  BY <1>1, <1>2, SeqMonotonic

\* Routes that begin with rs, and such routes cut short behind it, have its seeds.
LEMMA PrefixKeepsSeeds ==
    ASSUME NEW rs \in Seq(Routed), NEW more \in Seq(Routed), Len(rs) <= Len(more),
           \A i \in 1 .. Len(rs) : more[i] = rs[i]
    PROVE  SeedsOf(rs) \subseteq SeedsOf(more)
<1>1. DOMAIN rs = 1 .. Len(rs) /\ DOMAIN more = 1 .. Len(more)
  BY LenProperties
<1>2. Len(rs) \in Nat /\ Len(more) \in Nat
  OBVIOUS
<1>3. ASSUME NEW i \in DOMAIN rs, ~rs[i].learned
      PROVE  i \in DOMAIN more /\ more[i] = rs[i]
  BY <1>1, <1>2
<1> QED
  BY <1>3 DEF SeedsOf

LEMMA RotatedKeeps ==
    ASSUME routes \in Seq(Routed), Len(routes) \in 1 .. MaxRoutes
    PROVE  /\ RotatedLeft \in Seq(Routed) /\ Len(RotatedLeft) = Len(routes)
           /\ SeedsOf(routes) \subseteq SeedsOf(RotatedLeft)
<1> DEFINE n == Len(routes)
           t == Tail(routes)
<1>1. routes # <<>> /\ n \in Nat \ {0} /\ DOMAIN routes = 1 .. n
  BY LenProperties, EmptySeq
<1>2. /\ Head(routes) \in Routed /\ t \in Seq(Routed) /\ Len(t) = n - 1
      /\ \A i \in 1 .. n - 1 : t[i] = routes[i + 1]
  BY <1>1, HeadTailProperties
<1>3. Head(routes) = routes[1]
  BY <1>1
<1> HIDE DEF t
<1>4. RotatedLeft = Append(t, routes[1])
  BY <1>3 DEF RotatedLeft, t
<1>5. routes[1] \in Routed
  BY <1>2, <1>3
<1>6. /\ RotatedLeft \in Seq(Routed) /\ Len(RotatedLeft) = n - 1 + 1
      /\ \A i \in 1 .. n - 1 : RotatedLeft[i] = t[i]
      /\ RotatedLeft[n - 1 + 1] = routes[1]
  BY <1>2, <1>4, <1>5, AppendProperties
<1>7. Len(RotatedLeft) = n /\ RotatedLeft[n] = routes[1] /\ DOMAIN RotatedLeft = 1 .. n
  <2>1. n - 1 + 1 = n
    BY <1>1
  <2> QED
    BY <1>6, <2>1, LenProperties
<1>8. ASSUME NEW i \in 1 .. n
      PROVE  \E j \in 1 .. n : RotatedLeft[j] = routes[i]
  <2>1. CASE i = 1
    BY <1>1, <1>7, <2>1
  <2>2. CASE i # 1
    <3>1. i - 1 \in 1 .. n - 1 /\ i - 1 \in 1 .. n /\ i - 1 + 1 = i
      BY <1>1, <2>2
    <3>2. RotatedLeft[i - 1] = routes[i]
      BY <1>2, <1>6, <3>1
    <3> QED
      BY <3>1, <3>2
  <2> QED
    BY <2>1, <2>2
<1>9. SeedsOf(routes) \subseteq SeedsOf(RotatedLeft)
  <2>1. SUFFICES ASSUME NEW a \in SeedsOf(routes)
                 PROVE  a \in SeedsOf(RotatedLeft)
    OBVIOUS
  <2>2. PICK i \in 1 .. n : ~routes[i].learned /\ a = routes[i].address
    BY <1>1, <2>1 DEF SeedsOf
  <2>3. PICK j \in 1 .. n : RotatedLeft[j] = routes[i]
    BY <1>8
  <2> QED
    BY <1>7, <2>2, <2>3 DEF SeedsOf
<1> QED
  BY <1>6, <1>7, <1>9

LEMMA LearnKeeps ==
    ASSUME NEW names \in Seq(HostNames), routes \in Seq(Routed), Len(routes) \in 1 .. MaxRoutes
    PROVE  /\ Learn(names) \in Seq(Routed) /\ Len(Learn(names)) \in 1 .. MaxRoutes
           /\ SeedsOf(routes) \subseteq SeedsOf(Learn(names))
<1> DEFINE fit == Only(names, Valid)
           all == WithRoutes(routes, fit, TRUE)
           n == IF Len(all) < MaxRoutes THEN Len(all) ELSE MaxRoutes
<1>1. fit \in Seq(Valid)
  <2>1. fit \in Seq(Valid \intersect {names[i] : i \in 1 .. Len(names)})
    BY OnlyKeeps
  <2>2. Valid \intersect {names[i] : i \in 1 .. Len(names)} \subseteq Valid
    OBVIOUS
  <2> HIDE DEF fit
  <2> QED
    BY <2>1, <2>2, SeqMonotonic
<1>2. all \in Beyond(routes, TRUE)
  <2> HIDE DEF fit
  <2> QED
    BY <1>1, WithRoutesKeeps
<1> HIDE DEF all
<1>3. /\ all \in Seq(Routed) /\ Len(routes) <= Len(all)
      /\ \A i \in 1 .. Len(routes) : all[i] = routes[i]
  BY <1>2 DEF Beyond
<1>4. /\ Len(all) \in Nat /\ n \in 1 .. MaxRoutes /\ n <= Len(all) /\ Len(routes) <= n
      /\ Len(routes) \in Nat
  BY <1>3, PoolAssumption
<1> HIDE DEF n
<1>5. \A i \in 1 .. n : all[i] \in Routed
  BY <1>3, <1>4
<1>6. /\ SubSeq(all, 1, n) \in Seq(Routed)
      /\ Len(SubSeq(all, 1, n)) = IF 1 <= n THEN n - 1 + 1 ELSE 0
      /\ \A i \in 1 .. n - 1 + 1 : SubSeq(all, 1, n)[i] = all[1 + i - 1]
  <2>1. 1 \in Int /\ n \in Int
    BY <1>4
  <2> QED
    BY <1>5, <2>1, SubSeqProperties
<1>7. Learn(names) = SubSeq(all, 1, n)
  BY DEF Learn, all, n
<1>8. Len(Learn(names)) = n
  BY <1>4, <1>6, <1>7
<1>9. \A i \in 1 .. Len(routes) : Learn(names)[i] = routes[i]
  <2>1. ASSUME NEW i \in 1 .. Len(routes)
        PROVE  Learn(names)[i] = routes[i]
    <3>1. i \in 1 .. n - 1 + 1 /\ 1 + i - 1 = i
      BY <1>4
    <3> QED
      BY <1>3, <1>6, <1>7, <3>1
  <2> QED
    BY <2>1
<1>10. SeedsOf(routes) \subseteq SeedsOf(Learn(names))
  BY <1>4, <1>6, <1>7, <1>8, <1>9, PrefixKeepsSeeds
<1> QED
  BY <1>4, <1>6, <1>7, <1>8, <1>10

\* What route i resolves to is allowed.
LEMMA ResolvedAllowed ==
    ASSUME routes \in Seq(Routed), NEW i \in DOMAIN routes, NEW f \in Resolve(i)
    PROVE  f \in Seq(Permitted(Seeds) \ {NoPeer})
<1> DEFINE P == Permitted(Seeds) \ {NoPeer}
           a == routes[i].address
<1>1. a \in Valid
  <2>1. DOMAIN routes = 1 .. Len(routes)
    BY LenProperties
  <2>2. routes[i] \in Routed
    BY <2>1
  <2> QED
    BY <2>2 DEF Routed
<1>2. Lookup(a) \subseteq Seq(Peers)
  <2> HIDE DEF a
  <2> QED
    BY <1>1, PoolAssumption
<1>3. Peers \ Private \subseteq P
  BY PoolAssumption DEF Permitted
<1>4. ASSUME routes[i].learned
      PROVE  f \in Seq(P)
  <2>1. PICK s \in Lookup(a) : f = Only(s, Peers \ Private)
    BY <1>4 DEF Resolve
  <2>2. f \in Seq((Peers \ Private) \intersect {s[j] : j \in 1 .. Len(s)})
    BY <1>2, <2>1, OnlyKeeps
  <2> DEFINE K == (Peers \ Private) \intersect {s[j] : j \in 1 .. Len(s)}
  <2>3. K \subseteq P /\ f \in Seq(K)
    BY <1>3, <2>2
  <2> HIDE DEF P, K
  <2> QED
    BY <2>3, SeqMonotonic
<1>5. ASSUME ~routes[i].learned
      PROVE  f \in Seq(P)
  <2>1. f \in Lookup(a) /\ f \in Seq(Peers)
    BY <1>2, <1>5 DEF Resolve
  <2>2. a \in Seeds
    BY <1>5 DEF Seeds
  <2>3. f \in [1 .. Len(f) -> Peers] /\ Len(f) \in Nat
    BY <2>1, LenProperties
  <2>4. ASSUME NEW j \in 1 .. Len(f)
        PROVE  f[j] \in P
    <3>1. f[j] \in Peers
      BY <2>3
    <3>2. LedTo(Seeds, f[j])
      <4> HIDE DEF a
      <4> QED
        BY <2>1, <2>2 DEF LedTo, Contains
    <3> QED
      BY <3>1, <3>2, PoolAssumption DEF Permitted
  <2>5. f \in [1 .. Len(f) -> P]
    BY <2>3, <2>4
  <2> HIDE DEF P
  <2> QED
    BY <2>3, <2>5, SeqDef
<1> QED
  BY <1>4, <1>5

LEMMA PoolInitInv == PoolInit => PoolInv
<1> SUFFICES ASSUME PoolInit PROVE PoolInv
  OBVIOUS
<1>1. PICK seeds \in SeedLists : ToSet(seeds) \subseteq Valid /\ routes = WithRoutes(<<>>, seeds, FALSE)
  BY DEF PoolInit
<1>2. seeds \in Seq(HostNames)
  BY PoolAssumption
<1>3. seeds \in Seq(Valid)
  <2>1. seeds \in [1 .. Len(seeds) -> HostNames] /\ Len(seeds) \in Nat
    BY <1>2, LenProperties
  <2>2. seeds \in [1 .. Len(seeds) -> Valid]
    BY <1>1, <2>1 DEF ToSet
  <2> QED
    BY <2>1, <2>2, SeqDef
<1>4. routes \in Seq(Routed)
  <2>1. <<>> \in Seq(Routed)
    BY EmptySeq
  <2>2. routes \in Beyond(<<>>, FALSE)
    BY <1>1, <1>3, <2>1, WithRoutesKeeps
  <2> QED
    BY <2>2 DEF Beyond
<1>5. Len(routes) \in 1 .. MaxRoutes
  <2>1. MaxSeeds \in Nat /\ MaxRoutes \in Nat /\ MaxSeeds <= MaxRoutes
    BY PoolAssumption
  <2>2. Len(routes) \in 1 .. MaxSeeds
    BY DEF PoolInit
  <2> QED
    BY <2>1, <2>2
<1>6. NoPeer \in Permitted(Seeds)
  BY PoolAssumption DEF Permitted
<1>7. <<>> \in Seq(Permitted(Seeds) \ {NoPeer}) /\ Len(<<>>) = 0
  BY EmptySeq
<1>8. targets = <<>> /\ lastPeer = NoPeer /\ peer = NoPeer
  BY DEF PoolInit
<1>9. 0 <= MaxTargets
  BY PoolAssumption
<1> QED
  BY <1>4, <1>5, <1>6, <1>7, <1>8, <1>9 DEF PoolInv

\* What was allowed still is, when no seed is dropped.
LEMMA StillAllowed ==
    ASSUME SeedsOf(routes) \subseteq SeedsOf(routes')
    PROVE  /\ Permitted(Seeds) \subseteq Permitted(Seeds')
           /\ Seq(Permitted(Seeds) \ {NoPeer}) \subseteq Seq(Permitted(Seeds') \ {NoPeer})
<1>1. Seeds = SeedsOf(routes) /\ Seeds' = SeedsOf(routes')
  BY DEF Seeds, SeedsOf
<1> QED
  BY <1>1, AllowedGrows

LEMMA ConnectInv ==
    ASSUME PoolInv, Connect
    PROVE  PoolInv'
<1> DEFINE P == Permitted(Seeds) \ {NoPeer}
           n == Len(routes)
<1>1. /\ routes \in Seq(Routed) /\ n \in 1 .. MaxRoutes /\ lastPeer \in Permitted(Seeds)
      /\ peer \in Permitted(Seeds)
  BY DEF PoolInv
<1>2. PICK found \in [DOMAIN routes -> UNION {Resolve(i) : i \in DOMAIN routes}] :
        /\ \A i \in DOMAIN routes : found[i] \in Resolve(i)
        /\ targets' = Targets(found)
  BY DEF Connect
<1>3. DOMAIN routes = 1 .. n /\ n \in Nat \ {0}
  BY <1>1, LenProperties
<1>4. found \in [1 .. n -> Seq(P)]
  <2>1. \A i \in DOMAIN routes : found[i] \in Seq(P)
    BY <1>1, <1>2, ResolvedAllowed
  <2> HIDE DEF P
  <2> QED
    BY <1>2, <1>3, <2>1
<1>5. FlattenSeq(found) \in Seq(P)
  <2> HIDE DEF P, n
  <2> QED
    BY <1>3, <1>4, FlattenKeeps
<1>6. First \in Seq(P)
  <2>1. CASE lastPeer = NoPeer
    BY <2>1, EmptySeq DEF First
  <2>2. CASE lastPeer # NoPeer
    <3>1. lastPeer \in P
      BY <1>1, <2>2
    <3> QED
      BY <2>2, <3>1 DEF First
  <2> QED
    BY <2>1, <2>2
<1>7. targets' \in Seq(P) /\ Len(targets') <= MaxTargets
  <2> HIDE DEF P
  <2> QED
    BY <1>2, <1>5, <1>6, PoolAssumption, TargetsKeep
<1>8. routes' = RotatedLeft /\ lastPeer' = NoPeer /\ peer' = peer
  BY DEF Connect
<1>9. /\ routes' \in Seq(Routed) /\ Len(routes') \in 1 .. MaxRoutes
      /\ SeedsOf(routes) \subseteq SeedsOf(routes')
  BY <1>1, <1>8, RotatedKeeps
<1>10. /\ Permitted(Seeds) \subseteq Permitted(Seeds')
       /\ Seq(Permitted(Seeds) \ {NoPeer}) \subseteq Seq(Permitted(Seeds') \ {NoPeer})
  BY <1>9, StillAllowed
<1>11. NoPeer \in Permitted(Seeds')
  BY PoolAssumption DEF Permitted
<1> QED
  BY <1>1, <1>7, <1>8, <1>9, <1>10, <1>11 DEF PoolInv

LEMMA LoginInv ==
    ASSUME PoolInv, Login
    PROVE  PoolInv'
<1>1. PICK names \in Points : routes' = Learn(names)
  BY DEF Login
<1>2. names \in Seq(HostNames)
  BY PoolAssumption
<1>3. /\ routes' \in Seq(Routed) /\ Len(routes') \in 1 .. MaxRoutes
      /\ SeedsOf(routes) \subseteq SeedsOf(routes')
  BY <1>1, <1>2, LearnKeeps DEF PoolInv
<1>4. /\ Permitted(Seeds) \subseteq Permitted(Seeds')
      /\ Seq(Permitted(Seeds) \ {NoPeer}) \subseteq Seq(Permitted(Seeds') \ {NoPeer})
  BY <1>3, StillAllowed
<1>5. NoPeer \in Permitted(Seeds')
  BY PoolAssumption DEF Permitted
<1>6. /\ targets' = targets
      /\ lastPeer' \in {lastPeer, peer} /\ peer' \in {peer, NoPeer}
  BY DEF Login, dial
<1> QED
  BY <1>3, <1>4, <1>5, <1>6 DEF PoolInv

\* A dial takes its targets one by one; none of its steps changes the routes.
LEMMA DialInv ==
    ASSUME PoolInv, Accepted \/ NextTarget \/ DialFails \/ LoginFails \/ Broken
    PROVE  PoolInv'
<1> DEFINE P == Permitted(Seeds) \ {NoPeer}
<1>1. routes' = routes /\ lastPeer' = lastPeer /\ Seeds' = Seeds
  BY DEF Accepted, NextTarget, DialFails, LoginFails, Broken, pool, Seeds
<1>2. NoPeer \in Permitted(Seeds) /\ <<>> \in Seq(P) /\ Len(<<>>) = 0
  BY PoolAssumption, EmptySeq DEF Permitted
<1>3. ASSUME targets # <<>>
      PROVE  /\ Head(targets) \in P /\ Tail(targets) \in Seq(P)
             /\ Len(Tail(targets)) <= MaxTargets
  <2>1. targets \in Seq(P) /\ Len(targets) <= MaxTargets /\ Len(targets) \in Nat
    BY DEF PoolInv
  <2> HIDE DEF P
  <2>2. Head(targets) \in P /\ Tail(targets) \in Seq(P) /\ Len(Tail(targets)) = Len(targets) - 1
    BY <1>3, <2>1, HeadTailProperties
  <2> QED
    BY <2>1, <2>2, PoolAssumption
<1>4. /\ targets' \in {targets, <<>>} \/ (targets # <<>> /\ targets' = Tail(targets))
      /\ peer' \in {peer, NoPeer} \/ (targets # <<>> /\ peer' = Head(targets))
  BY DEF Accepted, NextTarget, DialFails, LoginFails, Broken, Dialing, dial
<1>5. targets' \in Seq(P) /\ Len(targets') <= MaxTargets
  <2>1. 0 <= MaxTargets
    BY PoolAssumption
  <2>2. targets \in Seq(P) /\ Len(targets) <= MaxTargets
    BY DEF PoolInv
  <2> HIDE DEF P
  <2> QED
    BY <1>2, <1>3, <1>4, <2>1, <2>2
<1>6. peer' \in Permitted(Seeds)
  BY <1>2, <1>3, <1>4 DEF PoolInv
<1> QED
  BY <1>1, <1>5, <1>6 DEF PoolInv

\* EndpointPool::connect, for any names, lookups and limits: however often the host
\* reconnects and whatever the access points advertise, it dials a private peer only
\* where a configured seed leads to it.
THEOREM OnlySeedsLeadToPrivatePeers == PoolSpec => []PrivateBySeedOnly
<1>1. PoolInit => PoolInv
  BY PoolInitInv
<1>2. PoolInv /\ [PoolNext]_pooling => PoolInv'
  <2> SUFFICES ASSUME PoolInv, [PoolNext]_pooling
               PROVE  PoolInv'
    OBVIOUS
  <2>1. CASE Connect
    BY <2>1, ConnectInv
  <2>2. CASE Login
    BY <2>2, LoginInv
  <2>3. CASE Accepted \/ NextTarget \/ DialFails \/ LoginFails \/ Broken
    BY <2>3, DialInv
  <2>4. CASE UNCHANGED pooling
    <3>1. Seeds' = Seeds
      BY <2>4 DEF pooling, pool, Seeds
    <3> QED
      BY <2>4, <3>1 DEF PoolInv, pooling, pool, dial
  <2> QED
    BY <2>1, <2>2, <2>3, <2>4 DEF PoolNext, Reconnect
<1>3. PoolInv => PrivateBySeedOnly
  <2> SUFFICES ASSUME PoolInv, NEW p \in Private \intersect (ToSet(targets) \union {lastPeer, peer})
               PROVE  LedTo(Seeds, p)
    BY DEF PoolInv, PrivateBySeedOnly, LedTo
  <2>1. \A q \in ToSet(targets) : q \in Permitted(Seeds)
    <3>1. DOMAIN targets = 1 .. Len(targets)
      BY LenProperties DEF PoolInv
    <3> QED
      BY <3>1 DEF PoolInv, ToSet
  <2>2. p \in Permitted(Seeds)
    BY <2>1 DEF PoolInv
  <2> QED
    BY <2>2 DEF Permitted
<1> QED
  BY <1>1, <1>2, <1>3, PTL DEF PoolSpec

------------------------------------------------------------------------------
(* Bars *)

BarSet == (0 .. LastMinute) \X {0, 1}

OnePerMinute(bars) == \A a, b \in bars : a[1] = b[1] => a = b

PagingSet == [phase : {"idle", "asking", "done", "failed"}, from : Int, to : Int,
              before : Int, pages : Nat, bars : SUBSET BarSet, known : SUBSET BarSet]

BarsTyped ==
    /\ traded \in SUBSET BarSet /\ OnePerMinute(traded)
    /\ paging \in PagingSet

\* The broker's bars only grow, and the last of them forms; one that has formed stays.
KnownStill ==
    \A k \in paging.known : k[1] \in Minutes(traded) /\ (k[2] = 1 => k \in traded)

\* What the client has is of the range, once each, and not older than the call.
TakenTrue ==
    /\ OnePerMinute(paging.bars)
    /\ \A bar \in paging.bars :
         /\ bar[1] >= paging.from /\ bar[1] < paging.to
         /\ bar[1] \in Minutes(traded)
         /\ bar \notin traded => <<bar[1], 1>> \in traded \ paging.known

\* What it has come past, it has; at the end that is all of the range.
PastTaken ==
    /\ paging.phase = "asking" =>
         /\ paging.before >= 0
         /\ \A m \in Minutes(paging.known) :
              m >= paging.from /\ m < paging.to /\ m > paging.before
                => m \in Minutes(paging.bars)
    /\ paging.phase = "done" =>
         \A m \in Minutes(paging.known) :
           m >= paging.from /\ m < paging.to => m \in Minutes(paging.bars)

BarsInv == BarsTyped /\ KnownStill /\ TakenTrue /\ PastTaken

LEMMA LeastOfNaturals ==
    ASSUME NEW S \in SUBSET Nat, S # {}
    PROVE  Min(S) \in S /\ \A j \in S : Min(S) <= j
<1>1. PICK m \in S : \A j \in 0 .. m - 1 : j \notin S
  BY LeastNatural
<1>2. \A j \in S : m <= j
  BY <1>1
<1>3. \E x \in S : \A y \in S : x =< y
  BY <1>2
<1> QED
  BY <1>3 DEF Min

\* The day of a later minute is not earlier.
LEMMA DaysInOrder ==
    ASSUME NEW a \in Nat, NEW b \in Nat, a <= b
    PROVE  a \div BarDay \in Nat /\ b \div BarDay \in Nat /\ a \div BarDay <= b \div BarDay
<1>1. BarDay \in Nat \ {0}
  BY BarAssumption
<1> QED
  BY <1>1

\* What a page holds, and what it is about.
LEMMA PageHasAll ==
    ASSUME BarsTyped, NEW before \in Nat, NEW page \in Pages(before)
    PROVE  /\ page \in SUBSET traded
           /\ \/ page # {} /\ \A m \in Minutes(traded) :
                                Min({before} \cup Minutes(page)) <= m /\ m <= before
                                  => m \in Minutes(page)
              \/ \A m \in Minutes(traded) : m > before
<1> DEFINE back(day) == {bar \in traded : bar[1] \div BarDay \in day .. before \div BarDay}
           pages == {back(day) : day \in 0 .. before \div BarDay}
           further == {pg \in pages : \E bar \in pg : bar[1] <= before}
           oldest == Min({before} \cup Minutes(page))
<1>1. page \in IF further = {} THEN {{}, back(before \div BarDay)} ELSE further
  BY DEF Pages
<1>2. \A bar \in traded : bar[1] \in Nat
  BY DEF BarsTyped, BarSet
<1>3. before \div BarDay \in Nat
  BY DaysInOrder
<1>4. page \in SUBSET traded
  BY <1>1
<1>5. CASE further = {}
  <2>1. ASSUME NEW bar \in traded, bar[1] <= before
        PROVE  FALSE
    <3>1. bar[1] \in Nat /\ bar[1] \div BarDay \in Nat /\ bar[1] \div BarDay <= before \div BarDay
      BY <1>2, <2>1, DaysInOrder
    <3>2. bar \in back(0)
      BY <1>3, <3>1
    <3>3. back(0) \in pages
      BY <1>3
    <3>4. back(0) \in further
      BY <2>1, <3>2, <3>3
    <3> QED
      BY <1>5, <3>4
  <2>2. \A m \in Minutes(traded) : m > before
    BY <1>2, <2>1 DEF Minutes
  <2> QED
    BY <1>4, <2>2
<1>6. CASE further # {}
  <2>1. PICK day \in 0 .. before \div BarDay :
          page = back(day) /\ \E bar \in page : bar[1] <= before
    BY <1>1, <1>6
  <2>2. PICK first \in page : first[1] <= before
    BY <2>1
  <2> HIDE DEF back, pages, further
  <2>3. {before} \cup Minutes(page) \in SUBSET Nat
    BY <1>2, <1>4 DEF Minutes
  <2>4. /\ oldest \in {before} \cup Minutes(page)
        /\ \A j \in {before} \cup Minutes(page) : oldest <= j
    <3> DEFINE S == {before} \cup Minutes(page)
    <3>1. S \in SUBSET Nat /\ S # {}
      BY <2>3
    <3> HIDE DEF S
    <3>2. Min(S) \in S /\ \A j \in S : Min(S) <= j
      BY <3>1, LeastOfNaturals
    <3> QED
      BY <3>2 DEF S
  <2> HIDE DEF oldest
  <2>5. first[1] \in Minutes(page)
    BY <2>2 DEF Minutes
  <2>6. oldest \in Minutes(page) /\ oldest \in Nat
    BY <2>2, <2>3, <2>4, <2>5
  <2>7. oldest \div BarDay >= day
    BY <2>1, <2>6 DEF Minutes, back
  <2>8. ASSUME NEW m \in Minutes(traded), oldest <= m, m <= before
        PROVE  m \in Minutes(page)
    <3>1. PICK bar \in traded : bar[1] = m
      BY DEF Minutes
    <3>2. m \in Nat
      BY <1>2, <3>1
    <3>3. /\ oldest \div BarDay <= m \div BarDay /\ m \div BarDay <= before \div BarDay
          /\ oldest \div BarDay \in Nat /\ m \div BarDay \in Nat
      BY <2>6, <2>8, <3>2, DaysInOrder
    <3>4. m \div BarDay \in day .. before \div BarDay
      BY <1>3, <2>7, <3>3
    <3>5. bar \in page
      BY <2>1, <3>1, <3>4 DEF back
    <3> QED
      BY <3>1, <3>5 DEF Minutes
  <2> QED
    BY <1>4, <2>2, <2>8 DEF oldest
<1> QED
  BY <1>5, <1>6

LEMMA BarsInitInv == BarsInit => BarsInv
<1> SUFFICES ASSUME BarsInit PROVE BarsInv
  OBVIOUS
<1>1. PICK minutes \in SUBSET (0 .. LastMinute) : traded = {<<m, 0>> : m \in minutes}
  BY DEF BarsInit
<1>2. traded \in SUBSET BarSet /\ OnePerMinute(traded)
  BY <1>1 DEF BarSet, OnePerMinute
<1>3. paging = NoPaging
  BY DEF BarsInit
<1>4. BarsTyped
  BY <1>2, <1>3 DEF BarsTyped, PagingSet, NoPaging
<1> QED
  BY <1>3, <1>4 DEF BarsInv, KnownStill, TakenTrue, PastTaken, NoPaging, OnePerMinute

\* A bar of version 0 may give way to version 1 of its minute, one of version 1 stays.
LEMMA BrokerInv ==
    ASSUME BarsInv, paging' = paging, traded' \in SUBSET BarSet, OnePerMinute(traded'),
           \A bar \in traded : bar \in traded' \/ (bar[2] = 0 /\ <<bar[1], 1>> \in traded')
    PROVE  BarsInv'
<1>1. \A m \in Minutes(traded) : m \in Minutes(traded')
  <2>1. SUFFICES ASSUME NEW bar \in traded
                 PROVE  bar[1] \in Minutes(traded')
    BY DEF Minutes
  <2>2. CASE bar \in traded'
    BY <2>2 DEF Minutes
  <2>3. CASE <<bar[1], 1>> \in traded'
    BY <2>3 DEF Minutes
  <2> QED
    BY <2>2, <2>3
<1>2. \A bar \in traded : bar[2] = 1 => bar \in traded'
  <2>1. \A bar \in traded : bar[2] = 1 => ~(bar[2] = 0)
    OBVIOUS
  <2> QED
    BY <2>1
<1>3. KnownStill'
  BY <1>1, <1>2 DEF BarsInv, KnownStill
<1>4. ASSUME NEW bar \in paging.bars, bar \notin traded'
      PROVE  <<bar[1], 1>> \in traded' \ paging.known
  <2>1. CASE bar \in traded
    <3>1. bar[2] = 0 /\ <<bar[1], 1>> \in traded'
      BY <1>4, <2>1
    <3>2. <<bar[1], 1>> \notin paging.known
      <4>1. SUFFICES ASSUME <<bar[1], 1>> \in traded
                     PROVE  FALSE
        BY DEF BarsInv, KnownStill
      <4> QED
        BY <2>1, <3>1, <4>1 DEF BarsInv, BarsTyped, OnePerMinute
    <3> QED
      BY <3>1, <3>2
  <2>2. CASE bar \notin traded
    <3>1. <<bar[1], 1>> \in traded \ paging.known
      BY <2>2 DEF BarsInv, TakenTrue
    <3> QED
      BY <1>2, <3>1
  <2> QED
    BY <2>1, <2>2
<1>5. TakenTrue'
  BY <1>1, <1>4 DEF BarsInv, TakenTrue
<1> QED
  BY <1>3, <1>5 DEF BarsInv, BarsTyped, PastTaken

LEMMA NextBarInv ==
    ASSUME BarsInv, NEW minute \in 0 .. LastMinute, NextBar(minute)
    PROVE  BarsInv'
<1>1. traded' = traded \cup {<<minute, 0>>} /\ paging' = paging
  BY DEF NextBar
<1>2. \A bar \in traded : bar[1] # minute
  <2>1. \A bar \in traded : bar[1] < minute /\ bar[1] \in Nat
    BY DEF NextBar, Minutes, BarsInv, BarsTyped, BarSet
  <2> QED
    BY <2>1
<1>3. traded' \in SUBSET BarSet
  BY <1>1 DEF BarsInv, BarsTyped, BarSet
<1>4. OnePerMinute(traded')
  BY <1>1, <1>2 DEF BarsInv, BarsTyped, OnePerMinute
<1> QED
  BY <1>1, <1>3, <1>4, BrokerInv

LEMMA BarFormsInv ==
    ASSUME BarsInv, BarForms
    PROVE  BarsInv'
<1> DEFINE m == Max(Minutes(traded))
<1>1. /\ <<m, 0>> \in traded /\ traded' = (traded \ {<<m, 0>>}) \cup {<<m, 1>>}
      /\ paging' = paging
  BY DEF BarForms
<1> HIDE DEF m
<1>2. m \in 0 .. LastMinute
  BY <1>1 DEF BarsInv, BarsTyped, BarSet
<1>3. traded' \in SUBSET BarSet
  BY <1>1, <1>2 DEF BarsInv, BarsTyped, BarSet
<1>4. \A bar \in traded : bar[1] = m => bar = <<m, 0>>
  BY <1>1 DEF BarsInv, BarsTyped, OnePerMinute
<1>5. OnePerMinute(traded')
  BY <1>1, <1>4 DEF BarsInv, BarsTyped, OnePerMinute
<1>6. \A bar \in traded : bar \in traded' \/ (bar[2] = 0 /\ <<bar[1], 1>> \in traded')
  BY <1>1
<1> QED
  BY <1>1, <1>3, <1>5, <1>6, BrokerInv

LEMMA NothingTakenTyped ==
    ASSUME NEW ph \in {"failed", "done"}
    PROVE  [phase |-> ph, from |-> 0, to |-> 0, before |-> 0, pages |-> 0,
            bars |-> {}, known |-> {}]
             \in PagingSet
  BY DEF PagingSet

LEMMA NothingTakenInv ==
    ASSUME BarsInv, traded' = traded, NEW ph \in {"failed", "done"},
           paging' = [NoPaging EXCEPT !.phase = ph]
    PROVE  BarsInv'
<1>1. /\ paging' = [phase |-> ph, from |-> 0, to |-> 0, before |-> 0, pages |-> 0,
                   bars |-> {}, known |-> {}]
  BY DEF NoPaging
<1>2. BarsTyped'
  <2>1. paging' \in PagingSet
    BY <1>1, NothingTakenTyped
  <2>2. traded' \in SUBSET BarSet /\ OnePerMinute(traded')
    BY DEF BarsInv, BarsTyped
  <2> QED
    BY <2>1, <2>2 DEF BarsTyped
<1> QED
  BY <1>1, <1>2 DEF BarsInv, KnownStill, TakenTrue, PastTaken, Minutes, OnePerMinute

LEMMA AskedPaging ==
    ASSUME NEW from, NEW to, NEW p,
           p = [NoPaging EXCEPT !.phase = "asking", !.from = from, !.to = to,
                                !.before = to - 1, !.known = traded]
    PROVE  p = [phase |-> "asking", from |-> from, to |-> to, before |-> to - 1,
                pages |-> 0, bars |-> {}, known |-> traded]
  BY Zenon DEF NoPaging

LEMMA AskBarsInv ==
    ASSUME BarsInv, NEW from \in Int, NEW to \in Int, AskBars(from, to)
    PROVE  BarsInv'
<1>1. CASE from >= to
  <2>1. paging' = [NoPaging EXCEPT !.phase = "done"] /\ traded' = traded
    BY <1>1 DEF AskBars
  <2> QED
    BY <2>1, NothingTakenInv
<1>2. CASE ~(from >= to)
  <2> DEFINE p == [phase |-> "asking", from |-> from, to |-> to, before |-> to - 1,
                   pages |-> 0, bars |-> {}, known |-> traded]
  <2>1. paging' = Request(p) /\ traded' = traded
    <3>1. p = [NoPaging EXCEPT !.phase = "asking", !.from = from, !.to = to,
                               !.before = to - 1, !.known = traded]
      BY AskedPaging
    <3> HIDE DEF p
    <3> QED
      BY <1>2, <3>1 DEF AskBars
  <2>2. CASE to - 1 < 0
    <3>1. paging' = [NoPaging EXCEPT !.phase = "failed"]
      BY <2>1, <2>2 DEF Request
    <3> QED
      BY <2>1, <3>1, NothingTakenInv
  <2>3. CASE ~(to - 1 < 0)
    <3>1. paging' = p
      BY <2>1, <2>3 DEF Request
    <3>2. BarsTyped'
      BY <2>1, <3>1 DEF BarsInv, BarsTyped, PagingSet
    <3>3. KnownStill'
      <4>1. paging'.known = traded /\ traded' = traded
        BY <2>1, <3>1
      <4>2. \A k \in traded : k[1] \in Minutes(traded)
        BY DEF Minutes
      <4> HIDE DEF p
      <4> QED
        BY <4>1, <4>2 DEF KnownStill, Minutes
    <3>4. TakenTrue'
      BY <2>1, <3>1 DEF TakenTrue, OnePerMinute
    <3>5. PastTaken'
      <4>1. \A m \in Minutes(traded) : m \in Int
        BY DEF BarsInv, BarsTyped, BarSet, Minutes
      <4>2. \A m \in Minutes(traded) : ~(m < to /\ m > to - 1)
        BY <4>1
      <4> QED
        BY <2>1, <2>3, <3>1, <4>2 DEF PastTaken
    <3> QED
      BY <3>2, <3>3, <3>4, <3>5 DEF BarsInv
  <2> QED
    BY <2>2, <2>3
<1> QED
  BY <1>1, <1>2

\* The bars taken from a page are of the range and as the broker has them.
LEMMA InsertedTrue ==
    ASSUME BarsInv, NEW page \in SUBSET traded
    PROVE  LET bars == Inserted(paging.bars, page)
           IN  /\ bars \in SUBSET BarSet /\ OnePerMinute(bars)
               /\ \A bar \in bars :
                    /\ bar[1] >= paging.from /\ bar[1] < paging.to
                    /\ bar[1] \in Minutes(traded)
                    /\ bar \notin traded => <<bar[1], 1>> \in traded \ paging.known
               /\ \A m \in Minutes(page) \union Minutes(paging.bars) :
                    m >= paging.from /\ m < paging.to => m \in Minutes(bars)
<1> DEFINE bars == Inserted(paging.bars, page)
<1>1. bars \in SUBSET BarSet
  BY DEF BarsInv, BarsTyped, PagingSet, Inserted
<1>2. \A bar \in bars :
        \/ bar \in paging.bars /\ bar[1] \notin Minutes(page)
        \/ bar \in page /\ bar[1] >= paging.from /\ bar[1] < paging.to /\ bar[1] \in Minutes(page)
  BY DEF Inserted, Minutes
<1>3. OnePerMinute(bars)
  <2> HIDE DEF bars
  <2> QED
    BY <1>2 DEF BarsInv, BarsTyped, TakenTrue, OnePerMinute
<1>4. \A bar \in bars :
        /\ bar[1] >= paging.from /\ bar[1] < paging.to
        /\ bar[1] \in Minutes(traded)
        /\ bar \notin traded => <<bar[1], 1>> \in traded \ paging.known
  <2> HIDE DEF bars
  <2> QED
    BY <1>2 DEF BarsInv, TakenTrue, Minutes
<1>5. ASSUME NEW m \in Minutes(page) \union Minutes(paging.bars),
             m >= paging.from, m < paging.to
      PROVE  m \in Minutes(bars)
  <2>1. CASE m \in Minutes(page)
    <3>1. PICK bar \in page : bar[1] = m
      BY <2>1 DEF Minutes
    <3>2. bar \in bars
      BY <1>5, <3>1 DEF Inserted
    <3> QED
      BY <3>1, <3>2 DEF Minutes
  <2>2. CASE m \notin Minutes(page)
    <3>1. PICK bar \in paging.bars : bar[1] = m
      BY <2>2 DEF Minutes
    <3>2. bar \in bars
      BY <2>2, <3>1 DEF Inserted
    <3> QED
      BY <3>1, <3>2 DEF Minutes
  <2> QED
    BY <2>1, <2>2
<1> QED
  BY <1>1, <1>3, <1>4, <1>5

LEMMA PageTaken ==
    ASSUME NEW p \in PagingSet, NEW bars \in SUBSET BarSet, NEW before \in Int
    PROVE  [p EXCEPT !.bars = bars, !.pages = @ + 1, !.before = before] \in PagingSet
<1> DEFINE q == [p EXCEPT !.bars = bars]
           r == [q EXCEPT !.pages = @ + 1]
<1>1. q \in PagingSet
  BY DEF PagingSet
<1> HIDE DEF q
<1>2. r \in PagingSet
  BY <1>1 DEF PagingSet
<1> HIDE DEF r
<1>3. [r EXCEPT !.before = before] \in PagingSet
  BY <1>2 DEF PagingSet
<1> QED
  BY <1>3, Zenon DEF q, r

LEMMA BarsAnsweredInv ==
    ASSUME BarsInv, NEW page \in Pages(paging.before), BarsAnswered(page)
    PROVE  BarsInv'
<1> DEFINE oldest == Min({paging.before} \cup Minutes(page))
           bars == Inserted(paging.bars, page)
           InRange(m) == m >= paging.from /\ m < paging.to
<1>1. /\ paging.phase = "asking" /\ traded' = traded
      /\ CASE page = {} \/ oldest <= paging.from ->
                paging' = [paging EXCEPT !.phase = "done", !.bars = bars]
           [] page # {} /\ oldest > paging.from
              /\ (NoProgress(oldest) \/ paging.pages + 1 = BarPages) -> PagingFails
           [] OTHER ->
                paging' = Request([paging EXCEPT !.bars = bars, !.pages = @ + 1,
                                                 !.before = oldest - 1])
  BY DEF BarsAnswered
<1>2. /\ paging.before \in Nat
      /\ \A m \in Minutes(paging.known) :
           InRange(m) /\ m > paging.before => m \in Minutes(paging.bars)
  BY <1>1 DEF BarsInv, BarsTyped, PagingSet, PastTaken
<1>3. /\ page \in SUBSET traded
      /\ \/ page # {} /\ \A m \in Minutes(traded) :
                           oldest <= m /\ m <= paging.before => m \in Minutes(page)
         \/ \A m \in Minutes(traded) : m > paging.before
  BY <1>2, PageHasAll DEF BarsInv
<1>4. /\ bars \in SUBSET BarSet /\ OnePerMinute(bars)
      /\ \A bar \in bars :
           /\ InRange(bar[1])
           /\ bar[1] \in Minutes(traded)
           /\ bar \notin traded => <<bar[1], 1>> \in traded \ paging.known
      /\ \A m \in Minutes(page) \union Minutes(paging.bars) : InRange(m) => m \in Minutes(bars)
  BY <1>3, InsertedTrue
<1>5. /\ Minutes(paging.known) \subseteq Minutes(traded)
      /\ \A m \in Minutes(traded) : m \in Nat
  BY DEF BarsInv, BarsTyped, KnownStill, Minutes, BarSet
<1>6. /\ paging.from \in Int /\ paging.to \in Int /\ paging.pages \in Nat
      /\ paging.bars \in SUBSET BarSet /\ paging.known \in SUBSET BarSet
  BY DEF BarsInv, BarsTyped, PagingSet
<1>7. oldest \in Nat
  <2> DEFINE S == {paging.before} \cup Minutes(page)
  <2>1. S \in SUBSET Nat /\ S # {}
    BY <1>2, <1>3, <1>5 DEF Minutes
  <2> HIDE DEF S
  <2>2. Min(S) \in Nat
    BY <2>1, LeastOfNaturals
  <2> QED
    BY <2>2 DEF S
<1>8. ASSUME NEW m \in Minutes(paging.known), InRange(m), m >= oldest
      PROVE  m \in Minutes(bars)
  <2>1. CASE m > paging.before
    BY <1>2, <1>4, <1>8, <2>1
  <2>2. CASE ~(m > paging.before)
    <3>1. m \in Minutes(traded) /\ m \in Nat /\ m <= paging.before
      BY <1>2, <1>5, <2>2
    <3>2. m \in Minutes(page)
      BY <1>3, <1>8, <2>2, <3>1
    <3> QED
      BY <1>4, <1>8, <3>2
  <2> QED
    BY <2>1, <2>2
<1> HIDE DEF oldest, bars
<1>9. ASSUME page = {} \/ oldest <= paging.from
      PROVE  BarsInv'
  <2>1. paging' = [paging EXCEPT !.phase = "done", !.bars = bars]
    <3>1. ~(page # {} /\ oldest > paging.from)
      BY <1>6, <1>7, <1>9
    <3> QED
      BY <1>1, <1>9, <3>1
  <2>2. /\ paging'.phase = "done" /\ paging'.bars = bars /\ paging'.known = paging.known
        /\ paging'.from = paging.from /\ paging'.to = paging.to
    BY <2>1 DEF BarsInv, BarsTyped
  <2>3. ASSUME NEW m \in Minutes(paging.known), InRange(m)
        PROVE  m \in Minutes(bars)
    <3>1. CASE page = {}
      <4>1. m > paging.before
        BY <1>3, <1>5, <3>1
      <4> QED
        BY <1>2, <1>4, <2>3, <4>1
    <3>2. CASE oldest <= paging.from
      <4>1. m >= oldest
        BY <1>5, <1>6, <1>7, <2>3, <3>2
      <4> QED
        BY <1>8, <2>3, <4>1
    <3> QED
      BY <1>9, <3>1, <3>2
  <2>4. BarsTyped'
    BY <1>1, <1>4, <2>1 DEF BarsInv, BarsTyped, PagingSet
  <2>5. KnownStill'
    BY <1>1, <2>2 DEF BarsInv, KnownStill
  <2>6. TakenTrue'
    BY <1>1, <1>4, <2>2 DEF TakenTrue
  <2>7. PastTaken'
    BY <2>2, <2>3 DEF PastTaken
  <2> QED
    BY <2>4, <2>5, <2>6, <2>7 DEF BarsInv
<1>10. ASSUME ~(page = {} \/ oldest <= paging.from),
              NoProgress(oldest) \/ paging.pages + 1 = BarPages
       PROVE  BarsInv'
  <2>1. oldest > paging.from
    BY <1>6, <1>7, <1>10
  <2>2. paging' = [NoPaging EXCEPT !.phase = "failed"]
    BY <1>1, <1>10, <2>1 DEF PagingFails
  <2> QED
    BY <1>1, <2>2, NothingTakenInv
<1>11. ASSUME ~(page = {} \/ oldest <= paging.from),
              ~(NoProgress(oldest) \/ paging.pages + 1 = BarPages)
       PROVE  BarsInv'
  <2> DEFINE p == [paging EXCEPT !.bars = bars, !.pages = @ + 1, !.before = oldest - 1]
  <2>1. paging' = Request(p)
    BY <1>1, <1>11
  <2>2. /\ p.phase = "asking" /\ p.bars = bars /\ p.known = paging.known
        /\ p.from = paging.from /\ p.to = paging.to /\ p.before = oldest - 1
    BY <1>1 DEF BarsInv, BarsTyped
  <2>3. p \in PagingSet
    <3>1. oldest - 1 \in Int
      BY <1>7
    <3>2. paging \in PagingSet
      BY DEF BarsInv, BarsTyped
    <3> QED
      BY <1>4, <3>1, <3>2, PageTaken DEF PagingSet
  <2> HIDE DEF p
  <2>4. CASE p.before < 0
    <3>1. paging' = [NoPaging EXCEPT !.phase = "failed"]
      BY <2>1, <2>4 DEF Request
    <3> QED
      BY <1>1, <3>1, NothingTakenInv
  <2>5. CASE ~(p.before < 0)
    <3>1. paging' = p
      BY <2>1, <2>5 DEF Request
    <3>2. BarsTyped'
      BY <1>1, <2>3, <3>1 DEF BarsInv, BarsTyped
    <3>3. KnownStill'
      BY <1>1, <2>2, <3>1 DEF BarsInv, KnownStill
    <3>4. TakenTrue'
      BY <1>1, <1>4, <2>2, <3>1 DEF TakenTrue
    <3>5. PastTaken'
      <4>1. \A m \in Minutes(paging.known) : m > oldest - 1 => m >= oldest
        BY <1>5, <1>7
      <4> QED
        BY <1>7, <1>8, <2>2, <2>5, <3>1, <4>1 DEF PastTaken
    <3> QED
      BY <3>2, <3>3, <3>4, <3>5 DEF BarsInv
  <2> QED
    BY <2>4, <2>5
<1> QED
  BY <1>9, <1>10, <1>11

\* Of a finite set of bars, one per minute, there are as many as there are minutes.
LEMMA AsManyMinutes ==
    ASSUME NEW bars \in SUBSET BarSet, OnePerMinute(bars)
    PROVE  Cardinality(Minutes(bars)) = Cardinality(bars)
<1>1. IsFiniteSet(BarSet)
  <2>1. IsFiniteSet(0 .. LastMinute)
    BY BarAssumption, FS_Interval
  <2>2. IsFiniteSet({0, 1})
    <3>1. IsFiniteSet({0} \cup {1})
      BY FS_Singleton, FS_AddElement
    <3>2. {0} \cup {1} = {0, 1}
      OBVIOUS
    <3> QED
      BY <3>1, <3>2
  <2> QED
    BY <2>1, <2>2, FS_Product DEF BarSet
<1>2. IsFiniteSet(bars)
  BY <1>1, FS_Subset
<1> DEFINE f == [bar \in bars |-> bar[1]]
<1>3. f \in Bijection(bars, Minutes(bars))
  BY DEF Bijection, Injection, Surjection, IsInjective, Minutes, OnePerMinute
<1>4. ExistsBijection(bars, Minutes(bars))
  BY <1>3 DEF ExistsBijection
<1> QED
  BY <1>2, <1>4, FS_Bijection

\* history.rs `bars`, for any length of the day, limit of pages, range and market: however
\* the broker's pages begin and whatever trades while they are asked for, what the call
\* returns is the whole range as it was when it began.
THEOREM BarsReturnTheRange == BarsSpec => []BarsComplete
<1>1. BarsInit => BarsInv
  BY BarsInitInv
<1>2. BarsInv /\ [BarsNext]_charts => BarsInv'
  <2> SUFFICES ASSUME BarsInv, [BarsNext]_charts
               PROVE  BarsInv'
    OBVIOUS
  <2>1. CASE \E minute \in 0 .. LastMinute : NextBar(minute)
    BY <2>1, NextBarInv
  <2>2. CASE BarForms
    BY <2>2, BarFormsInv
  <2>3. CASE \E range \in BarRanges : AskBars(range[1], range[2])
    <3>1. PICK range \in BarRanges : AskBars(range[1], range[2])
      BY <2>3
    <3>2. range[1] \in Int /\ range[2] \in Int
      BY BarAssumption
    <3> QED
      BY <3>1, <3>2, AskBarsInv
  <2>4. CASE AnswerBars
    BY <2>4, BarsAnsweredInv DEF AnswerBars
  <2>5. CASE BarsFailed
    <3>1. traded' = traded /\ paging' = [NoPaging EXCEPT !.phase = "failed"]
      BY <2>5 DEF BarsFailed, PagingFails
    <3> QED
      BY <3>1, NothingTakenInv
  <2>6. CASE UNCHANGED charts
    BY <2>6 DEF BarsInv, BarsTyped, KnownStill, TakenTrue, PastTaken, charts
  <2> QED
    BY <2>1, <2>2, <2>3, <2>4, <2>5, <2>6 DEF BarsNext
<1>3. BarsInv => BarsComplete
  <2> SUFFICES ASSUME BarsInv, paging.phase = "done"
               PROVE  BarsComplete
    BY DEF BarsComplete
  <2>1. Cardinality(Minutes(paging.bars)) = Cardinality(paging.bars)
    BY AsManyMinutes DEF BarsInv, BarsTyped, PagingSet, TakenTrue
  <2> QED
    BY <2>1 DEF BarsInv, TakenTrue, PastTaken, BarsComplete
<1> QED
  BY <1>1, <1>2, <1>3, PTL DEF BarsSpec

------------------------------------------------------------------------------
(* Records by ticket *)

FoldGoes(X, b, n, G, it) ==
    /\ it[{}] = b
    /\ \A d \in SUBSET (1 .. n) :
         d # {} /\ it[d \ {Max(d)}] \in X => it[d] = G[Max(d)][it[d \ {Max(d)}]]
FoldTrail(X, b, n, G, it) ==
    /\ it[1 .. 0] = b
    /\ \A k \in 1 .. n : it[1 .. k - 1] \in X /\ it[1 .. k] = G[k][it[1 .. k - 1]]

\* A fold taken position by position.
LEMMA FoldSteps ==
    ASSUME NEW X, NEW b \in X, NEW n \in Nat, NEW G \in [1 .. n -> [X -> X]], NEW it,
           FoldGoes(X, b, n, G, it)
    PROVE  FoldTrail(X, b, n, G, it)
<1>0. /\ it[{}] = b
      /\ \A d \in SUBSET (1 .. n) :
           d # {} /\ it[d \ {Max(d)}] \in X => it[d] = G[Max(d)][it[d \ {Max(d)}]]
  BY DEF FoldGoes
<1>1. it[1 .. 0] = b
  <2>1. 1 .. 0 = {}
    OBVIOUS
  <2> QED
    BY <1>0, <2>1
<1>2. ASSUME NEW k \in 1 .. n, it[1 .. k - 1] \in X
      PROVE  it[1 .. k] = G[k][it[1 .. k - 1]] /\ it[1 .. k] \in X
  <2>1. Max(1 .. k) = k
    BY MaxOfUpTo
  <2>2. (1 .. k) \ {k} = 1 .. k - 1 /\ 1 .. k \in SUBSET (1 .. n) /\ 1 .. k # {}
    <3>1. k \in 1 .. k
      OBVIOUS
    <3> QED
      BY <3>1
  <2>3. it[1 .. k] = G[k][it[1 .. k - 1]]
    BY <1>0, <1>2, <2>1, <2>2
  <2> QED
    BY <1>2, <2>3
<1> DEFINE S == {k \in 0 .. n : it[1 .. k] \in X}
<1>3. 0 \in S
  BY <1>1
<1>4. \A k \in 1 .. n : k - 1 \in S => k \in S
  BY <1>2
<1>5. \A k \in 0 .. n : k \in S
  <2> HIDE DEF S
  <2> QED
    BY <1>3, <1>4, EveryPosition
<1> QED
  BY <1>1, <1>2, <1>5 DEF FoldTrail

\* Each ticket once.
Once(s) == \A i, j \in DOMAIN s : s[i].ticket = s[j].ticket => i = j

LEMMA ElementsOf ==
    ASSUME NEW E, NEW s \in Seq(E)
    PROVE  ToSet(s) = {s[i] : i \in 1 .. Len(s)} /\ ToSet(s) \subseteq E
           /\ DOMAIN s = 1 .. Len(s) /\ Len(s) \in Nat
  BY DEF ToSet

LEMMA OnceAppended ==
    ASSUME NEW E, NEW s \in Seq(E), NEW e \in E, Once(s),
           \A r \in ToSet(s) : r.ticket # e.ticket
    PROVE  Append(s, e) \in Seq(E) /\ ToSet(Append(s, e)) = ToSet(s) \cup {e}
           /\ Once(Append(s, e))
<1> DEFINE t == Append(s, e)
           n == Len(s)
<1>1. /\ t \in Seq(E) /\ Len(t) = n + 1 /\ n \in Nat /\ t[n + 1] = e
      /\ \A i \in 1 .. n : t[i] = s[i]
  BY AppendProperties
<1>2. DOMAIN t = 1 .. n + 1 /\ DOMAIN s = 1 .. n
  BY <1>1
<1> HIDE DEF t, n
<1>3. \A i \in 1 .. n : s[i] \in ToSet(s)
  BY <1>2 DEF ToSet
<1>4. ToSet(t) = ToSet(s) \cup {e}
  <2>1. ASSUME NEW x \in ToSet(t) PROVE x \in ToSet(s) \cup {e}
    <3>1. PICK i \in 1 .. n + 1 : x = t[i]
      BY <1>2 DEF ToSet
    <3>2. i \in 1 .. n \/ i = n + 1
      BY <1>1
    <3> QED
      BY <1>1, <1>3, <3>1, <3>2
  <2>2. ASSUME NEW x \in ToSet(s) PROVE x \in ToSet(t)
    <3>1. PICK i \in 1 .. n : x = s[i]
      BY <1>2 DEF ToSet
    <3>2. i \in 1 .. n + 1 /\ t[i] = x
      BY <1>1, <3>1
    <3> QED
      BY <1>2, <3>2 DEF ToSet
  <2>3. e \in ToSet(t)
    <3>1. n + 1 \in 1 .. n + 1
      BY <1>1
    <3> QED
      BY <1>1, <1>2, <3>1 DEF ToSet
  <2> QED
    BY <2>1, <2>2, <2>3
<1>5. Once(t)
  <2>1. SUFFICES ASSUME NEW i \in 1 .. n + 1, NEW j \in 1 .. n + 1, t[i].ticket = t[j].ticket
                 PROVE  i = j
    BY <1>2 DEF Once
  <2>2. CASE i \in 1 .. n /\ j \in 1 .. n
    BY <1>1, <1>2, <2>1, <2>2 DEF Once
  <2>3. CASE i = n + 1 /\ j \in 1 .. n
    BY <1>1, <1>3, <2>1, <2>3
  <2>4. CASE j = n + 1 /\ i \in 1 .. n
    BY <1>1, <1>3, <2>1, <2>4
  <2> QED
    BY <1>1, <2>2, <2>3, <2>4
<1> QED
  BY <1>1, <1>4, <1>5 DEF t

WithoutIter(s, ticket, it) ==
    it = [d \in SUBSET (DOMAIN s) |->
            IF d = {} THEN <<>>
            ELSE IF s[Max(d)].ticket # ticket THEN Append(it[d \ {Max(d)}], s[Max(d)])
                 ELSE it[d \ {Max(d)}]]

LEMMA WithoutIsFold ==
    ASSUME NEW s, NEW ticket, NEW jt, WithoutIter(s, ticket, jt)
    PROVE  \E it : WithoutIter(s, ticket, it) /\ Without(s, ticket) = it[DOMAIN s]
<1>1. Without(s, ticket) = (CHOOSE it : WithoutIter(s, ticket, it))[DOMAIN s]
  BY Zenon DEF Without, FoldLeft, MapThenFoldSet, WithoutIter
<1>2. WithoutIter(s, ticket, CHOOSE it : WithoutIter(s, ticket, it))
  OBVIOUS
<1> QED
  BY <1>1, <1>2

\* `Without` keeps the records of the other tickets.
LEMMA WithoutKeeps ==
    ASSUME NEW E, NEW s \in Seq(E), NEW ticket, Once(s)
    PROVE  /\ Without(s, ticket) \in Seq(E) /\ Once(Without(s, ticket))
           /\ ToSet(Without(s, ticket)) = {r \in ToSet(s) : r.ticket # ticket}
<1> DEFINE n == Len(s)
           X == Seq(E)
           G == [i \in 1 .. n |->
                   [x \in X |-> IF s[i].ticket # ticket THEN Append(x, s[i]) ELSE x]]
<1>1. n \in Nat /\ DOMAIN s = 1 .. n /\ <<>> \in X /\ \A i \in 1 .. n : s[i] \in E
  BY EmptySeq
<1>2. G \in [1 .. n -> [X -> X]]
  <2>1. ASSUME NEW x \in X, NEW i \in 1 .. n
        PROVE  (IF s[i].ticket # ticket THEN Append(x, s[i]) ELSE x) \in X
    <3>1. Append(x, s[i]) \in X
      BY <1>1, AppendProperties
    <3> QED
      BY <3>1
  <2> QED
    BY <2>1
<1>3. PICK jt : FoldValues(X, <<>>, n, G, jt)
  <2>1. HasFold(X, <<>>, n, G)
    <3> HIDE DEF G, n, X
    <3> QED
      BY <1>1, <1>2, FoldThere
  <2> QED
    BY <2>1 DEF HasFold
<1>4. WithoutIter(s, ticket, jt)
  <2>1. jt \in [SUBSET (DOMAIN s) -> X]
    BY <1>1, <1>3 DEF FoldValues
  <2>2. ASSUME NEW d \in SUBSET (DOMAIN s)
        PROVE  jt[d] = IF d = {} THEN <<>>
                       ELSE IF s[Max(d)].ticket # ticket
                            THEN Append(jt[d \ {Max(d)}], s[Max(d)])
                            ELSE jt[d \ {Max(d)}]
    <3>1. CASE d = {}
      BY <1>3, <3>1 DEF FoldValues
    <3>2. CASE d # {}
      <4>1. /\ Max(d) \in 1 .. n /\ jt[d \ {Max(d)}] \in X
            /\ jt[d] = G[Max(d)][jt[d \ {Max(d)}]]
        BY <1>1, <1>3, <3>2 DEF FoldValues
      <4> QED
        BY <3>2, <4>1
    <3> QED
      BY <3>1, <3>2
  <2> QED
    BY <2>1, <2>2 DEF WithoutIter
<1>5. PICK it : WithoutIter(s, ticket, it) /\ Without(s, ticket) = it[DOMAIN s]
  <2> HIDE DEF G, n, X
  <2> QED
    BY <1>4, WithoutIsFold
<1>6. FoldTrail(X, <<>>, n, G, it)
  <2>1. it[{}] = <<>>
    BY <1>5 DEF WithoutIter
  <2>2. ASSUME NEW d \in SUBSET (1 .. n), d # {}, it[d \ {Max(d)}] \in X
        PROVE  it[d] = G[Max(d)][it[d \ {Max(d)}]]
    <3>1. Max(d) \in 1 .. n
      BY <1>1, <2>2, MaxIsIn
    <3>2. it[d] = IF s[Max(d)].ticket # ticket
                  THEN Append(it[d \ {Max(d)}], s[Max(d)]) ELSE it[d \ {Max(d)}]
      BY <1>1, <1>5, <2>2 DEF WithoutIter
    <3> QED
      BY <2>2, <3>1, <3>2
  <2>3. \A d \in SUBSET (1 .. n) :
          d # {} /\ it[d \ {Max(d)}] \in X => it[d] = G[Max(d)][it[d \ {Max(d)}]]
    BY <2>2
  <2>4. FoldGoes(X, <<>>, n, G, it)
    BY <2>1, <2>3 DEF FoldGoes
  <2> HIDE DEF G, n, X
  <2> QED
    BY <1>1, <1>2, <2>4, FoldSteps
<1>7. /\ it[1 .. 0] = <<>>
       /\ \A k \in 1 .. n : /\ it[1 .. k - 1] \in X
                            /\ it[1 .. k] = IF s[k].ticket # ticket
                                            THEN Append(it[1 .. k - 1], s[k])
                                            ELSE it[1 .. k - 1]
  BY <1>6 DEF FoldTrail
<1> DEFINE Upto(k) == {s[i] : i \in {j \in 1 .. k : s[j].ticket # ticket}}
           S == {k \in 0 .. n : Once(it[1 .. k]) /\ it[1 .. k] \in X /\ ToSet(it[1 .. k]) = Upto(k)}
<1>8. 0 \in S
  <2>1. Once(<<>>) /\ ToSet(<<>>) = {} /\ Upto(0) = {} /\ 0 \in 0 .. n
    BY DEF Once, ToSet
  <2> QED
    BY <1>1, <1>7, <2>1
<1>9. ASSUME NEW k \in 1 .. n, k - 1 \in S
      PROVE  k \in S
  <2> DEFINE w == it[1 .. k - 1]
  <2>1. w \in X /\ Once(w) /\ ToSet(w) = Upto(k - 1) /\ s[k] \in E
    BY <1>1, <1>9
  <2>2. it[1 .. k] = IF s[k].ticket # ticket THEN Append(w, s[k]) ELSE w
    BY <1>7
  <2> HIDE DEF w
  <2>3. CASE s[k].ticket # ticket
    <3>1. ASSUME NEW r \in ToSet(w) PROVE r.ticket # s[k].ticket
      <4>1. PICK i \in 1 .. k - 1 : r = s[i]
        BY <2>1
      <4>2. i \in DOMAIN s /\ k \in DOMAIN s /\ i # k
        BY <1>1
      <4> QED
        BY <4>1, <4>2 DEF Once
    <3>2. /\ Append(w, s[k]) \in X /\ ToSet(Append(w, s[k])) = ToSet(w) \cup {s[k]}
          /\ Once(Append(w, s[k]))
      BY <2>1, <3>1, OnceAppended
    <3>3. Upto(k) = Upto(k - 1) \cup {s[k]}
      <4>1. 1 .. k = (1 .. k - 1) \cup {k}
        BY <1>1
      <4> QED
        BY <2>3, <4>1
    <3> DEFINE v == Append(w, s[k])
    <3>4. it[1 .. k] = v /\ v \in X /\ ToSet(v) = ToSet(w) \cup {s[k]} /\ Once(v)
      BY <2>2, <2>3, <3>2
    <3>5. k \in 0 .. n
      BY <1>1
    <3> HIDE DEF v
    <3> QED
      BY <2>1, <3>3, <3>4, <3>5
  <2>4. CASE s[k].ticket = ticket
    <3>1. Upto(k) = Upto(k - 1)
      <4>1. 1 .. k = (1 .. k - 1) \cup {k}
        BY <1>1
      <4> QED
        BY <2>4, <4>1
    <3> QED
      BY <1>1, <2>1, <2>2, <2>4, <3>1
  <2> QED
    BY <2>3, <2>4
<1>10. n \in S
  <2> HIDE DEF S, n
  <2>1. \A k \in 0 .. n : k \in S
    BY <1>1, <1>8, <1>9, EveryPosition
  <2> QED
    BY <1>1, <2>1
<1>11. Upto(n) = {r \in ToSet(s) : r.ticket # ticket}
  BY <1>1 DEF ToSet
<1> QED
  BY <1>1, <1>5, <1>10, <1>11

LEMMA OncePut ==
    ASSUME NEW E, NEW s \in Seq(E), Once(s)
    PROVE  /\ s \o <<>> = s
           /\ \A e \in E : (\A r \in ToSet(s) : r.ticket # e.ticket) =>
                /\ s \o <<e>> \in Seq(E) /\ ToSet(s \o <<e>>) = ToSet(s) \cup {e}
                /\ Once(s \o <<e>>)
<1>1. s \o <<>> = s
  BY ConcatEmptySeq
<1>2. ASSUME NEW e \in E, \A r \in ToSet(s) : r.ticket # e.ticket
      PROVE  /\ s \o <<e>> \in Seq(E) /\ ToSet(s \o <<e>>) = ToSet(s) \cup {e}
             /\ Once(s \o <<e>>)
  <2>1. s \o <<e>> = Append(s, e)
    OBVIOUS
  <2>2. Append(s, e) \in Seq(E) /\ ToSet(Append(s, e)) = ToSet(s) \cup {e} /\ Once(Append(s, e))
    BY <1>2, OnceAppended
  <2> QED
    BY <2>1, <2>2
<1> QED
  BY <1>1, <1>2

Stands(p) == p.volume > 0 /\ p.ticket # 0

\* p has taken the place of its ticket's record.
TakesPlace(E, s, p) ==
    /\ PlacedOne(s, p) \in Seq(E) /\ Once(PlacedOne(s, p))
    /\ ToSet(PlacedOne(s, p)) =
         {r \in ToSet(s) : r.ticket # p.ticket} \cup (IF Stands(p) THEN {p} ELSE {})

LEMMA PlacedOneKeeps ==
    ASSUME NEW E, NEW s \in Seq(E), Once(s), NEW p, Stands(p) => p \in E
    PROVE  TakesPlace(E, s, p)
<1> DEFINE w == Without(s, p.ticket)
<1>1. w \in Seq(E) /\ Once(w) /\ ToSet(w) = {r \in ToSet(s) : r.ticket # p.ticket}
  BY WithoutKeeps
<1>2. PlacedOne(s, p) = w \o IF Stands(p) THEN <<p>> ELSE <<>>
  BY DEF PlacedOne, Stands
<1> HIDE DEF w
<1>3. CASE Stands(p)
  <2>1. p \in E /\ \A r \in ToSet(w) : r.ticket # p.ticket
    BY <1>1, <1>3
  <2>2. /\ w \o <<p>> \in Seq(E) /\ ToSet(w \o <<p>>) = ToSet(w) \cup {p}
        /\ Once(w \o <<p>>)
    BY <1>1, <2>1, OncePut
  <2>3. PlacedOne(s, p) = w \o <<p>>
    BY <1>2, <1>3
  <2> QED
    BY <1>1, <1>3, <2>2, <2>3 DEF TakesPlace
<1>4. CASE ~Stands(p)
  <2>1. PlacedOne(s, p) = w
    BY <1>1, <1>2, <1>4, OncePut
  <2> QED
    BY <1>1, <1>4, <2>1 DEF TakesPlace
<1> QED
  BY <1>3, <1>4

PlacedIter(s, changed, it) ==
    it = [d \in SUBSET (DOMAIN changed) |->
            IF d = {} THEN s ELSE PlacedOne(it[d \ {Max(d)}], changed[Max(d)])]

LEMMA PlacedIsFold ==
    ASSUME NEW s, NEW changed, NEW jt, PlacedIter(s, changed, jt)
    PROVE  \E it : PlacedIter(s, changed, it) /\ Placed(s, changed) = it[DOMAIN changed]
<1>1. Placed(s, changed) = (CHOOSE it : PlacedIter(s, changed, it))[DOMAIN changed]
  BY Zenon DEF Placed, FoldLeft, MapThenFoldSet, PlacedIter
<1>2. PlacedIter(s, changed, CHOOSE it : PlacedIter(s, changed, it))
  OBVIOUS
<1> QED
  BY <1>1, <1>2

TakePlaces(E, s, changed) ==
    /\ Placed(s, changed) \in Seq(E) /\ Once(Placed(s, changed))
    /\ ToSet(Placed(s, changed)) =
         {r \in ToSet(s) : \A c \in ToSet(changed) : r.ticket # c.ticket}
           \cup {c \in ToSet(changed) : Stands(c)}

\* What a message says of positions takes the place of what was, and the rest stays.
LEMMA PlacedKeeps ==
    ASSUME NEW E, NEW s \in Seq(E), Once(s), NEW C, NEW changed \in Seq(C), Once(changed),
           \A c \in C : Stands(c) => c \in E
    PROVE  TakePlaces(E, s, changed)
<1> DEFINE n == Len(changed)
           X == {w \in Seq(E) : Once(w)}
           G == [i \in 1 .. n |-> [x \in X |-> PlacedOne(x, changed[i])]]
<1>1. n \in Nat /\ DOMAIN changed = 1 .. n /\ s \in X /\ \A i \in 1 .. n : changed[i] \in C
  OBVIOUS
<1>2. ASSUME NEW x \in X, NEW i \in 1 .. n
      PROVE  /\ PlacedOne(x, changed[i]) \in X
             /\ ToSet(PlacedOne(x, changed[i])) =
                  {r \in ToSet(x) : r.ticket # changed[i].ticket}
                    \cup (IF Stands(changed[i]) THEN {changed[i]} ELSE {})
  <2> DEFINE c == changed[i]
  <2>1. Stands(c) => c \in E
    BY <1>1
  <2>2. x \in Seq(E) /\ Once(x)
    OBVIOUS
  <2> HIDE DEF c
  <2>3. TakesPlace(E, x, c)
    BY <2>1, <2>2, PlacedOneKeeps
  <2> QED
    BY <2>3 DEF c, TakesPlace
<1>3. G \in [1 .. n -> [X -> X]]
  BY <1>2
<1>4. PICK jt : FoldValues(X, s, n, G, jt)
  <2>1. HasFold(X, s, n, G)
    <3> HIDE DEF G, n, X
    <3> QED
      BY <1>1, <1>3, FoldThere
  <2> QED
    BY <2>1 DEF HasFold
<1>5. PlacedIter(s, changed, jt)
  <2>1. jt \in [SUBSET (DOMAIN changed) -> X]
    BY <1>1, <1>4 DEF FoldValues
  <2>2. ASSUME NEW d \in SUBSET (DOMAIN changed)
        PROVE  jt[d] = IF d = {} THEN s ELSE PlacedOne(jt[d \ {Max(d)}], changed[Max(d)])
    <3>1. CASE d = {}
      BY <1>4, <3>1 DEF FoldValues
    <3>2. CASE d # {}
      <4>1. /\ Max(d) \in 1 .. n /\ jt[d \ {Max(d)}] \in X
            /\ jt[d] = G[Max(d)][jt[d \ {Max(d)}]]
        BY <1>1, <1>4, <3>2 DEF FoldValues
      <4> QED
        BY <3>2, <4>1
    <3> QED
      BY <3>1, <3>2
  <2> QED
    BY <2>1, <2>2 DEF PlacedIter
<1>6. PICK it : PlacedIter(s, changed, it) /\ Placed(s, changed) = it[DOMAIN changed]
  <2> HIDE DEF G, n, X
  <2> QED
    BY <1>5, PlacedIsFold
<1>7. FoldTrail(X, s, n, G, it)
  <2>1. it[{}] = s
    BY <1>6 DEF PlacedIter
  <2>2. ASSUME NEW d \in SUBSET (1 .. n), d # {}, it[d \ {Max(d)}] \in X
        PROVE  it[d] = G[Max(d)][it[d \ {Max(d)}]]
    <3>1. Max(d) \in 1 .. n
      BY <1>1, <2>2, MaxIsIn
    <3>2. it[d] = PlacedOne(it[d \ {Max(d)}], changed[Max(d)])
      BY <1>1, <1>6, <2>2 DEF PlacedIter
    <3> QED
      BY <2>2, <3>1, <3>2
  <2>3. FoldGoes(X, s, n, G, it)
    BY <2>1, <2>2 DEF FoldGoes
  <2> HIDE DEF G, n, X
  <2> QED
    BY <1>1, <1>3, <2>3, FoldSteps
<1>8. /\ it[1 .. 0] = s
      /\ \A k \in 1 .. n : /\ it[1 .. k - 1] \in X
                           /\ it[1 .. k] = PlacedOne(it[1 .. k - 1], changed[k])
  BY <1>7 DEF FoldTrail
<1> DEFINE Said(k) ==
             {r \in ToSet(s) : \A i \in 1 .. k : r.ticket # changed[i].ticket}
               \cup {changed[i] : i \in {j \in 1 .. k : Stands(changed[j])}}
           S == {k \in 0 .. n : it[1 .. k] \in X /\ ToSet(it[1 .. k]) = Said(k)}
<1>9. 0 \in S
  <2>1. Said(0) = ToSet(s) /\ 0 \in 0 .. n
    BY <1>1
  <2> QED
    BY <1>1, <1>8, <2>1
<1>10. ASSUME NEW k \in 1 .. n, k - 1 \in S
      PROVE  k \in S
  <2> DEFINE w == it[1 .. k - 1]
             v == it[1 .. k]
             c == changed[k]
  <2>1. w \in X /\ ToSet(w) = Said(k - 1)
    BY <1>10
  <2>2. v = PlacedOne(w, c) /\ k \in 0 .. n
    BY <1>8, <1>1
  <2>3. /\ v \in X
        /\ ToSet(v) = {r \in ToSet(w) : r.ticket # c.ticket} \cup (IF Stands(c) THEN {c} ELSE {})
    <3> HIDE DEF v, w, X, n
    <3> QED
      BY <1>2, <2>1, <2>2
  <2> HIDE DEF v, w, X
  <2>4. Said(k) = {r \in Said(k - 1) : r.ticket # c.ticket} \cup (IF Stands(c) THEN {c} ELSE {})
    <3>1. 1 .. k = (1 .. k - 1) \cup {k} /\ k \notin 1 .. k - 1
      BY <1>1
    <3>2. ASSUME NEW i \in 1 .. k - 1 PROVE changed[i].ticket # c.ticket
      <4>1. i \in DOMAIN changed /\ k \in DOMAIN changed /\ i # k
        BY <1>1
      <4> QED
        BY <4>1 DEF Once
    <3>3. ASSUME NEW x \in Said(k)
          PROVE  x \in {r \in Said(k - 1) : r.ticket # c.ticket} \cup (IF Stands(c) THEN {c} ELSE {})
      <4>1. CASE x \in ToSet(s) /\ \A i \in 1 .. k : x.ticket # changed[i].ticket
        BY <3>1, <4>1
      <4>2. ASSUME NEW i \in 1 .. k, Stands(changed[i]), x = changed[i]
            PROVE  x \in {r \in Said(k - 1) : r.ticket # c.ticket} \cup (IF Stands(c) THEN {c} ELSE {})
        <5>1. CASE i = k
          BY <4>2, <5>1
        <5>2. CASE i \in 1 .. k - 1
          BY <3>2, <4>2, <5>2
        <5> QED
          BY <3>1, <5>1, <5>2
      <4> QED
        BY <3>3, <4>1, <4>2
    <3>4. ASSUME NEW x \in Said(k - 1), x.ticket # c.ticket
          PROVE  x \in Said(k)
      <4>1. CASE x \in ToSet(s) /\ \A i \in 1 .. k - 1 : x.ticket # changed[i].ticket
        BY <3>1, <3>4, <4>1
      <4>2. ASSUME NEW i \in 1 .. k - 1, Stands(changed[i]), x = changed[i]
            PROVE  x \in Said(k)
        <5>1. i \in 1 .. k
          BY <3>1
        <5> QED
          BY <4>2, <5>1
      <4> QED
        BY <3>4, <4>1, <4>2
    <3>5. Stands(c) => c \in Said(k)
      <4>1. k \in 1 .. k
        BY <3>1
      <4> QED
        BY <4>1
    <3> HIDE DEF Said
    <3> QED
      BY <3>3, <3>4, <3>5
  <2> HIDE DEF Said
  <2>5. ToSet(v) = Said(k)
    BY <2>1, <2>3, <2>4
  <2> QED
    BY <2>2, <2>3, <2>5 DEF v
<1>11. n \in S
  <2> HIDE DEF S, n
  <2>1. \A k \in 0 .. n : k \in S
    BY <1>1, <1>9, <1>10, EveryPosition
  <2> QED
    BY <1>1, <2>1
<1>12. Said(n) = {r \in ToSet(s) : \A c \in ToSet(changed) : r.ticket # c.ticket}
                   \cup {c \in ToSet(changed) : Stands(c)}
  BY <1>1 DEF ToSet
<1> QED
  BY <1>1, <1>6, <1>11, <1>12 DEF TakePlaces

------------------------------------------------------------------------------
(* The client's book *)

PositionsHeld == [ticket : BookTickets, symbol : Ids, volume : {1, 2}]
\* A record tells of a position, of its end, or of a deal without one.
PositionRecords ==
    [ticket : BookTickets, symbol : Ids, volume : {0, 1, 2}]
      \cup [ticket : {0}, symbol : {""}, volume : {1}]
OrdersHeld == [ticket : BookTickets, version : Nat]
BothSides == [bid : Nat, ask : Nat]
DepthRecords == [id : Ids, n : Nat]
Got == taken.quotes \o streams.changedQuotes
GotDepth == taken.depth \o streams.changedDepth

Sequence(s) == \E S : s \in Seq(S)

OfEachTicket(records) == \A p, q \in records : p.ticket = q.ticket => p = q

\* A field whose values do not matter is in the set of its own value.
AccountTyped(a) ==
    /\ a \in [positions : SUBSET PositionsHeld, orders : SUBSET OrdersHeld, balance : Int,
              symbols : {a.symbols}, pushes : Nat]
    /\ IsFiniteSet(a.positions) /\ OfEachTicket(a.positions) /\ OfEachTicket(a.orders)
    /\ DOMAIN a.symbols \subseteq Ids /\ \A id \in DOMAIN a.symbols : a.symbols[id] \in Nat
ToldTyped(t) ==
    t \in [sides : [Ids -> BothSides], quotes : Seq(Ids \X BothSides), depth : Seq(DepthRecords)]
BrokerTyped == AccountTyped(account) /\ ToldTyped(told) /\ Sequence(wire)

\* Each symbol has one place, and is found by its id.
Indexed ==
    /\ Listed(book) \subseteq Ids
    /\ \A id \in Listed(book) : /\ book.symbolIds[id] \in DOMAIN book.symbols
                                /\ book.symbols[book.symbolIds[id]].id = id
    /\ \A i \in DOMAIN book.symbols : /\ book.symbols[i].id \in Listed(book)
                                      /\ book.symbolIds[book.symbols[i].id] = i

BookTyped ==
    /\ book \in [positions : Seq(PositionsHeld), orders : Seq(OrdersHeld), balance : Int,
                 symbols : Seq([id : Ids, version : Nat]), symbolIds : {book.symbolIds}]
    /\ Once(book.positions) /\ Once(book.orders)
    /\ Indexed

StreamsTyped ==
    /\ streams \in [subscriptions : {streams.subscriptions}, quotes : {streams.quotes},
                    changedQuotes : Seq(Ids \X BothSides), changedDepth : Seq(DepthRecords)]
    /\ taken \in [quotes : Seq(Ids \X BothSides), depth : Seq(DepthRecords)]
    /\ sound \in BOOLEAN

\* The broker's state, as far as the client follows it, after each push.
Stage(a, t) == [positions |-> a.positions, orders |-> a.orders, balance |-> a.balance,
                symbols |-> a.symbols, sides |-> t.sides, quotes |-> t.quotes, depth |-> t.depth]
Now == Stage(account, told)

IsAccount(a) ==
    /\ a.positions \subseteq PositionsHeld /\ OfEachTicket(a.positions)
    /\ a.orders \subseteq OrdersHeld /\ OfEachTicket(a.orders)
    /\ a.balance \in Int
    /\ DOMAIN a.symbols \subseteq Ids /\ \A id \in DOMAIN a.symbols : a.symbols[id] \in Nat
    /\ a.sides \in [Ids -> BothSides]
    /\ a.quotes \in Seq(Ids \X BothSides) /\ a.depth \in Seq(DepthRecords)

SameRecords(a, b) == b.positions = a.positions /\ b.orders = a.orders
SameAccount(a, b) == SameRecords(a, b) /\ b.balance = a.balance /\ b.symbols = a.symbols
SameTold(a, b) == b.sides = a.sides /\ b.quotes = a.quotes /\ b.depth = a.depth

\* What each push tells: m leads from a to b.
QuoteAfter(a, m) == [bid |-> Side(a.sides[m.id].bid, m.bid), ask |-> Side(a.sides[m.id].ask, m.ask)]
TellsQuote(a, m, b) ==
    /\ m.kind = "quote" /\ m.id \in Ids /\ m.bid \in Nat /\ m.ask \in Nat
    /\ SameAccount(a, b) /\ b.depth = a.depth
    /\ b.sides = [a.sides EXCEPT ![m.id] = QuoteAfter(a, m)]
    /\ b.quotes = IF TwoSided(QuoteAfter(a, m)) THEN Append(a.quotes, <<m.id, QuoteAfter(a, m)>>)
                  ELSE a.quotes
TellsDepth(a, m, b) ==
    /\ m.kind = "depth" /\ m.records \in Seq(DepthRecords)
    /\ SameAccount(a, b) /\ b.sides = a.sides /\ b.quotes = a.quotes
    /\ b.depth = a.depth \o m.records
TellsSymbol(a, m, b) ==
    /\ m.kind = "symbol" /\ m.id \in Ids /\ m.version \in Nat
    /\ SameRecords(a, b) /\ b.balance = a.balance /\ SameTold(a, b)
    /\ DOMAIN b.symbols = DOMAIN a.symbols \cup {m.id}
    /\ \A id \in DOMAIN b.symbols : b.symbols[id] = IF id = m.id THEN m.version ELSE a.symbols[id]
TellsOrder(a, m, b) ==
    /\ m.kind = "order" /\ m.order \in OrdersHeld
    /\ b.positions = a.positions /\ b.balance = a.balance /\ b.symbols = a.symbols
    /\ SameTold(a, b)
    /\ b.orders = {r \in a.orders : r.ticket # m.order.ticket}
                    \cup (IF m.change = "Delete" THEN {} ELSE {m.order})
TellsPositions(a, m, b) ==
    /\ m.kind = "positions" /\ m.positions \in Seq(PositionRecords) /\ Once(m.positions)
    /\ m.deal \in BOOLEAN /\ m.balance \in Int
    /\ b.orders = a.orders /\ b.symbols = a.symbols /\ SameTold(a, b)
    /\ b.balance = IF m.deal THEN m.balance ELSE a.balance
    /\ b.positions = {r \in a.positions : \A c \in ToSet(m.positions) : r.ticket # c.ticket}
                       \cup {c \in ToSet(m.positions) : Stands(c)}
TellsBalance(a, m, b) ==
    /\ m.kind = "account" /\ m.own \in BOOLEAN /\ m.balance \in Int
    /\ SameRecords(a, b) /\ b.symbols = a.symbols /\ SameTold(a, b)
    /\ b.balance = IF m.own THEN m.balance ELSE a.balance

Follows(a, m, b) ==
    \/ TellsQuote(a, m, b) \/ TellsDepth(a, m, b) \/ TellsSymbol(a, m, b)
    \/ TellsOrder(a, m, b) \/ TellsPositions(a, m, b) \/ TellsBalance(a, m, b)

\* The client has what the broker had.
Agrees(a) ==
    /\ ToSet(book.positions) = a.positions /\ ToSet(book.orders) = a.orders
    /\ book.balance = a.balance
    /\ Listed(book) = DOMAIN a.symbols
    /\ \A id \in Listed(book) : book.symbols[book.symbolIds[id]].version = a.symbols[id]
    /\ \A id \in Ids : QuoteOf(id) = a.sides[id]
    /\ Got = a.quotes /\ GotDepth = a.depth

Begins(s, t) == Len(s) <= Len(t) /\ \A i \in 1 .. Len(s) : s[i] = t[i]

\* h goes from what the client has, push by push, to what the broker has.
Past(h) ==
    /\ \A i \in 0 .. Len(wire) : /\ IsAccount(h[i])
                                 /\ Begins(h[i].quotes, told.quotes)
                                 /\ Begins(h[i].depth, told.depth)
    /\ h[Len(wire)] = Now
    /\ \A i \in 1 .. Len(wire) : Follows(h[i - 1], wire[i], h[i])
    /\ sound => Agrees(h[0])

BookInv ==
    /\ BrokerTyped /\ BookTyped /\ StreamsTyped
    /\ Begins(Got, told.quotes) /\ Begins(GotDepth, told.depth)
    /\ \E h : Past(h)

LEMMA AppendAny ==
    ASSUME NEW s, Sequence(s), NEW e
    PROVE  /\ Sequence(Append(s, e)) /\ Len(s) \in Nat /\ Len(Append(s, e)) = Len(s) + 1
           /\ Append(s, e)[Len(s) + 1] = e
           /\ \A i \in 1 .. Len(s) : Append(s, e)[i] = s[i]
<1>1. PICK S : s \in Seq(S)
  BY DEF Sequence
<1>2. s \in Seq(S \cup {e}) /\ e \in S \cup {e}
  BY <1>1, SeqMonotonic
<1>3. Append(s, e) \in Seq(S \cup {e})
  BY <1>2, AppendProperties
<1> QED
  BY <1>2, <1>3, AppendProperties DEF Sequence

LEMMA TailAny ==
    ASSUME NEW s, Sequence(s), s # <<>>
    PROVE  /\ Sequence(Tail(s)) /\ Len(s) \in Nat \ {0} /\ Len(Tail(s)) = Len(s) - 1
           /\ Head(s) = s[1]
           /\ \A i \in 1 .. Len(s) - 1 : Tail(s)[i] = s[i + 1]
<1>1. PICK S : s \in Seq(S)
  BY DEF Sequence
<1>2. Tail(s) \in Seq(S)
  BY <1>1, HeadTailProperties
<1> QED
  BY <1>1, <1>2, HeadTailProperties, EmptySeq DEF Sequence

\* A push the broker sends.
LEMMA PushedInv ==
    ASSUME BookInv, NEW m, Push(m), BrokerTyped', IsAccount(Now)', NEW now, now = Now',
           Follows(Now, m, now),
           NEW e \in Seq(Ids \X BothSides), told'.quotes = told.quotes \o e,
           NEW d \in Seq(DepthRecords), told'.depth = told.depth \o d
    PROVE  BookInv'
<1>1. PICK h : Past(h)
  BY DEF BookInv
<1> DEFINE n == Len(wire)
<1>2. /\ wire' = Append(wire, m) /\ n \in Nat /\ Len(wire') = n + 1
      /\ wire'[n + 1] = m /\ \A i \in 1 .. n : wire'[i] = wire[i]
  BY AppendAny DEF Push, BookInv, BrokerTyped
<1>3. UNCHANGED <<streamed, book, streams, taken, sound>>
  BY DEF Push
<1>4. ASSUME NEW S, NEW s \in Seq(S), NEW t \in Seq(S), NEW u \in Seq(S), Begins(s, t)
      PROVE  Begins(s, t \o u)
  <2>1. Len(t \o u) = Len(t) + Len(u) /\ \A i \in 1 .. Len(t) : (t \o u)[i] = t[i]
    BY ConcatProperties
  <2> QED
    BY <1>4, <2>1 DEF Begins
<1>5. told.quotes \in Seq(Ids \X BothSides) /\ told.depth \in Seq(DepthRecords)
  BY DEF BookInv, BrokerTyped, ToldTyped
<1>6. /\ taken.quotes \in Seq(Ids \X BothSides) /\ streams.changedQuotes \in Seq(Ids \X BothSides)
      /\ taken.depth \in Seq(DepthRecords) /\ streams.changedDepth \in Seq(DepthRecords)
  BY DEF BookInv, StreamsTyped
<1>7. Got \in Seq(Ids \X BothSides) /\ GotDepth \in Seq(DepthRecords)
  BY <1>6, ConcatProperties DEF Got, GotDepth
<1>8. Begins(Got, told.quotes)' /\ Begins(GotDepth, told.depth)'
  <2>1. Begins(Got, told.quotes \o e) /\ Begins(GotDepth, told.depth \o d)
    BY <1>4, <1>5, <1>7 DEF BookInv
  <2>2. Got' = Got /\ GotDepth' = GotDepth
    BY <1>3 DEF Got, GotDepth
  <2> QED
    BY <2>1, <2>2 DEF Begins
<1>9. PICK g : g[n + 1] = now /\ \A i \in 0 .. n : g[i] = h[i]
  <2> DEFINE f == [i \in 0 .. n + 1 |-> IF i = n + 1 THEN now ELSE h[i]]
  <2>1. f[n + 1] = now /\ \A i \in 0 .. n : f[i] = h[i]
    BY <1>2
  <2> HIDE DEF f
  <2> QED
    BY <2>1
<1>10. Past(g)'
  <2>1. ASSUME NEW i \in 0 .. n + 1
        PROVE  (IsAccount(g[i]) /\ Begins(g[i].quotes, told.quotes) /\ Begins(g[i].depth, told.depth))'
    <3>1. CASE i \in 0 .. n
      <4>1. /\ IsAccount(h[i])
            /\ Begins(h[i].quotes, told.quotes) /\ Begins(h[i].depth, told.depth)
        BY <1>1, <3>1 DEF Past
      <4>2. h[i].quotes \in Seq(Ids \X BothSides) /\ h[i].depth \in Seq(DepthRecords)
        BY <4>1 DEF IsAccount
      <4>3. Begins(h[i].quotes, told.quotes \o e) /\ Begins(h[i].depth, told.depth \o d)
        BY <1>4, <1>5, <4>1, <4>2
      <4> QED
        BY <1>9, <3>1, <4>1, <4>3
    <3>2. CASE i = n + 1
      <4>1. now.quotes = told'.quotes /\ now.depth = told'.depth
        BY DEF Now, Stage
      <4>2. IsAccount(now)
        BY DEF IsAccount
      <4>3. now.quotes \in Seq(Ids \X BothSides) /\ now.depth \in Seq(DepthRecords)
        BY <4>2 DEF IsAccount
      <4>4. Begins(now.quotes, now.quotes) /\ Begins(now.depth, now.depth)
        BY <4>3 DEF Begins
      <4>5. (IsAccount(now) /\ Begins(now.quotes, told.quotes) /\ Begins(now.depth, told.depth))'
        BY <4>1, <4>2, <4>4
      <4>6. g[i] = now
        BY <1>9, <3>2
      <4> QED
        BY <4>5, <4>6
    <3> QED
      BY <1>2, <3>1, <3>2
  <2>2. ASSUME NEW i \in 1 .. n + 1
        PROVE  Follows(g[i - 1], wire'[i], g[i])
    <3>1. CASE i \in 1 .. n
      <4>1. i - 1 \in 0 .. n /\ i \in 0 .. n
        BY <1>2, <3>1
      <4>2. Follows(h[i - 1], wire[i], h[i])
        BY <1>1, <3>1 DEF Past
      <4>3. g[i - 1] = h[i - 1] /\ g[i] = h[i] /\ wire'[i] = wire[i]
        BY <1>2, <1>9, <3>1, <4>1
      <4> QED
        BY <4>2, <4>3
    <3>2. CASE i = n + 1
      <4>1. i - 1 = n /\ n \in 0 .. n /\ h[n] = Now
        BY <1>1, <1>2, <3>2 DEF Past
      <4>2. g[i - 1] = Now /\ g[i] = now /\ wire'[i] = m
        BY <1>2, <1>9, <3>2, <4>1
      <4> QED
        BY <4>2
    <3> QED
      BY <1>2, <3>1, <3>2
  <2>3. sound' => Agrees(g[0])'
    <3>1. g[0] = h[0]
      BY <1>2, <1>9
    <3>2. sound => Agrees(h[0])
      BY <1>1 DEF Past
    <3> QED
      BY <1>3, <3>1, <3>2 DEF Agrees, QuoteOf, Got, GotDepth, Listed
  <2> QED
    BY <1>2, <1>9, <2>1, <2>2, <2>3 DEF Past
<1>11. BookTyped' /\ StreamsTyped'
  BY <1>3 DEF BookInv, BookTyped, StreamsTyped, Indexed, Listed
<1> QED
  BY <1>8, <1>10, <1>11 DEF BookInv

\* A push the client reads: it then has what the broker had after that push, or
\* is not used again.
LEMMA PolledInv ==
    ASSUME BookInv, wire # <<>>, wire' = Tail(wire), UNCHANGED <<account, told>>,
           BookTyped', StreamsTyped', Begins(Got, told.quotes)', Begins(GotDepth, told.depth)',
           NEW h, Past(h), sound' => Agrees(h[1])'
    PROVE  BookInv'
<1> DEFINE n == Len(wire)
<1>1. /\ n \in Nat \ {0} /\ Len(wire') = n - 1 /\ Sequence(wire')
      /\ \A i \in 1 .. n - 1 : wire'[i] = wire[i + 1]
  BY TailAny DEF BookInv, BrokerTyped
<1>2. PICK g : \A i \in 0 .. n - 1 : g[i] = h[i + 1]
  <2> DEFINE f == [i \in 0 .. n - 1 |-> h[i + 1]]
  <2>1. \A i \in 0 .. n - 1 : f[i] = h[i + 1]
    OBVIOUS
  <2> HIDE DEF f
  <2> QED
    BY <2>1
<1>3. Past(g)'
  <2>1. ASSUME NEW i \in 0 .. n - 1
        PROVE  (IsAccount(g[i]) /\ Begins(g[i].quotes, told.quotes) /\ Begins(g[i].depth, told.depth))'
    <3>1. i + 1 \in 0 .. n
      BY <1>1
    <3> QED
      BY <1>2, <3>1 DEF Past
  <2>2. ASSUME NEW i \in 1 .. n - 1
        PROVE  Follows(g[i - 1], wire'[i], g[i])
    <3>1. i + 1 \in 1 .. n /\ i - 1 \in 0 .. n - 1 /\ i \in 0 .. n - 1 /\ i - 1 + 1 = i
          /\ i + 1 - 1 = i
      BY <1>1
    <3>2. Follows(h[i + 1 - 1], wire[i + 1], h[i + 1])
      BY <3>1 DEF Past
    <3> QED
      BY <1>1, <1>2, <3>1, <3>2
  <2>3. g[n - 1] = Now'
    <3>1. n - 1 \in 0 .. n - 1 /\ n - 1 + 1 = n
      BY <1>1
    <3> QED
      BY <1>2, <3>1 DEF Past, Now, Stage
  <2>4. g[0] = h[1]
    BY <1>1, <1>2
  <2> QED
    BY <1>1, <2>1, <2>2, <2>3, <2>4 DEF Past
<1>4. BrokerTyped'
  BY <1>1 DEF BookInv, BrokerTyped
<1> QED
  BY <1>3, <1>4 DEF BookInv

LEMMA StageIsAccount ==
    ASSUME NEW a, AccountTyped(a), NEW t, ToldTyped(t)
    PROVE  IsAccount(Stage(a, t))
  BY DEF AccountTyped, ToldTyped, IsAccount, Stage

\* A change of the account, and the push that tells of it.
LEMMA ChangedInv ==
    ASSUME BookInv, NEW a, AccountTyped(a), NEW m, Push(m), account' = a, UNCHANGED told,
           Follows(Now, m, Stage(a, told))
    PROVE  BookInv'
<1>1. Sequence(wire') /\ AccountTyped(account) /\ ToldTyped(told)
  BY AppendAny DEF Push, BookInv, BrokerTyped
<1>2. BrokerTyped'
  BY <1>1 DEF BrokerTyped, AccountTyped, ToldTyped
<1>3. Now' = Stage(a, told)
  BY DEF Now, Stage
<1>4. IsAccount(Stage(a, told))
  BY <1>1, StageIsAccount
<1>5. IsAccount(Now)'
  BY <1>3, <1>4 DEF IsAccount
<1>6. told.quotes = told.quotes \o <<>> /\ told.depth = told.depth \o <<>>
  BY <1>1, ConcatEmptySeq DEF ToldTyped
<1>7. <<>> \in Seq(Ids \X BothSides) /\ <<>> \in Seq(DepthRecords)
  BY EmptySeq
<1>8. told'.quotes = told.quotes \o <<>> /\ told'.depth = told.depth \o <<>>
  BY <1>6
<1> QED
  BY <1>2, <1>3, <1>5, <1>7, <1>8, PushedInv

LEMMA BookConstants ==
    /\ \A t \in BookTickets : t \in Nat /\ t # 0
    /\ ToSet(AtLogin) \subseteq Ids /\ QuoteLimit \in Nat /\ DepthLimit \in Nat
    /\ AtLogin \in Seq(Ids) /\ \A i, j \in DOMAIN AtLogin : AtLogin[i] = AtLogin[j] => i = j
  BY BookAssumption DEF ToSet, Ids

LEMMA OneRecord ==
    ASSUME NEW E, NEW p \in E
    PROVE  <<p>> \in Seq(E) /\ ToSet(<<p>>) = {p} /\ Once(<<p>>)
<1>1. DOMAIN <<p>> = {1} /\ <<p>>[1] = p /\ <<p>> \in Seq(E)
  OBVIOUS
<1> QED
  BY <1>1 DEF ToSet, Once

LEMMA AccountParts ==
    ASSUME AccountTyped(account)
    PROVE  /\ account = [positions |-> account.positions, orders |-> account.orders,
                         balance |-> account.balance, symbols |-> account.symbols,
                         pushes |-> account.pushes]
           /\ account.positions \subseteq PositionsHeld /\ account.orders \subseteq OrdersHeld
           /\ account.balance \in Int /\ account.pushes \in Nat
           /\ DOMAIN account.symbols \subseteq Ids
           /\ \A id \in DOMAIN account.symbols : account.symbols[id] \in Nat
           /\ IsFiniteSet(account.positions)
           /\ OfEachTicket(account.positions) /\ OfEachTicket(account.orders)
<1>1. account \in [positions : SUBSET PositionsHeld, orders : SUBSET OrdersHeld, balance : Int,
                   symbols : {account.symbols}, pushes : Nat]
  BY DEF AccountTyped
<1> QED
  BY <1>1 DEF AccountTyped

LEMMA NewAccount ==
    ASSUME NEW p, p \subseteq PositionsHeld, IsFiniteSet(p), OfEachTicket(p),
           NEW o, o \subseteq OrdersHeld, OfEachTicket(o), NEW b \in Int,
           NEW s, DOMAIN s \subseteq Ids, \A id \in DOMAIN s : s[id] \in Nat, NEW n \in Nat
    PROVE  AccountTyped([positions |-> p, orders |-> o, balance |-> b, symbols |-> s,
                         pushes |-> n])
<1> DEFINE a == [positions |-> p, orders |-> o, balance |-> b, symbols |-> s, pushes |-> n]
<1>1. /\ a \in [positions : SUBSET PositionsHeld, orders : SUBSET OrdersHeld, balance : Int,
                symbols : {s}, pushes : Nat]
      /\ a.positions = p /\ a.orders = o /\ a.symbols = s
  OBVIOUS
<1> HIDE DEF a
<1> QED
  BY <1>1 DEF AccountTyped

\* What a push says of positions, and the positions and the balance there then are.
LEMMA PositionsInv ==
    ASSUME BookInv, NEW set, set \subseteq PositionsHeld, IsFiniteSet(set), OfEachTicket(set),
           NEW records \in Seq(PositionRecords), Once(records), NEW deal \in BOOLEAN,
           NEW paid \in Int, Push(PositionsPush(records, deal, paid)), UNCHANGED told,
           NEW balance \in Int, balance = IF deal THEN paid ELSE account.balance,
           account' = [positions |-> set, orders |-> account.orders, balance |-> balance,
                       symbols |-> account.symbols, pushes |-> account.pushes + 1],
           set = {r \in account.positions : \A c \in ToSet(records) : r.ticket # c.ticket}
                   \cup {c \in ToSet(records) : Stands(c)}
    PROVE  BookInv'
<1> DEFINE a == [positions |-> set, orders |-> account.orders, balance |-> balance,
                 symbols |-> account.symbols, pushes |-> account.pushes + 1]
           m == PositionsPush(records, deal, paid)
<1>1. AccountTyped(account) /\ ToldTyped(told)
  BY DEF BookInv, BrokerTyped
<1>2. AccountTyped(a)
  <2>1. /\ account.orders \subseteq OrdersHeld /\ OfEachTicket(account.orders)
        /\ DOMAIN account.symbols \subseteq Ids
        /\ \A id \in DOMAIN account.symbols : account.symbols[id] \in Nat
        /\ account.pushes + 1 \in Nat
    BY <1>1, AccountParts
  <2> QED
    BY <2>1, NewAccount
<1>3. m.kind = "positions" /\ m.positions = records /\ m.deal = deal /\ m.balance = paid
  BY DEF PositionsPush
<1>4. /\ a.positions = set /\ a.orders = account.orders
      /\ a.symbols = account.symbols /\ a.balance = balance
  OBVIOUS
<1>5. account' = a /\ Push(m)
  OBVIOUS
<1> HIDE DEF m, a
<1>6. Stage(a, told).positions =
        {r \in Now.positions : \A c \in ToSet(m.positions) : r.ticket # c.ticket}
          \cup {c \in ToSet(m.positions) : Stands(c)}
  BY <1>3, <1>4 DEF Now, Stage
<1>7. TellsPositions(Now, m, Stage(a, told))
  BY <1>3, <1>4, <1>6 DEF TellsPositions, Now, Stage, SameTold
<1> QED
  BY <1>2, <1>5, <1>7, ChangedInv DEF Follows

LEMMA OpenInv ==
    ASSUME BookInv, NEW t \in BookTickets, NEW s \in DOMAIN account.symbols, Open(t, s)
    PROVE  BookInv'
<1> DEFINE p == [ticket |-> t, symbol |-> s, volume |-> 1]
           set == account.positions \cup {p}
<1>1. AccountTyped(account) /\ ToldTyped(told)
  BY DEF BookInv, BrokerTyped
<1>2. t \notin TicketsIn(account.positions) /\ Push(PositionsPush(<<p>>, TRUE, account.balance)) /\ UNCHANGED told
  BY DEF Open, Change
<1>3. account' = [positions |-> set, orders |-> account.orders, balance |-> account.balance,
                  symbols |-> account.symbols, pushes |-> account.pushes + 1]
  BY <1>1, AccountParts DEF Open, Change
<1>4. p \in PositionsHeld /\ p \in PositionRecords /\ Stands(p)
  <2>1. s \in Ids /\ t # 0
    BY <1>1, BookConstants DEF AccountTyped
  <2>2. p \in PositionsHeld
    BY <2>1 DEF PositionsHeld
  <2>3. p \in PositionRecords
    BY <2>1 DEF PositionRecords
  <2>4. Stands(p)
    BY <2>1 DEF Stands
  <2> QED
    BY <2>2, <2>3, <2>4
<1>5. \A r \in account.positions : r.ticket # p.ticket
  BY <1>2 DEF TicketsIn
<1> HIDE DEF p
<1>6. IsFiniteSet(set) /\ OfEachTicket(set) /\ set \subseteq PositionsHeld
  BY <1>1, <1>4, <1>5, AccountParts, FS_AddElement DEF OfEachTicket
<1>7. set = {r \in account.positions : r.ticket # p.ticket} \cup {p}
  BY <1>5
<1>8. <<p>> \in Seq(PositionRecords) /\ ToSet(<<p>>) = {p} /\ Once(<<p>>)
  BY <1>4, OneRecord
<1>9. set = {r \in account.positions : \A c \in ToSet(<<p>>) : r.ticket # c.ticket}
              \cup {c \in ToSet(<<p>>) : Stands(c)}
  BY <1>4, <1>7, <1>8
<1>10. account.balance \in Int
  BY <1>1, AccountParts
<1> HIDE DEF set
<1> QED
  BY <1>2, <1>3, <1>6, <1>8, <1>9, <1>10, PositionsInv

LEMMA ModifyInv ==
    ASSUME BookInv, NEW p \in account.positions, Modify(p)
    PROVE  BookInv'
<1> DEFINE new == [p EXCEPT !.volume = 3 - @]
           set == (account.positions \ {p}) \cup {new}
<1>1. AccountTyped(account)
  BY DEF BookInv, BrokerTyped
<1>2. p \in PositionsHeld /\ OfEachTicket(account.positions)
  BY <1>1, AccountParts
<1>3. Push(PositionsPush(<<new>>, FALSE, 0)) /\ UNCHANGED told
  BY DEF Modify, Change
<1>4. account' = [positions |-> set, orders |-> account.orders, balance |-> account.balance,
                  symbols |-> account.symbols, pushes |-> account.pushes + 1]
  BY <1>1, AccountParts DEF Modify, Change
<1>5. new.ticket = p.ticket /\ new \in PositionsHeld /\ new \in PositionRecords /\ Stands(new)
  <2>1. p.ticket \in BookTickets /\ p.ticket # 0 /\ p.symbol \in Ids /\ p.volume \in {1, 2}
        /\ p = [ticket |-> p.ticket, symbol |-> p.symbol, volume |-> p.volume]
    BY <1>2, BookConstants DEF PositionsHeld
  <2>2. new = [ticket |-> p.ticket, symbol |-> p.symbol, volume |-> 3 - p.volume]
    BY <2>1
  <2>3. 3 - p.volume \in {1, 2}
    BY <2>1
  <2>4. new \in PositionsHeld
    BY <2>1, <2>2, <2>3 DEF PositionsHeld
  <2>5. new \in PositionRecords
    BY <2>1, <2>2, <2>3 DEF PositionRecords
  <2>6. Stands(new)
    BY <2>1, <2>2, <2>3 DEF Stands
  <2> QED
    BY <2>2, <2>4, <2>5, <2>6
<1> HIDE DEF new
<1>6. account.positions \ {p} = {r \in account.positions : r.ticket # new.ticket}
  BY <1>2, <1>5 DEF OfEachTicket
<1>7. <<new>> \in Seq(PositionRecords) /\ ToSet(<<new>>) = {new} /\ Once(<<new>>)
  BY <1>5, OneRecord
<1>8. set = {r \in account.positions : \A c \in ToSet(<<new>>) : r.ticket # c.ticket}
              \cup {c \in ToSet(<<new>>) : Stands(c)}
  BY <1>5, <1>6, <1>7
<1>9. OfEachTicket(set) /\ set \subseteq PositionsHeld
  BY <1>1, <1>2, <1>5, <1>6, AccountParts DEF OfEachTicket
<1>10. IsFiniteSet(set)
  BY <1>1, AccountParts, FS_RemoveElement, FS_AddElement
<1>11. /\ account.balance \in Int /\ FALSE \in BOOLEAN /\ 0 \in Int
       /\ account.balance = IF FALSE THEN 0 ELSE account.balance
  BY <1>1, AccountParts
<1> HIDE DEF set
<1> QED
  BY <1>3, <1>4, <1>7, <1>8, <1>9, <1>10, <1>11, PositionsInv

LEMMA DepositInv ==
    ASSUME BookInv, Deposit
    PROVE  BookInv'
<1> DEFINE p == [ticket |-> 0, symbol |-> "", volume |-> 1]
<1>1. AccountTyped(account)
  BY DEF BookInv, BrokerTyped
<1>2. /\ account.positions \subseteq PositionsHeld /\ OfEachTicket(account.positions)
      /\ IsFiniteSet(account.positions) /\ account.balance \in Int
  BY <1>1, AccountParts
<1>3. Push(PositionsPush(<<p>>, TRUE, account.balance + 1)) /\ UNCHANGED told
  BY DEF Deposit, Change
<1>4. account' = [positions |-> account.positions, orders |-> account.orders,
                  balance |-> account.balance + 1,
                  symbols |-> account.symbols, pushes |-> account.pushes + 1]
  BY <1>1, AccountParts DEF Deposit, Change
<1>5. p \in PositionRecords /\ ~Stands(p) /\ p.ticket = 0
  BY DEF PositionRecords, Stands
<1> HIDE DEF p
<1>6. <<p>> \in Seq(PositionRecords) /\ ToSet(<<p>>) = {p} /\ Once(<<p>>)
  BY <1>5, OneRecord
<1>7. \A r \in account.positions : r.ticket # 0
  BY <1>2, BookConstants DEF PositionsHeld
<1>8. account.positions =
        {r \in account.positions : \A c \in ToSet(<<p>>) : r.ticket # c.ticket}
          \cup {c \in ToSet(<<p>>) : Stands(c)}
  BY <1>5, <1>6, <1>7
<1> DEFINE b == account.balance + 1
<1>9. b \in Int /\ TRUE \in BOOLEAN /\ b = IF TRUE THEN b ELSE account.balance
  BY <1>2
<1>10. /\ Push(PositionsPush(<<p>>, TRUE, b))
       /\ account' = [positions |-> account.positions, orders |-> account.orders,
                      balance |-> b, symbols |-> account.symbols, pushes |-> account.pushes + 1]
  BY <1>3, <1>4
<1> HIDE DEF b
<1> QED
  BY <1>2, <1>3, <1>6, <1>8, <1>9, <1>10, PositionsInv

\* The list of a finite set has each element once.
LEMMA SetListed ==
    ASSUME NEW S, IsFiniteSet(S)
    PROVE  /\ SetToSeq(S) \in Seq(S) /\ ToSet(SetToSeq(S)) = S
           /\ \A i, j \in DOMAIN SetToSeq(S) : SetToSeq(S)[i] = SetToSeq(S)[j] => i = j
<1> DEFINE n == Cardinality(S)
           s == SetToSeq(S)
<1>1. n \in Nat /\ ExistsBijection(1 .. n, S)
  BY FS_CardinalityType
<1>2. PICK f \in Bijection(1 .. n, S) : TRUE
  BY <1>1 DEF ExistsBijection
<1>3. f \in [1 .. n -> S] /\ IsInjective(f)
  BY <1>2 DEF Bijection, Injection
<1>4. s \in [1 .. n -> S] /\ IsInjective(s)
  BY <1>3 DEF SetToSeq
<1> HIDE DEF s
<1>5. s \in Injection(1 .. n, S)
  BY <1>4 DEF Injection
<1>6. IsFiniteSet(1 .. n) /\ Cardinality(1 .. n) = n
  BY <1>1, FS_Interval
<1>7. s \in Surjection(1 .. n, S)
  BY <1>5, <1>6, FS_Injection
<1>8. \A x \in S : \E i \in 1 .. n : s[i] = x
  BY <1>7 DEF Surjection
<1>9. s \in Seq(S) /\ DOMAIN s = 1 .. n
  BY <1>1, <1>4
<1>10. ToSet(s) = S
  BY <1>4, <1>8, <1>9 DEF ToSet
<1> QED
  BY <1>4, <1>9, <1>10 DEF s, IsInjective

LEMMA CloseInv ==
    ASSUME BookInv, NEW closed \in SUBSET account.positions, NEW paid \in Int,
           Close(closed, paid)
    PROVE  BookInv'
<1> DEFINE over(p) == [p EXCEPT !.volume = 0]
           S == {over(p) : p \in closed}
           records == SetToSeq(S)
           set == account.positions \ closed
           b == account.balance + paid
<1>1. AccountTyped(account)
  BY DEF BookInv, BrokerTyped
<1>2. /\ account.positions \subseteq PositionsHeld /\ OfEachTicket(account.positions)
      /\ IsFiniteSet(account.positions) /\ account.balance \in Int
  BY <1>1, AccountParts
<1>3. Push(PositionsPush(records, TRUE, b)) /\ UNCHANGED told
  BY DEF Close, Change
<1>4. account' = [positions |-> set, orders |-> account.orders, balance |-> b,
                  symbols |-> account.symbols, pushes |-> account.pushes + 1]
  BY <1>1, AccountParts DEF Close, Change
<1>5. \A p \in closed : over(p) \in PositionRecords /\ ~Stands(over(p)) /\ over(p).ticket = p.ticket
  <2> TAKE p \in closed
  <2>1. p \in PositionsHeld
    BY <1>2
  <2>2. p.ticket \in BookTickets /\ p.symbol \in Ids
        /\ p = [ticket |-> p.ticket, symbol |-> p.symbol, volume |-> p.volume]
    BY <2>1 DEF PositionsHeld
  <2>3. over(p) = [ticket |-> p.ticket, symbol |-> p.symbol, volume |-> 0]
    BY <2>2
  <2>4. over(p) \in PositionRecords
    BY <2>2, <2>3 DEF PositionRecords
  <2>5. ~Stands(over(p))
    BY <2>3 DEF Stands
  <2> QED
    BY <2>3, <2>4, <2>5
<1>6. IsFiniteSet(S)
  <2>1. IsFiniteSet(closed)
    BY <1>2, FS_Subset
  <2> DEFINE g == [p \in closed |-> over(p)]
  <2>2. g \in Surjection(closed, S)
    BY DEF Surjection
  <2> HIDE DEF g, S
  <2> QED
    BY <2>1, <2>2, FS_Surjection
<1> HIDE DEF over
<1>7. S \subseteq PositionRecords
  BY <1>5
<1>8. \A c \in S : \E p \in closed : c = over(p) /\ c.ticket = p.ticket /\ ~Stands(c)
  BY <1>5
<1>9. \A p \in closed : over(p) \in S /\ over(p).ticket = p.ticket
  BY <1>5
<1>10. \A c, d \in S : c.ticket = d.ticket => c = d
  BY <1>2, <1>8 DEF OfEachTicket
<1> HIDE DEF S
<1>11. /\ records \in Seq(S) /\ ToSet(records) = S
       /\ \A i, j \in DOMAIN records : records[i] = records[j] => i = j
  BY <1>6, SetListed
<1> HIDE DEF records
<1>12. records \in Seq(PositionRecords)
  BY <1>7, <1>11, SeqMonotonic
<1>13. Once(records)
  <2>1. \A i \in DOMAIN records : records[i] \in S
    BY <1>11 DEF ToSet
  <2> QED
    BY <1>10, <1>11, <2>1 DEF Once
<1>14. set = {r \in account.positions : \A c \in ToSet(records) : r.ticket # c.ticket}
               \cup {c \in ToSet(records) : Stands(c)}
  <2>1. \A r \in account.positions : r \in closed <=> \E c \in S : r.ticket = c.ticket
    BY <1>2, <1>8, <1>9 DEF OfEachTicket
  <2>2. {c \in S : Stands(c)} = {}
    BY <1>8
  <2> QED
    BY <1>11, <2>1, <2>2
<1>15. set \subseteq PositionsHeld /\ OfEachTicket(set)
  BY <1>2 DEF OfEachTicket
<1>16. IsFiniteSet(set)
  BY <1>2, FS_Subset
<1>17. b \in Int /\ TRUE \in BOOLEAN /\ b = IF TRUE THEN b ELSE account.balance
  BY <1>2
<1> HIDE DEF b, set
<1> QED
  BY <1>3, <1>4, <1>12, <1>13, <1>14, <1>15, <1>16, <1>17, PositionsInv

LEMMA TellAccountInv ==
    ASSUME BookInv, NEW own \in BOOLEAN, TellAccount(own)
    PROVE  BookInv'
<1>1. AccountTyped(account)
  BY DEF BookInv, BrokerTyped
<1> DEFINE b == account.balance + 1
<1>2. /\ account.positions \subseteq PositionsHeld /\ OfEachTicket(account.positions)
      /\ IsFiniteSet(account.positions) /\ account.balance \in Int
      /\ account.orders \subseteq OrdersHeld /\ OfEachTicket(account.orders)
      /\ DOMAIN account.symbols \subseteq Ids
      /\ \A id \in DOMAIN account.symbols : account.symbols[id] \in Nat
      /\ account.pushes + 1 \in Nat
  BY <1>1, AccountParts
<1>3. b \in Int /\ -1 \in Int
  BY <1>2
<1> DEFINE m(o, x) == [kind |-> "account", own |-> o, balance |-> x]
           a(x) == [positions |-> account.positions, orders |-> account.orders, balance |-> x,
                    symbols |-> account.symbols, pushes |-> account.pushes + 1]
<1>4. \A x \in Int : AccountTyped(a(x))
  BY <1>2, NewAccount
<1>5. \A x \in Int, y \in Int, o \in BOOLEAN :
        y = (IF o THEN x ELSE account.balance) => Follows(Now, m(o, x), Stage(a(y), told))
  BY DEF Follows, TellsBalance, Now, Stage, SameRecords, SameTold
<1>6. CASE own
  <2>1. account' = a(b) /\ Push(m(TRUE, b)) /\ UNCHANGED told
    BY <1>1, <1>6, AccountParts DEF TellAccount, Change
  <2>2. AccountTyped(a(b)) /\ Follows(Now, m(TRUE, b), Stage(a(b), told))
    BY <1>3, <1>4, <1>5
  <2> HIDE DEF a, m, b
  <2> QED
    BY <2>1, <2>2, ChangedInv
<1>7. CASE ~own
  <2>1. account' = a(account.balance) /\ Push(m(FALSE, -1)) /\ UNCHANGED told
    BY <1>1, <1>7, AccountParts DEF TellAccount, Change
  <2>2. AccountTyped(a(account.balance))
        /\ Follows(Now, m(FALSE, -1), Stage(a(account.balance), told))
    BY <1>2, <1>3, <1>4, <1>5
  <2> HIDE DEF a, m
  <2> QED
    BY <2>1, <2>2, ChangedInv
<1> QED
  BY <1>6, <1>7

LEMMA OrderInv ==
    ASSUME BookInv, NEW t \in BookTickets, NEW version \in 0 .. MaxVersion,
           NEW change \in {"Add", "Update", "Delete"}, Order(t, version, change)
    PROVE  BookInv'
<1> DEFINE o == [ticket |-> t, version |-> version]
           m == [kind |-> "order", change |-> change, order |-> o]
           set == {r \in account.orders : r.ticket # t} \cup IF change = "Delete" THEN {} ELSE {o}
           a == [positions |-> account.positions, orders |-> set, balance |-> account.balance,
                 symbols |-> account.symbols, pushes |-> account.pushes + 1]
<1>1. AccountTyped(account)
  BY DEF BookInv, BrokerTyped
<1>2. /\ account.positions \subseteq PositionsHeld /\ OfEachTicket(account.positions)
      /\ IsFiniteSet(account.positions) /\ account.balance \in Int
      /\ account.orders \subseteq OrdersHeld /\ OfEachTicket(account.orders)
      /\ DOMAIN account.symbols \subseteq Ids
      /\ \A id \in DOMAIN account.symbols : account.symbols[id] \in Nat
      /\ account.pushes + 1 \in Nat
  BY <1>1, AccountParts
<1>3. o \in OrdersHeld /\ o.ticket = t
  <2>1. version \in Nat
    BY BookAssumption
  <2> QED
    BY <2>1 DEF OrdersHeld
<1>4. account' = a /\ Push(m) /\ UNCHANGED told
  BY <1>1, AccountParts DEF Order, Change
<1>5. m.kind = "order" /\ m.change = change /\ m.order = o
  OBVIOUS
<1> HIDE DEF o, m
<1>6. set \subseteq OrdersHeld /\ OfEachTicket(set)
  BY <1>2, <1>3 DEF OfEachTicket
<1>7. set = {r \in account.orders : r.ticket # m.order.ticket}
              \cup (IF m.change = "Delete" THEN {} ELSE {m.order})
  BY <1>3, <1>5
<1> HIDE DEF set
<1>8. AccountTyped(a)
  BY <1>2, <1>6, NewAccount
<1>9. TellsOrder(Now, m, Stage(a, told))
  BY <1>3, <1>5, <1>7 DEF TellsOrder, Now, Stage, SameTold
<1> HIDE DEF a
<1> QED
  BY <1>4, <1>8, <1>9, ChangedInv DEF Follows

LEMMA TellSymbolInv ==
    ASSUME BookInv, NEW id \in Ids, TellSymbol(id)
    PROVE  BookInv'
<1> DEFINE old == account.symbols
           version == IF id \in DOMAIN old THEN old[id] + 1 ELSE 0
           new == [s \in DOMAIN old \cup {id} |-> IF s = id THEN version ELSE old[s]]
           m == [kind |-> "symbol", id |-> id, version |-> version]
           a == [positions |-> account.positions, orders |-> account.orders,
                 balance |-> account.balance, symbols |-> new, pushes |-> account.pushes + 1]
<1>1. AccountTyped(account)
  BY DEF BookInv, BrokerTyped
<1>2. /\ account.positions \subseteq PositionsHeld /\ OfEachTicket(account.positions)
      /\ IsFiniteSet(account.positions) /\ account.balance \in Int
      /\ account.orders \subseteq OrdersHeld /\ OfEachTicket(account.orders)
      /\ DOMAIN old \subseteq Ids /\ \A s \in DOMAIN old : old[s] \in Nat
      /\ account.pushes + 1 \in Nat
  BY <1>1, AccountParts
<1>3. account' = a /\ Push(m) /\ UNCHANGED told
  BY <1>1, AccountParts DEF TellSymbol, Change
<1>4. version \in Nat
  BY <1>2
<1> HIDE DEF version
<1>5. /\ DOMAIN new = DOMAIN old \cup {id}
      /\ \A s \in DOMAIN new : new[s] = IF s = id THEN version ELSE old[s]
  OBVIOUS
<1> HIDE DEF new
<1>6. DOMAIN new \subseteq Ids /\ \A s \in DOMAIN new : new[s] \in Nat
  BY <1>2, <1>4, <1>5
<1> HIDE DEF old
<1>7. AccountTyped(a)
  BY <1>2, <1>6, NewAccount
<1>8. TellsSymbol(Now, m, Stage(a, told))
  BY <1>4, <1>5 DEF TellsSymbol, Now, Stage, SameRecords, SameTold, old
<1> HIDE DEF a, m
<1> QED
  BY <1>3, <1>7, <1>8, ChangedInv DEF Follows

LEMMA ToldParts ==
    ASSUME ToldTyped(told)
    PROVE  /\ told = [sides |-> told.sides, quotes |-> told.quotes, depth |-> told.depth]
           /\ told.sides \in [Ids -> BothSides] /\ told.quotes \in Seq(Ids \X BothSides)
           /\ told.depth \in Seq(DepthRecords)
  BY DEF ToldTyped

LEMMA PushCounted ==
    ASSUME AccountTyped(account), account' = [account EXCEPT !.pushes = @ + 1]
    PROVE  /\ AccountTyped(account') /\ account'.positions = account.positions
           /\ account'.orders = account.orders /\ account'.balance = account.balance
           /\ account'.symbols = account.symbols
<1> DEFINE a == [positions |-> account.positions, orders |-> account.orders,
                 balance |-> account.balance, symbols |-> account.symbols,
                 pushes |-> account.pushes + 1]
<1>1. account' = a
  BY AccountParts
<1>2. AccountTyped(a)
  <2>1. /\ account.positions \subseteq PositionsHeld /\ OfEachTicket(account.positions)
        /\ IsFiniteSet(account.positions) /\ account.balance \in Int
        /\ account.orders \subseteq OrdersHeld /\ OfEachTicket(account.orders)
        /\ DOMAIN account.symbols \subseteq Ids
        /\ \A s \in DOMAIN account.symbols : account.symbols[s] \in Nat
        /\ account.pushes + 1 \in Nat
    BY AccountParts
  <2> QED
    BY <2>1, NewAccount
<1> QED
  BY <1>1, <1>2

\* What the broker has told, when it sends m.
LEMMA ToldInv ==
    ASSUME BookInv, NEW m, Push(m), account' = [account EXCEPT !.pushes = @ + 1],
           NEW t, told' = t, ToldTyped(t), Follows(Now, m, Stage(account, t)),
           NEW e \in Seq(Ids \X BothSides), t.quotes = told.quotes \o e,
           NEW d \in Seq(DepthRecords), t.depth = told.depth \o d
    PROVE  BookInv'
<1>1. AccountTyped(account) /\ ToldTyped(told) /\ Sequence(wire)
  BY DEF BookInv, BrokerTyped
<1>2. Sequence(wire')
  BY <1>1, AppendAny DEF Push
<1>3. AccountTyped(account') /\ Now' = Stage(account, t)
  BY <1>1, PushCounted DEF Now, Stage
<1>4. BrokerTyped'
  BY <1>2, <1>3 DEF BrokerTyped, AccountTyped, ToldTyped
<1>5. IsAccount(Stage(account, t))
  BY <1>1, StageIsAccount
<1>6. IsAccount(Now)'
  BY <1>3, <1>5 DEF IsAccount
<1>7. told'.quotes = told.quotes \o e /\ told'.depth = told.depth \o d
  OBVIOUS
<1> QED
  BY <1>3, <1>4, <1>6, <1>7, PushedInv

LEMMA SendQuoteInv ==
    ASSUME BookInv, NEW id \in Ids, NEW bid \in 0 .. MaxPrice, NEW ask \in 0 .. MaxPrice,
           SendQuote(id, bid, ask)
    PROVE  BookInv'
<1> DEFINE sides == [bid |-> Side(told.sides[id].bid, bid), ask |-> Side(told.sides[id].ask, ask)]
           m == [kind |-> "quote", id |-> id, bid |-> bid, ask |-> ask]
           e == IF TwoSided(sides) THEN <<<<id, sides>>>> ELSE <<>>
           all == [told.sides EXCEPT ![id] = sides]
           t == [sides |-> all, quotes |-> told.quotes \o e, depth |-> told.depth]
<1>1. ToldTyped(told) /\ AccountTyped(account)
  BY DEF BookInv, BrokerTyped
<1>2. bid \in Nat /\ ask \in Nat
  BY BookAssumption
<1>3. /\ told = [sides |-> told.sides, quotes |-> told.quotes, depth |-> told.depth]
      /\ told.sides \in [Ids -> BothSides] /\ told.quotes \in Seq(Ids \X BothSides)
      /\ told.depth \in Seq(DepthRecords)
  BY <1>1, ToldParts
<1>4. sides \in BothSides
  <2>1. told.sides[id].bid \in Nat /\ told.sides[id].ask \in Nat
    BY <1>3 DEF BothSides
  <2> QED
    BY <1>2, <2>1 DEF Side, BothSides
<1>5. e \in Seq(Ids \X BothSides)
  BY <1>4, EmptySeq
<1>6. (IF TwoSided(sides) THEN Append(told.quotes, <<id, sides>>) ELSE told.quotes)
        = told.quotes \o e
  <2>1. Append(told.quotes, <<id, sides>>) = told.quotes \o <<<<id, sides>>>>
    <3> DEFINE x == <<id, sides>>
    <3>1. x \in Ids \X BothSides
      BY <1>4
    <3> HIDE DEF x
    <3>2. Append(told.quotes, x) = told.quotes \o <<x>>
      BY <1>3, <3>1
    <3> QED
      BY <3>2 DEF x
  <2>2. told.quotes \o <<>> = told.quotes
    BY <1>3, ConcatEmptySeq
  <2> QED
    BY <2>1, <2>2
<1>7. Push(m) /\ account' = [account EXCEPT !.pushes = @ + 1]
  BY DEF SendQuote
<1>8. told' = t
  BY <1>3, <1>6 DEF SendQuote, Side
<1>9. all \in [Ids -> BothSides] /\ told.quotes \o e \in Seq(Ids \X BothSides)
  BY <1>3, <1>4, <1>5, ConcatProperties
<1>10. ToldTyped(t)
  BY <1>3, <1>9 DEF ToldTyped
<1>11. QuoteAfter(Now, m) = sides
  BY DEF QuoteAfter, Now, Stage
<1>12. /\ t.quotes = told.quotes \o e /\ t.depth = told.depth
       /\ t.sides = [told.sides EXCEPT ![m.id] = sides]
       /\ m.kind = "quote" /\ m.id = id /\ m.bid = bid /\ m.ask = ask
  OBVIOUS
<1> HIDE DEF t, m, e, sides
<1>13. TellsQuote(Now, m, Stage(account, t))
  <2>1. SameAccount(Now, Stage(account, t))
    BY DEF SameAccount, SameRecords, Now, Stage
  <2>2. Stage(account, t).quotes = IF TwoSided(QuoteAfter(Now, m))
                                   THEN Append(Now.quotes, <<m.id, QuoteAfter(Now, m)>>)
                                   ELSE Now.quotes
    BY <1>6, <1>11, <1>12 DEF Now, Stage
  <2>3. Stage(account, t).sides = [Now.sides EXCEPT ![m.id] = QuoteAfter(Now, m)]
    BY <1>11, <1>12 DEF Now, Stage
  <2>4. Stage(account, t).depth = Now.depth
    BY <1>12 DEF Now, Stage
  <2> QED
    BY <1>2, <1>12, <2>1, <2>2, <2>3, <2>4 DEF TellsQuote
<1>14. <<>> \in Seq(DepthRecords) /\ t.depth = told.depth \o <<>>
  BY <1>3, <1>12, EmptySeq, ConcatEmptySeq
<1> QED
  BY <1>5, <1>7, <1>8, <1>10, <1>12, <1>13, <1>14, ToldInv DEF Follows

LEMMA SendDepthInv ==
    ASSUME BookInv, NEW ids \in Seq(Ids), SendDepth(ids)
    PROVE  BookInv'
<1> DEFINE records == [i \in DOMAIN ids |-> [id |-> ids[i], n |-> Len(told.depth) + i]]
           m == [kind |-> "depth", records |-> records]
           t == [sides |-> told.sides, quotes |-> told.quotes, depth |-> told.depth \o records]
<1>1. ToldTyped(told) /\ AccountTyped(account)
  BY DEF BookInv, BrokerTyped
<1>2. /\ told = [sides |-> told.sides, quotes |-> told.quotes, depth |-> told.depth]
      /\ told.sides \in [Ids -> BothSides] /\ told.quotes \in Seq(Ids \X BothSides)
      /\ told.depth \in Seq(DepthRecords) /\ Len(told.depth) \in Nat
  BY <1>1, ToldParts
<1>3. records \in Seq(DepthRecords)
  <2>1. DOMAIN ids = 1 .. Len(ids) /\ Len(ids) \in Nat
    OBVIOUS
  <2>2. \A i \in 1 .. Len(ids) : [id |-> ids[i], n |-> Len(told.depth) + i] \in DepthRecords
    BY <1>2 DEF DepthRecords
  <2> QED
    BY <2>1, <2>2
<1>4. Push(m) /\ account' = [account EXCEPT !.pushes = @ + 1]
  BY DEF SendDepth
<1>5. told' = t
  BY <1>2 DEF SendDepth
<1> HIDE DEF records
<1>6. told.depth \o records \in Seq(DepthRecords)
  BY <1>2, <1>3, ConcatProperties
<1>7. ToldTyped(t)
  BY <1>2, <1>6 DEF ToldTyped
<1>8. /\ t.quotes = told.quotes /\ t.depth = told.depth \o records
      /\ t.sides = told.sides /\ m.kind = "depth" /\ m.records = records
  OBVIOUS
<1> HIDE DEF t, m
<1>9. TellsDepth(Now, m, Stage(account, t))
  BY <1>3, <1>8 DEF TellsDepth, SameAccount, SameRecords, Now, Stage
<1>10. <<>> \in Seq(Ids \X BothSides) /\ t.quotes = told.quotes \o <<>>
  BY <1>2, <1>8, EmptySeq, ConcatEmptySeq
<1> QED
  BY <1>3, <1>4, <1>5, <1>7, <1>8, <1>9, <1>10, ToldInv DEF Follows

LEMMA BrokerPushesInv ==
    ASSUME BookInv, BrokerPushes
    PROVE  BookInv'
<1>1. CASE \E t \in BookTickets, s \in DOMAIN account.symbols : Open(t, s)
  BY <1>1, OpenInv
<1>2. CASE \E p \in account.positions : Modify(p)
  BY <1>2, ModifyInv
<1>3. CASE \E closed \in SUBSET account.positions : Close(closed, 1)
  BY <1>3, CloseInv
<1>4. CASE Deposit
  BY <1>4, DepositInv
<1>5. CASE \E own \in BOOLEAN : TellAccount(own)
  BY <1>5, TellAccountInv
<1>6. CASE \E t \in BookTickets, version \in 0 .. MaxVersion, change \in {"Add", "Update", "Delete"} :
             Order(t, version, change)
  BY <1>6, OrderInv
<1>7. CASE \E id \in Ids : TellSymbol(id)
  BY <1>7, TellSymbolInv
<1>8. CASE \E id \in Ids, bid, ask \in 0 .. MaxPrice : SendQuote(id, bid, ask)
  BY <1>8, SendQuoteInv
<1>9. CASE \E ids \in {<<s>> : s \in Ids} \cup {<<s, s>> : s \in ToSet(AtLogin)} : SendDepth(ids)
  <2>1. \A s \in ToSet(AtLogin) : <<s, s>> \in Seq(Ids)
    BY BookConstants
  <2>2. \A s \in Ids : <<s>> \in Seq(Ids)
    OBVIOUS
  <2> QED
    BY <1>9, <2>1, <2>2, SendDepthInv
<1> QED
  BY <1>1, <1>2, <1>3, <1>4, <1>5, <1>6, <1>7, <1>8, <1>9 DEF BrokerPushes

\* The client has read a push that led to b.
HasRead(b) ==
    /\ BookTyped' /\ StreamsTyped' /\ (sound' => Agrees(b)')
    /\ Begins(Got, b.quotes)' /\ Begins(GotDepth, b.depth)'

AppendsInside(u, s, x) == Append(u \o s, x) = u \o Append(s, x)

LEMMA AppendToConcat ==
    ASSUME NEW S, NEW u \in Seq(S), NEW s \in Seq(S), NEW x \in S
    PROVE  AppendsInside(u, s, x)
<1>1. <<x>> \in Seq(S) /\ u \o s \in Seq(S)
  BY ConcatProperties
<1>2. (u \o s) \o <<x>> = u \o (s \o <<x>>)
  BY <1>1, ConcatAssociative
<1>3. Append(u \o s, x) = (u \o s) \o <<x>> /\ Append(s, x) = s \o <<x>>
  BY <1>1
<1> QED
  BY <1>2, <1>3 DEF AppendsInside

LEMMA StreamsParts ==
    ASSUME StreamsTyped
    PROVE  /\ streams = [subscriptions |-> streams.subscriptions, quotes |-> streams.quotes,
                         changedQuotes |-> streams.changedQuotes,
                         changedDepth |-> streams.changedDepth]
           /\ streams.changedQuotes \in Seq(Ids \X BothSides)
           /\ streams.changedDepth \in Seq(DepthRecords)
           /\ taken = [quotes |-> taken.quotes, depth |-> taken.depth]
           /\ taken.quotes \in Seq(Ids \X BothSides) /\ taken.depth \in Seq(DepthRecords)
           /\ Got \in Seq(Ids \X BothSides) /\ GotDepth \in Seq(DepthRecords)
<1>1. streams \in [subscriptions : {streams.subscriptions}, quotes : {streams.quotes},
                   changedQuotes : Seq(Ids \X BothSides), changedDepth : Seq(DepthRecords)]
  BY DEF StreamsTyped
<1>2. taken \in [quotes : Seq(Ids \X BothSides), depth : Seq(DepthRecords)]
  BY DEF StreamsTyped
<1>3. /\ taken.quotes \in Seq(Ids \X BothSides) /\ streams.changedQuotes \in Seq(Ids \X BothSides)
      /\ taken.depth \in Seq(DepthRecords) /\ streams.changedDepth \in Seq(DepthRecords)
  BY <1>1, <1>2
<1>4. Got \in Seq(Ids \X BothSides) /\ GotDepth \in Seq(DepthRecords)
  BY <1>3, ConcatProperties DEF Got, GotDepth
<1> QED
  BY <1>1, <1>2, <1>3, <1>4

\* The streams as they are made.
LEMMA NewStreams ==
    ASSUME NEW w \in Seq(Ids \X BothSides), NEW x \in Seq(DepthRecords), NEW a, NEW q,
           streams' = [subscriptions |-> a, quotes |-> q, changedQuotes |-> w, changedDepth |-> x],
           taken' = taken, StreamsTyped, sound' \in BOOLEAN
    PROVE  StreamsTyped'
<1>1. taken \in [quotes : Seq(Ids \X BothSides), depth : Seq(DepthRecords)]
  BY DEF StreamsTyped
<1>2. streams' \in [subscriptions : {a}, quotes : {q},
                    changedQuotes : Seq(Ids \X BothSides), changedDepth : Seq(DepthRecords)]
      /\ streams'.subscriptions = a /\ streams'.quotes = q
  OBVIOUS
<1> QED
  BY <1>1, <1>2 DEF StreamsTyped

LEMMA QuoteApplied ==
    ASSUME BookInv, sound, NEW m, NEW a, NEW b, IsAccount(a), IsAccount(b), Agrees(a),
           TellsQuote(a, m, b), ApplyQuote(m), UNCHANGED taken
    PROVE  HasRead(b)
<1> DEFINE quote == [bid |-> Side(QuoteOf(m.id).bid, m.bid), ask |-> Side(QuoteOf(m.id).ask, m.ask)]
           twoSided == TwoSided(quote)
           full == twoSided /\ Len(streams.changedQuotes) >= QuoteLimit
           map == [id \in DOMAIN streams.quotes \cup {m.id} |->
                     IF id = m.id THEN quote ELSE streams.quotes[id]]
           w == IF twoSided /\ ~full THEN Append(streams.changedQuotes, <<m.id, quote>>)
                ELSE streams.changedQuotes
<1>1. BookTyped /\ StreamsTyped
  BY DEF BookInv
<1>2. UNCHANGED book
  BY DEF ApplyQuote
<1>3. BookTyped'
  BY <1>1, <1>2 DEF BookTyped, Indexed, Listed
<1>4. quote = QuoteAfter(a, m) /\ quote \in BothSides /\ m.id \in Ids
  <2>1. m.id \in Ids /\ m.bid \in Nat /\ m.ask \in Nat /\ QuoteOf(m.id) = a.sides[m.id]
    BY DEF Agrees, TellsQuote
  <2>2. a.sides[m.id] \in BothSides
    BY <2>1 DEF IsAccount
  <2>3. a.sides[m.id].bid \in Nat /\ a.sides[m.id].ask \in Nat
    BY <2>2 DEF BothSides
  <2> QED
    BY <2>1, <2>3 DEF QuoteAfter, Side, BothSides
<1>5. /\ b.quotes = IF twoSided THEN Append(a.quotes, <<m.id, quote>>) ELSE a.quotes
      /\ b.sides = [a.sides EXCEPT ![m.id] = quote] /\ b.depth = a.depth
      /\ SameAccount(a, b)
  BY <1>4 DEF TellsQuote
<1>6. Got = a.quotes /\ GotDepth = a.depth
  BY DEF Agrees
<1>7. a.quotes \in Seq(Ids \X BothSides) /\ a.depth \in Seq(DepthRecords) /\ a.sides \in [Ids -> BothSides]
  BY DEF IsAccount
<1> DEFINE pair == <<m.id, quote>>
<1>8. pair \in Ids \X BothSides
  BY <1>4
<1>9. IF m.id \notin Listed(book) THEN streams' = streams
      ELSE streams' = [streams EXCEPT !.quotes = map, !.changedQuotes = w]
  BY DEF ApplyQuote
<1>10. IF m.id \notin Listed(book) \/ full THEN sound' = FALSE ELSE sound' = sound
  BY DEF ApplyQuote, Unsound
<1>11. sound' \in BOOLEAN
  BY <1>1, <1>10 DEF StreamsTyped
<1> HIDE DEF pair, quote
<1>12. Begins(a.quotes, a.quotes) /\ Begins(a.quotes, Append(a.quotes, pair))
  BY <1>7, <1>8, AppendProperties DEF Begins
<1>13. Begins(a.depth, b.depth)
  BY <1>5, <1>7 DEF Begins
<1>14. Begins(a.quotes, b.quotes)
  BY <1>5, <1>12 DEF pair
<1>15. CASE m.id \notin Listed(book)
  <2>1. streams' = streams /\ sound' = FALSE
    BY <1>9, <1>10, <1>15
  <2>2. Got' = Got /\ GotDepth' = GotDepth
    BY <2>1 DEF Got, GotDepth
  <2>3. Begins(Got, b.quotes)' /\ Begins(GotDepth, b.depth)'
    BY <1>6, <1>13, <1>14, <2>2 DEF Begins
  <2>4. StreamsTyped'
    BY <1>1, <2>1 DEF StreamsTyped
  <2> QED
    BY <1>3, <2>1, <2>3, <2>4 DEF HasRead
<1>16. CASE m.id \in Listed(book)
  <2>1. /\ streams' = [subscriptions |-> streams.subscriptions, quotes |-> map,
                       changedQuotes |-> w, changedDepth |-> streams.changedDepth]
        /\ streams.changedQuotes \in Seq(Ids \X BothSides)
        /\ streams.changedDepth \in Seq(DepthRecords)
        /\ taken.quotes \in Seq(Ids \X BothSides)
    BY <1>1, <1>9, <1>16, StreamsParts
  <2>2. Append(streams.changedQuotes, pair) \in Seq(Ids \X BothSides)
    BY <1>8, <2>1, AppendProperties
  <2>3. w \in Seq(Ids \X BothSides)
    BY <2>1, <2>2 DEF pair
  <2>4. StreamsTyped'
    <3> HIDE DEF map, w
    <3> QED
      BY <1>1, <1>11, <2>1, <2>3, NewStreams
  <2>5. GotDepth' = GotDepth
    BY <2>1 DEF GotDepth
  <2>6. Got' = IF twoSided /\ ~full THEN Append(Got, pair) ELSE Got
    <3>1. Append(Got, pair) = taken.quotes \o Append(streams.changedQuotes, pair)
      <4> DEFINE Q == Ids \X BothSides
             u == taken.quotes
             s == streams.changedQuotes
      <4>1. u \in Seq(Q) /\ s \in Seq(Q) /\ pair \in Q
        BY <1>8, <2>1
      <4>2. Got = u \o s
        BY DEF Got
      <4> HIDE DEF Q, u, s
      <4>3. AppendsInside(u, s, pair)
        BY <4>1, AppendToConcat
      <4> QED
        BY <4>2, <4>3 DEF u, s, AppendsInside
    <3>2. Got' = taken.quotes \o w
      BY <2>1 DEF Got
    <3> QED
      BY <3>1, <3>2 DEF Got, pair
  <2>7. Begins(Got, b.quotes)' /\ Begins(GotDepth, b.depth)'
    <3>1. Begins(Got', b.quotes)
      <4>1. CASE twoSided /\ ~full
        <5>1. Got' = b.quotes
          BY <1>5, <1>6, <2>6, <4>1 DEF pair
        <5>2. b.quotes \in Seq(Ids \X BothSides)
          BY DEF IsAccount
        <5> QED
          BY <5>1, <5>2 DEF Begins
      <4>2. CASE ~(twoSided /\ ~full)
        BY <1>6, <1>14, <2>6, <4>2
      <4> QED
        BY <4>1, <4>2
    <3> QED
      BY <1>6, <1>13, <2>5, <3>1 DEF Begins
  <2>8. ASSUME sound' PROVE Agrees(b)'
    <3>1. ~full
      BY <1>10, <2>8
    <3>2. Got' = b.quotes /\ GotDepth' = b.depth
      BY <1>5, <1>6, <2>5, <2>6, <3>1 DEF pair
    <3>3. ASSUME NEW id \in Ids PROVE QuoteOf(id)' = b.sides[id]
      <4>1. QuoteOf(id) = a.sides[id]
        BY DEF Agrees
      <4>2. QuoteOf(id)' = IF id \in DOMAIN map THEN map[id] ELSE NoSides
        BY <2>1 DEF QuoteOf
      <4>3. QuoteOf(id)' = IF id = m.id THEN quote ELSE QuoteOf(id)
        BY <4>2 DEF QuoteOf
      <4> QED
        BY <1>5, <1>7, <4>1, <4>3
    <3> QED
      BY <1>2, <1>5, <3>2, <3>3 DEF Agrees, SameAccount, SameRecords, Listed
  <2> QED
    BY <1>3, <2>4, <2>7, <2>8 DEF HasRead
<1> QED
  BY <1>15, <1>16

JoinsInside(u, s, t) == (u \o s) \o t = u \o (s \o t)

LEMMA JoinedToConcat ==
    ASSUME NEW S, NEW u \in Seq(S), NEW s \in Seq(S), NEW t \in Seq(S)
    PROVE  JoinsInside(u, s, t)
  BY ConcatAssociative DEF JoinsInside

\* The part of t that is taken.
TakesPart(S, s, t, k) ==
    /\ SubSeq(t, 1, k) \in Seq(S) /\ s \o SubSeq(t, 1, k) \in Seq(S)
    /\ Begins(s, s \o t) /\ Begins(s \o SubSeq(t, 1, k), s \o t)
    /\ k = Len(t) => SubSeq(t, 1, k) = t

LEMMA PartTaken ==
    ASSUME NEW S, NEW s \in Seq(S), NEW t \in Seq(S), NEW k \in 0 .. Len(t)
    PROVE  TakesPart(S, s, t, k)
<1>1. /\ SubSeq(t, 1, k) \in Seq(S) /\ Len(SubSeq(t, 1, k)) = k
      /\ \A i \in 1 .. k : SubSeq(t, 1, k)[i] = t[i]
  <2>1. \A i \in 1 .. k : t[i] \in S
    OBVIOUS
  <2>2. 1 \in Int /\ k \in Int
    OBVIOUS
  <2>3. /\ SubSeq(t, 1, k) \in Seq(S) /\ Len(SubSeq(t, 1, k)) = IF 1 <= k THEN k - 1 + 1 ELSE 0
        /\ \A i \in 1 .. k - 1 + 1 : SubSeq(t, 1, k)[i] = t[1 + i - 1]
    BY <2>1, <2>2, SubSeqProperties
  <2> QED
    BY <2>3
<1> DEFINE v == SubSeq(t, 1, k)
<1> HIDE DEF v
<1>2. /\ s \o v \in Seq(S) /\ Len(s \o v) = Len(s) + k
      /\ \A i \in 1 .. Len(s) + k : (s \o v)[i] = IF i <= Len(s) THEN s[i] ELSE v[i - Len(s)]
  BY <1>1, ConcatProperties DEF v
<1>3. /\ s \o t \in Seq(S) /\ Len(s \o t) = Len(s) + Len(t)
      /\ \A i \in 1 .. Len(s) + Len(t) : (s \o t)[i] = IF i <= Len(s) THEN s[i] ELSE t[i - Len(s)]
  BY ConcatProperties
<1>4. Begins(s, s \o t)
  BY <1>3 DEF Begins
<1>5. Begins(s \o v, s \o t)
  <2>1. Len(s \o v) <= Len(s \o t)
    BY <1>2, <1>3
  <2>2. ASSUME NEW i \in 1 .. Len(s) + k PROVE (s \o v)[i] = (s \o t)[i]
    <3>1. i <= Len(s) \/ i - Len(s) \in 1 .. k
      OBVIOUS
    <3>2. i \in 1 .. Len(s) + Len(t)
      OBVIOUS
    <3>3. \A j \in 1 .. k : v[j] = t[j]
      BY <1>1 DEF v
    <3> QED
      BY <1>2, <1>3, <3>1, <3>2, <3>3
  <2> QED
    BY <1>2, <2>1, <2>2 DEF Begins
<1>6. k = Len(t) => v = t
  BY SubSeqFull DEF v
<1> QED
  BY <1>1, <1>2, <1>4, <1>5, <1>6 DEF v, TakesPart

LEMMA DepthApplied ==
    ASSUME BookInv, sound, NEW m, NEW a, NEW b, IsAccount(a), IsAccount(b), Agrees(a),
           TellsDepth(a, m, b), ApplyDepth(m), UNCHANGED taken
    PROVE  HasRead(b)
<1> DEFINE full == Len(streams.changedDepth) + Len(m.records) > DepthLimit
           known == {i \in DOMAIN m.records : m.records[i].id \in Listed(book)}
           before == {i \in known : 1 .. i \subseteq known}
           k == Cardinality(before)
           part == SubSeq(m.records, 1, k)
<1>1. BookTyped /\ StreamsTyped
  BY DEF BookInv
<1>2. UNCHANGED book
  BY DEF ApplyDepth
<1>3. BookTyped'
  BY <1>1, <1>2 DEF BookTyped, Indexed, Listed
<1>4. IF full THEN streams' = streams
      ELSE streams' = [streams EXCEPT !.changedDepth = @ \o part]
  BY DEF ApplyDepth
<1>5. IF full \/ known # DOMAIN m.records THEN sound' = FALSE ELSE sound' = sound
  BY DEF ApplyDepth, Unsound
<1>6. sound' \in BOOLEAN
  BY <1>1, <1>5 DEF StreamsTyped
<1>7. m.records \in Seq(DepthRecords) /\ DOMAIN m.records = 1 .. Len(m.records) /\ Len(m.records) \in Nat
  BY DEF TellsDepth
<1>8. k \in 0 .. Len(m.records) /\ (known = DOMAIN m.records => k = Len(m.records))
  <2>1. before \subseteq 1 .. Len(m.records)
    BY <1>7
  <2>2. /\ IsFiniteSet(1 .. Len(m.records))
        /\ Cardinality(1 .. Len(m.records)) = Len(m.records)
    BY <1>7, FS_Interval
  <2>3. IsFiniteSet(before) /\ k <= Len(m.records)
    BY <2>1, <2>2, FS_Subset
  <2>4. k \in Nat
    BY <2>3, FS_CardinalityType
  <2>5. known = DOMAIN m.records => before = 1 .. Len(m.records)
    BY <1>7
  <2> HIDE DEF before, known
  <2>6. known = DOMAIN m.records => k = Len(m.records)
    BY <2>2, <2>5
  <2>7. k \in 0 .. Len(m.records)
    BY <1>7, <2>3, <2>4
  <2> QED
    BY <2>6, <2>7
<1> HIDE DEF k, known, before
<1>9. /\ streams.changedDepth \in Seq(DepthRecords) /\ taken.depth \in Seq(DepthRecords)
      /\ streams.changedQuotes \in Seq(Ids \X BothSides) /\ GotDepth \in Seq(DepthRecords)
      /\ streams = [subscriptions |-> streams.subscriptions, quotes |-> streams.quotes,
                    changedQuotes |-> streams.changedQuotes,
                    changedDepth |-> streams.changedDepth]
  BY <1>1, StreamsParts
<1>10. Got = a.quotes /\ GotDepth = a.depth
  BY DEF Agrees
<1>11. /\ b.quotes = a.quotes /\ b.depth = a.depth \o m.records /\ SameAccount(a, b)
       /\ b.sides = a.sides
  BY DEF TellsDepth
<1>12. Begins(a.quotes, b.quotes)
  <2>1. a.quotes \in Seq(Ids \X BothSides)
    BY DEF IsAccount
  <2> QED
    BY <1>11, <2>1 DEF Begins
<1>13. /\ TakesPart(DepthRecords, GotDepth, m.records, k)
       /\ TakesPart(DepthRecords, streams.changedDepth, m.records, k)
  BY <1>7, <1>8, <1>9, PartTaken
<1>14. CASE full
  <2>1. streams' = streams /\ sound' = FALSE
    BY <1>4, <1>5, <1>14
  <2>2. Got' = Got /\ GotDepth' = GotDepth
    BY <2>1 DEF Got, GotDepth
  <2>3. Begins(GotDepth, b.depth)
    BY <1>10, <1>11, <1>13 DEF TakesPart
  <2>4. Begins(Got, b.quotes)' /\ Begins(GotDepth, b.depth)'
    BY <1>10, <1>12, <2>2, <2>3 DEF Begins
  <2>5. StreamsTyped'
    BY <1>1, <2>1 DEF StreamsTyped
  <2> QED
    BY <1>3, <2>1, <2>4, <2>5 DEF HasRead
<1>15. CASE ~full
  <2> DEFINE w == streams.changedDepth \o part
  <2>1. streams' = [subscriptions |-> streams.subscriptions, quotes |-> streams.quotes,
                    changedQuotes |-> streams.changedQuotes, changedDepth |-> w]
    BY <1>4, <1>9, <1>15
  <2>2. w \in Seq(DepthRecords) /\ part \in Seq(DepthRecords)
    BY <1>13 DEF TakesPart
  <2>3. StreamsTyped'
    <3> HIDE DEF w
    <3> QED
      BY <1>1, <1>6, <1>9, <2>1, <2>2, NewStreams
  <2>4. Got' = Got
    BY <2>1 DEF Got
  <2>5. GotDepth' = GotDepth \o part
    <3> DEFINE s == streams.changedDepth
               u == taken.depth
    <3>1. s \in Seq(DepthRecords) /\ u \in Seq(DepthRecords)
      BY <1>9
    <3>2. GotDepth = u \o s
      BY DEF GotDepth
    <3>3. GotDepth' = u \o (s \o part)
      BY <2>1 DEF GotDepth
    <3> HIDE DEF s, u, part
    <3>4. JoinsInside(u, s, part)
      BY <2>2, <3>1, JoinedToConcat
    <3> QED
      BY <3>2, <3>3, <3>4 DEF JoinsInside
  <2>6. Begins(GotDepth \o part, b.depth)
    BY <1>10, <1>11, <1>13 DEF TakesPart
  <2>7. Begins(Got, b.quotes)' /\ Begins(GotDepth, b.depth)'
    BY <1>10, <1>12, <2>4, <2>5, <2>6 DEF Begins
  <2>8. ASSUME sound' PROVE Agrees(b)'
    <3>1. k = Len(m.records)
      BY <1>5, <1>8, <1>15, <2>8
    <3>2. part = m.records
      BY <1>13, <3>1 DEF TakesPart
    <3>3. Got' = b.quotes /\ GotDepth' = b.depth
      BY <1>10, <1>11, <2>4, <2>5, <3>2
    <3>4. streams'.quotes = streams.quotes
      BY <2>1
    <3>5. \A id \in Ids : QuoteOf(id)' = b.sides[id]
      BY <1>11, <3>4 DEF QuoteOf, Agrees
    <3> QED
      BY <1>2, <1>11, <3>3, <3>5 DEF Agrees, SameAccount, SameRecords, Listed
  <2> QED
    BY <1>3, <2>3, <2>7, <2>8 DEF HasRead
<1> QED
  BY <1>14, <1>15

LEMMA BookParts ==
    ASSUME BookTyped
    PROVE  /\ book = [positions |-> book.positions, orders |-> book.orders,
                      balance |-> book.balance, symbols |-> book.symbols,
                      symbolIds |-> book.symbolIds]
           /\ book.positions \in Seq(PositionsHeld) /\ book.orders \in Seq(OrdersHeld)
           /\ book.balance \in Int /\ book.symbols \in Seq([id : Ids, version : Nat])
           /\ Once(book.positions) /\ Once(book.orders) /\ Indexed
<1>1. book \in [positions : Seq(PositionsHeld), orders : Seq(OrdersHeld), balance : Int,
                symbols : Seq([id : Ids, version : Nat]), symbolIds : {book.symbolIds}]
  BY DEF BookTyped
<1> QED
  BY <1>1 DEF BookTyped

\* A book with the same symbols.
LEMMA NewBook ==
    ASSUME BookTyped, NEW p \in Seq(PositionsHeld), Once(p), NEW o \in Seq(OrdersHeld), Once(o),
           NEW c \in Int,
           book' = [positions |-> p, orders |-> o, balance |-> c, symbols |-> book.symbols,
                    symbolIds |-> book.symbolIds]
    PROVE  BookTyped' /\ Listed(book') = Listed(book)
<1>1. book.symbols \in Seq([id : Ids, version : Nat]) /\ Indexed
  BY BookParts
<1>2. /\ book' \in [positions : Seq(PositionsHeld), orders : Seq(OrdersHeld), balance : Int,
                    symbols : Seq([id : Ids, version : Nat]), symbolIds : {book.symbolIds}]
      /\ book'.positions = p /\ book'.orders = o /\ book'.symbolIds = book.symbolIds
      /\ book'.symbols = book.symbols
  BY <1>1
<1>3. Indexed'
  BY <1>1, <1>2 DEF Indexed, Listed
<1> QED
  BY <1>2, <1>3 DEF BookTyped, Listed

\* The account changes, the streams do not.
LEMMA BookRead ==
    ASSUME BookInv, sound, NEW a, NEW b, IsAccount(a), Agrees(a), SameTold(a, b),
           UNCHANGED <<taken, sound>>, streams'.quotes = streams.quotes,
           streams'.changedQuotes = streams.changedQuotes,
           streams'.changedDepth = streams.changedDepth,
           BookTyped', StreamsTyped',
           ToSet(book'.positions) = b.positions, ToSet(book'.orders) = b.orders,
           book'.balance = b.balance, Listed(book') = DOMAIN b.symbols,
           \A id \in Listed(book') : book'.symbols[book'.symbolIds[id]].version = b.symbols[id]
    PROVE  HasRead(b)
<1>1. Got' = Got /\ GotDepth' = GotDepth
  BY DEF Got, GotDepth
<1>2. Got = a.quotes /\ GotDepth = a.depth
  BY DEF Agrees
<1>3. a.quotes \in Seq(Ids \X BothSides) /\ a.depth \in Seq(DepthRecords)
  BY DEF IsAccount
<1>4. Begins(a.quotes, a.quotes) /\ Begins(a.depth, a.depth)
  BY <1>3 DEF Begins
<1>5. b.quotes = a.quotes /\ b.depth = a.depth /\ b.sides = a.sides
  BY DEF SameTold
<1>6. Begins(Got, b.quotes)' /\ Begins(GotDepth, b.depth)'
  BY <1>1, <1>2, <1>4, <1>5 DEF Begins
<1>7. \A id \in Ids : QuoteOf(id)' = b.sides[id]
  BY <1>5 DEF QuoteOf, Agrees
<1>8. Agrees(b)'
  BY <1>1, <1>2, <1>5, <1>7 DEF Agrees, Listed
<1> QED
  BY <1>6, <1>8 DEF HasRead

\* The book after is the book before with the symbol that m tells of.
SymbolPut(before, after, m, new, map) ==
    /\ new \in Seq([id : Ids, version : Nat])
    /\ after = [positions |-> before.positions, orders |-> before.orders,
                balance |-> before.balance, symbols |-> new, symbolIds |-> map]
    /\ DOMAIN map = DOMAIN before.symbolIds \cup {m.id}
    /\ \A id \in DOMAIN map :
         /\ map[id] \in DOMAIN new /\ new[map[id]].id = id
         /\ new[map[id]].version = IF id = m.id THEN m.version
                                   ELSE before.symbols[before.symbolIds[id]].version
    /\ \A i \in DOMAIN new : new[i].id \in DOMAIN map /\ map[new[i].id] = i

LEMMA SymbolApplied ==
    ASSUME BookInv, sound, NEW m, NEW a, NEW b, IsAccount(a), IsAccount(b), Agrees(a),
           TellsSymbol(a, m, b), ApplySymbol(m), UNCHANGED taken
    PROVE  HasRead(b)
<1> DEFINE ids == book.symbolIds
           old == book.symbols
           n == Len(old)
<1>1. BookTyped /\ StreamsTyped
  BY DEF BookInv
<1>2. /\ book = [positions |-> book.positions, orders |-> book.orders,
                 balance |-> book.balance, symbols |-> old, symbolIds |-> ids]
      /\ book.positions \in Seq(PositionsHeld) /\ book.orders \in Seq(OrdersHeld)
      /\ book.balance \in Int /\ old \in Seq([id : Ids, version : Nat])
      /\ Once(book.positions) /\ Once(book.orders) /\ Indexed
  BY <1>1, BookParts
<1>3. m.id \in Ids /\ m.version \in Nat
  BY DEF TellsSymbol
<1>4. /\ DOMAIN ids \subseteq Ids
      /\ \A id \in DOMAIN ids : ids[id] \in 1 .. n /\ old[ids[id]].id = id
      /\ \A i \in 1 .. n : old[i].id \in DOMAIN ids /\ ids[old[i].id] = i
      /\ n \in Nat /\ DOMAIN old = 1 .. n
      /\ \A i \in 1 .. n : old[i] \in [id : Ids, version : Nat]
  <2>1. n \in Nat /\ DOMAIN old = 1 .. n /\ \A i \in 1 .. n : old[i] \in [id : Ids, version : Nat]
    <3> DEFINE E == [id : Ids, version : Nat]
    <3>1. old \in Seq(E)
      BY <1>2
    <3> HIDE DEF E, old
    <3>2. Len(old) \in Nat /\ DOMAIN old = 1 .. Len(old) /\ \A i \in 1 .. Len(old) : old[i] \in E
      BY <3>1
    <3> QED
      BY <3>2 DEF E
  <2> QED
    BY <1>2, <2>1 DEF Indexed, Listed
<1>40. IF m.id \in DOMAIN ids
       THEN book' = [book EXCEPT !.symbols[ids[m.id]].version = m.version]
       ELSE book' = [book EXCEPT
                       !.symbols = Append(old, [id |-> m.id, version |-> m.version]),
                       !.symbolIds = [id \in DOMAIN ids \cup {m.id} |->
                                        IF id = m.id THEN n + 1 ELSE ids[id]]]
  BY DEF ApplySymbol, Listed
<1>5. UNCHANGED <<streams, sound>>
  BY DEF ApplySymbol
<1> HIDE DEF ids, old, n
<1>6. \E new, map : SymbolPut(book, book', m, new, map)
  <2>1. CASE m.id \in DOMAIN ids
    <3> DEFINE k == ids[m.id]
               e == [id |-> m.id, version |-> m.version]
               new == [old EXCEPT ![k] = e]
    <3>1. k \in 1 .. n /\ old[k].id = m.id /\ old[k] \in [id : Ids, version : Nat]
      BY <1>2, <1>4, <2>1
    <3>2. e \in [id : Ids, version : Nat] /\ e.id = m.id /\ e.version = m.version
      BY <1>3
    <3>3. [old[k] EXCEPT !.version = m.version] = e
      BY <3>1
    <3>4. book' = [positions |-> book.positions, orders |-> book.orders,
                   balance |-> book.balance, symbols |-> new, symbolIds |-> ids]
      BY <1>2, <1>40, <2>1, <3>1, <3>3 DEF old
    <3> HIDE DEF e
    <3>5. /\ new \in Seq([id : Ids, version : Nat]) /\ DOMAIN new = 1 .. n
          /\ \A j \in 1 .. n : new[j] = IF j = k THEN e ELSE old[j]
      BY <1>2, <1>4, <3>1, <3>2
    <3> HIDE DEF new, k
    <3>6. \A id \in DOMAIN ids : /\ ids[id] \in DOMAIN new /\ new[ids[id]].id = id
                                 /\ new[ids[id]].version =
                                      IF id = m.id THEN m.version ELSE old[ids[id]].version
      <4> TAKE id \in DOMAIN ids
      <4>1. ids[id] \in 1 .. n /\ old[ids[id]].id = id
        BY <1>4
      <4>2. CASE id = m.id
        BY <3>2, <3>5, <4>1, <4>2 DEF k
      <4>3. CASE id # m.id
        <5>1. ids[id] # k
          BY <3>1, <4>1, <4>3
        <5> QED
          BY <3>5, <4>1, <4>3, <5>1
      <4> QED
        BY <4>2, <4>3
    <3>7. \A i \in DOMAIN new : new[i].id \in DOMAIN ids /\ ids[new[i].id] = i
      <4> TAKE i \in DOMAIN new
      <4>1. i \in 1 .. n
        BY <3>5
      <4>2. new[i].id = old[i].id
        <5>1. i # k => new[i] = old[i]
          BY <3>5, <4>1
        <5>2. i = k => new[i] = e
          BY <3>5, <4>1
        <5> QED
          BY <3>1, <3>2, <5>1, <5>2
      <4> QED
        BY <1>4, <4>1, <4>2
    <3>8. DOMAIN ids = DOMAIN ids \cup {m.id}
      BY <2>1
    <3>9. SymbolPut(book, book', m, new, ids)
      BY <3>4, <3>5, <3>6, <3>7, <3>8 DEF SymbolPut, ids, old
    <3> QED
      BY <3>9
  <2>2. CASE m.id \notin DOMAIN ids
    <3> DEFINE e == [id |-> m.id, version |-> m.version]
               new == Append(old, e)
               map == [id \in DOMAIN ids \cup {m.id} |-> IF id = m.id THEN n + 1 ELSE ids[id]]
    <3>1. e \in [id : Ids, version : Nat] /\ e.id = m.id /\ e.version = m.version
      BY <1>3
    <3>2. book' = [positions |-> book.positions, orders |-> book.orders,
                   balance |-> book.balance, symbols |-> new, symbolIds |-> map]
      BY <1>2, <1>40, <2>2
    <3>3. /\ DOMAIN map = DOMAIN ids \cup {m.id} /\ map[m.id] = n + 1
          /\ \A id \in DOMAIN ids : map[id] = ids[id]
      BY <2>2
    <3> HIDE DEF e, map
    <3>4. /\ new \in Seq([id : Ids, version : Nat]) /\ Len(new) = n + 1 /\ DOMAIN new = 1 .. n + 1
          /\ new[n + 1] = e /\ \A j \in 1 .. n : new[j] = old[j]
      BY <1>2, <1>4, <3>1, AppendProperties
    <3> HIDE DEF new
    <3>5. \A id \in DOMAIN map : /\ map[id] \in DOMAIN new /\ new[map[id]].id = id
                                 /\ new[map[id]].version =
                                      IF id = m.id THEN m.version ELSE old[ids[id]].version
      <4> TAKE id \in DOMAIN map
      <4>1. CASE id = m.id
        <5>1. map[id] = n + 1 /\ n + 1 \in 1 .. n + 1
          BY <1>4, <3>3, <4>1
        <5> QED
          BY <3>1, <3>4, <4>1, <5>1
      <4>2. CASE id # m.id
        <5>1. id \in DOMAIN ids /\ map[id] = ids[id] /\ ids[id] \in 1 .. n
          BY <1>4, <3>3, <4>2
        <5>2. ids[id] \in 1 .. n + 1
          BY <1>4, <5>1
        <5>3. new[map[id]] = old[ids[id]] /\ map[id] \in DOMAIN new
          BY <3>4, <5>1, <5>2
        <5> QED
          BY <1>4, <4>2, <5>1, <5>3
      <4> QED
        BY <4>1, <4>2
    <3>6. \A i \in DOMAIN new : new[i].id \in DOMAIN map /\ map[new[i].id] = i
      <4> TAKE i \in DOMAIN new
      <4>1. i \in 1 .. n \/ i = n + 1
        BY <1>4, <3>4
      <4>2. CASE i \in 1 .. n
        <5>1. new[i] = old[i] /\ old[i].id \in DOMAIN ids /\ ids[old[i].id] = i
          BY <1>4, <3>4, <4>2
        <5>2. map[old[i].id] = ids[old[i].id] /\ old[i].id \in DOMAIN map
          BY <3>3, <5>1
        <5> QED
          BY <5>1, <5>2
      <4>3. CASE i = n + 1
        <5>1. new[i] = e /\ e.id = m.id /\ m.id \in DOMAIN map
          BY <3>1, <3>3, <3>4, <4>3
        <5> QED
          BY <3>3, <4>3, <5>1
      <4> QED
        BY <4>1, <4>2, <4>3
    <3>9. SymbolPut(book, book', m, new, map)
      BY <3>2, <3>3, <3>4, <3>5, <3>6 DEF SymbolPut, ids, old
    <3> QED
      BY <3>9
  <2> QED
    BY <2>1, <2>2
<1>60. PICK new, map : SymbolPut(book, book', m, new, map)
  BY <1>6
<1>7. new \in Seq([id : Ids, version : Nat])
      /\ book' = [positions |-> book.positions, orders |-> book.orders,
                    balance |-> book.balance, symbols |-> new, symbolIds |-> map]
      /\ DOMAIN map = DOMAIN ids \cup {m.id}
      /\ \A id \in DOMAIN map : /\ map[id] \in DOMAIN new /\ new[map[id]].id = id
                                /\ new[map[id]].version =
                                     IF id = m.id THEN m.version ELSE old[ids[id]].version
      /\ \A i \in DOMAIN new : new[i].id \in DOMAIN map /\ map[new[i].id] = i
  BY <1>60 DEF SymbolPut, ids, old
<1>8. /\ book'.positions = book.positions /\ book'.orders = book.orders
      /\ book'.balance = book.balance /\ book'.symbols = new /\ book'.symbolIds = map
  BY <1>7
<1>9. BookTyped'
  <2>1. book' \in [positions : Seq(PositionsHeld), orders : Seq(OrdersHeld), balance : Int,
                   symbols : Seq([id : Ids, version : Nat]), symbolIds : {map}]
    BY <1>2, <1>7
  <2>2. DOMAIN map \subseteq Ids
    BY <1>3, <1>4, <1>7
  <2>3. Indexed'
    BY <1>7, <1>8, <2>2 DEF Indexed, Listed
  <2> QED
    BY <1>2, <1>8, <2>1, <2>3 DEF BookTyped
<1>10. StreamsTyped'
  BY <1>1, <1>5 DEF StreamsTyped
<1>11. /\ a.positions = b.positions /\ a.orders = b.orders /\ a.balance = b.balance
       /\ DOMAIN b.symbols = DOMAIN a.symbols \cup {m.id} /\ SameTold(a, b)
       /\ \A id \in DOMAIN b.symbols : b.symbols[id] = IF id = m.id THEN m.version ELSE a.symbols[id]
  BY DEF TellsSymbol, SameRecords
<1>12. /\ ToSet(book.positions) = a.positions /\ ToSet(book.orders) = a.orders
       /\ book.balance = a.balance /\ DOMAIN ids = DOMAIN a.symbols
       /\ \A id \in DOMAIN ids : old[ids[id]].version = a.symbols[id]
  BY DEF Agrees, Listed, ids, old
<1>13. Listed(book') = DOMAIN map
  BY <1>8 DEF Listed
<1>14. \A id \in DOMAIN map : new[map[id]].version = b.symbols[id]
  BY <1>7, <1>11, <1>12
<1>15. \A id \in Listed(book') : book'.symbols[book'.symbolIds[id]].version = b.symbols[id]
  BY <1>8, <1>13, <1>14
<1> QED
  BY <1>5, <1>7, <1>8, <1>9, <1>10, <1>11, <1>12, <1>13, <1>15, BookRead

LEMMA OrderApplied ==
    ASSUME BookInv, sound, NEW m, NEW a, NEW b, IsAccount(a), IsAccount(b), Agrees(a),
           TellsOrder(a, m, b), ApplyOrder(m), UNCHANGED taken
    PROVE  HasRead(b)
<1> DEFINE w == Without(book.orders, m.order.ticket)
           o == w \o IF m.change = "Delete" THEN <<>> ELSE <<m.order>>
<1>1. BookTyped /\ StreamsTyped
  BY DEF BookInv
<1>2. /\ book = [positions |-> book.positions, orders |-> book.orders,
                 balance |-> book.balance, symbols |-> book.symbols,
                 symbolIds |-> book.symbolIds]
      /\ book.positions \in Seq(PositionsHeld) /\ book.orders \in Seq(OrdersHeld)
      /\ book.balance \in Int /\ Once(book.positions) /\ Once(book.orders)
  BY <1>1, BookParts
<1>3. m.order \in OrdersHeld
  BY DEF TellsOrder
<1>4. w \in Seq(OrdersHeld) /\ Once(w) /\ ToSet(w) = {r \in ToSet(book.orders) : r.ticket # m.order.ticket}
  BY <1>2, WithoutKeeps
<1>5. book' = [positions |-> book.positions, orders |-> o, balance |-> book.balance,
               symbols |-> book.symbols, symbolIds |-> book.symbolIds]
      /\ UNCHANGED <<streams, sound>>
  BY <1>2 DEF ApplyOrder
<1> HIDE DEF w
<1>6. /\ o \in Seq(OrdersHeld) /\ Once(o)
      /\ ToSet(o) = ToSet(w) \cup (IF m.change = "Delete" THEN {} ELSE {m.order})
  <2>1. CASE m.change = "Delete"
    <3>1. o = w
      BY <1>4, <2>1, OncePut
    <3> HIDE DEF o
    <3> QED
      BY <1>4, <2>1, <3>1
  <2>2. CASE m.change # "Delete"
    <3>1. \A r \in ToSet(w) : r.ticket # m.order.ticket
      BY <1>4
    <3>2. o = w \o <<m.order>>
      BY <2>2
    <3>3. /\ w \o <<m.order>> \in Seq(OrdersHeld) /\ Once(w \o <<m.order>>)
          /\ ToSet(w \o <<m.order>>) = ToSet(w) \cup {m.order}
      BY <1>3, <1>4, <3>1, OncePut
    <3> HIDE DEF o
    <3> QED
      BY <2>2, <3>2, <3>3
  <2> QED
    BY <2>1, <2>2
<1> HIDE DEF o
<1>7. BookTyped' /\ Listed(book') = Listed(book)
  BY <1>1, <1>2, <1>5, <1>6, NewBook
<1>8. StreamsTyped'
  BY <1>1, <1>5 DEF StreamsTyped
<1>9. /\ b.positions = a.positions /\ b.balance = a.balance /\ b.symbols = a.symbols
      /\ SameTold(a, b)
      /\ b.orders = {r \in a.orders : r.ticket # m.order.ticket}
                      \cup (IF m.change = "Delete" THEN {} ELSE {m.order})
  BY DEF TellsOrder
<1>10. /\ book'.positions = book.positions /\ book'.orders = o /\ book'.balance = book.balance
       /\ book'.symbols = book.symbols /\ book'.symbolIds = book.symbolIds
  BY <1>5
<1>11. /\ ToSet(book.positions) = a.positions /\ ToSet(book.orders) = a.orders
       /\ book.balance = a.balance /\ Listed(book) = DOMAIN a.symbols
       /\ \A id \in Listed(book) : book.symbols[book.symbolIds[id]].version = a.symbols[id]
  BY DEF Agrees
<1>12. ToSet(book'.orders) = b.orders
  BY <1>4, <1>6, <1>9, <1>10, <1>11
<1>13. \A id \in Listed(book') : book'.symbols[book'.symbolIds[id]].version = b.symbols[id]
  BY <1>7, <1>9, <1>10, <1>11
<1> QED
  BY <1>5, <1>7, <1>8, <1>9, <1>10, <1>11, <1>12, <1>13, BookRead

LEMMA PositionsApplied ==
    ASSUME BookInv, sound, NEW m, NEW a, NEW b, IsAccount(a), IsAccount(b), Agrees(a),
           TellsPositions(a, m, b), ApplyPositions(m), UNCHANGED taken
    PROVE  HasRead(b)
<1> DEFINE p == Placed(book.positions, m.positions)
           c == IF m.deal THEN m.balance ELSE book.balance
<1>1. BookTyped /\ StreamsTyped
  BY DEF BookInv
<1>2. /\ book = [positions |-> book.positions, orders |-> book.orders,
                 balance |-> book.balance, symbols |-> book.symbols,
                 symbolIds |-> book.symbolIds]
      /\ book.positions \in Seq(PositionsHeld) /\ book.orders \in Seq(OrdersHeld)
      /\ book.balance \in Int /\ Once(book.positions) /\ Once(book.orders)
  BY <1>1, BookParts
<1>3. /\ m.positions \in Seq(PositionRecords) /\ Once(m.positions) /\ m.balance \in Int
      /\ b.orders = a.orders /\ b.symbols = a.symbols /\ SameTold(a, b)
      /\ b.balance = IF m.deal THEN m.balance ELSE a.balance
      /\ b.positions = {r \in a.positions : \A d \in ToSet(m.positions) : r.ticket # d.ticket}
                         \cup {d \in ToSet(m.positions) : Stands(d)}
  BY DEF TellsPositions
<1>4. \A d \in PositionRecords : Stands(d) => d \in PositionsHeld
  <2> SUFFICES ASSUME NEW d \in PositionRecords, Stands(d)
               PROVE  d \in PositionsHeld
    OBVIOUS
  <2>1. d \in [ticket : BookTickets, symbol : Ids, volume : {0, 1, 2}]
    BY DEF PositionRecords, Stands
  <2>2. d.volume \in {1, 2}
    BY <2>1 DEF Stands
  <2> QED
    BY <2>1, <2>2 DEF PositionsHeld
<1>5. /\ p \in Seq(PositionsHeld) /\ Once(p)
      /\ ToSet(p) = {r \in ToSet(book.positions) : \A d \in ToSet(m.positions) : r.ticket # d.ticket}
                      \cup {d \in ToSet(m.positions) : Stands(d)}
  <2>1. TakePlaces(PositionsHeld, book.positions, m.positions)
    BY <1>2, <1>3, <1>4, PlacedKeeps
  <2> QED
    BY <2>1 DEF TakePlaces
<1>6. /\ book' = [positions |-> p, orders |-> book.orders, balance |-> c,
                  symbols |-> book.symbols, symbolIds |-> book.symbolIds]
      /\ UNCHANGED sound
  BY <1>2 DEF ApplyPositions
<1>7. \E s : streams' = [streams EXCEPT !.subscriptions = s]
  <2>1. streams = [subscriptions |-> streams.subscriptions, quotes |-> streams.quotes,
                   changedQuotes |-> streams.changedQuotes,
                   changedDepth |-> streams.changedDepth]
    BY <1>1, StreamsParts
  <2>2. streams = [streams EXCEPT !.subscriptions = streams.subscriptions]
    BY <2>1
  <2>3. streams' = streams \/ \E s : streams' = [streams EXCEPT !.subscriptions = s]
    BY DEF ApplyPositions
  <2> QED
    BY <2>2, <2>3
<1>8. PICK s : streams' = [streams EXCEPT !.subscriptions = s]
  BY <1>7
<1>9. /\ streams' = [subscriptions |-> s, quotes |-> streams.quotes,
                     changedQuotes |-> streams.changedQuotes,
                     changedDepth |-> streams.changedDepth]
      /\ streams.changedQuotes \in Seq(Ids \X BothSides)
      /\ streams.changedDepth \in Seq(DepthRecords)
  BY <1>1, <1>8, StreamsParts
<1>10. sound' \in BOOLEAN
  BY <1>1, <1>6 DEF StreamsTyped
<1>11. StreamsTyped'
  BY <1>1, <1>9, <1>10, NewStreams
<1>12. c \in Int
  BY <1>2, <1>3
<1> HIDE DEF p, c
<1>13. BookTyped' /\ Listed(book') = Listed(book)
  BY <1>1, <1>2, <1>5, <1>6, <1>12, NewBook
<1>14. /\ book'.positions = p /\ book'.orders = book.orders /\ book'.balance = c
       /\ book'.symbols = book.symbols /\ book'.symbolIds = book.symbolIds
  BY <1>6
<1>15. /\ ToSet(book.positions) = a.positions /\ ToSet(book.orders) = a.orders
       /\ book.balance = a.balance /\ Listed(book) = DOMAIN a.symbols
       /\ \A id \in Listed(book) : book.symbols[book.symbolIds[id]].version = a.symbols[id]
  BY DEF Agrees
<1>16. ToSet(book'.positions) = b.positions
  BY <1>3, <1>5, <1>14, <1>15
<1>17. \A id \in Listed(book') : book'.symbols[book'.symbolIds[id]].version = b.symbols[id]
  BY <1>3, <1>13, <1>14, <1>15
<1>18. book'.balance = b.balance
  BY <1>3, <1>14, <1>15 DEF c
<1>19. /\ streams'.quotes = streams.quotes /\ streams'.changedQuotes = streams.changedQuotes
       /\ streams'.changedDepth = streams.changedDepth
  BY <1>9
<1> QED
  BY <1>3, <1>6, <1>11, <1>13, <1>14, <1>15, <1>16, <1>17, <1>18, <1>19, BookRead

LEMMA BalanceApplied ==
    ASSUME BookInv, sound, NEW m, NEW a, NEW b, IsAccount(a), IsAccount(b), Agrees(a),
           TellsBalance(a, m, b), ApplyAccount(m), UNCHANGED taken
    PROVE  HasRead(b)
<1> DEFINE c == IF m.own THEN m.balance ELSE book.balance
<1>1. BookTyped /\ StreamsTyped
  BY DEF BookInv
<1>2. /\ book = [positions |-> book.positions, orders |-> book.orders,
                 balance |-> book.balance, symbols |-> book.symbols,
                 symbolIds |-> book.symbolIds]
      /\ book.positions \in Seq(PositionsHeld) /\ book.orders \in Seq(OrdersHeld)
      /\ book.balance \in Int /\ Once(book.positions) /\ Once(book.orders)
  BY <1>1, BookParts
<1>3. /\ m.own \in BOOLEAN /\ m.balance \in Int
      /\ SameRecords(a, b) /\ b.symbols = a.symbols /\ SameTold(a, b)
      /\ b.balance = IF m.own THEN m.balance ELSE a.balance
  BY DEF TellsBalance
<1>4. c \in Int
  BY <1>2, <1>3
<1>5. book' = [positions |-> book.positions, orders |-> book.orders, balance |-> c,
               symbols |-> book.symbols, symbolIds |-> book.symbolIds]
      /\ UNCHANGED <<streams, sound>>
  BY <1>2 DEF ApplyAccount
<1> HIDE DEF c
<1>6. BookTyped' /\ Listed(book') = Listed(book)
  BY <1>1, <1>2, <1>4, <1>5, NewBook
<1>7. StreamsTyped'
  BY <1>1, <1>5 DEF StreamsTyped
<1>8. /\ book'.positions = book.positions /\ book'.orders = book.orders /\ book'.balance = c
      /\ book'.symbols = book.symbols /\ book'.symbolIds = book.symbolIds
  BY <1>5
<1>9. /\ ToSet(book.positions) = a.positions /\ ToSet(book.orders) = a.orders
      /\ book.balance = a.balance /\ Listed(book) = DOMAIN a.symbols
      /\ \A id \in Listed(book) : book.symbols[book.symbolIds[id]].version = a.symbols[id]
  BY DEF Agrees
<1>10. \A id \in Listed(book') : book'.symbols[book'.symbolIds[id]].version = b.symbols[id]
  BY <1>3, <1>6, <1>8, <1>9
<1>11. book'.balance = b.balance /\ ToSet(book'.positions) = b.positions
       /\ ToSet(book'.orders) = b.orders
  BY <1>3, <1>8, <1>9 DEF c, SameRecords
<1> QED
  BY <1>3, <1>5, <1>6, <1>7, <1>9, <1>10, <1>11, BookRead

LEMMA PollStart ==
    ASSUME BookInv, sound, wire # <<>>
    PROVE  \E h : /\ Past(h) /\ IsAccount(h[0]) /\ IsAccount(h[1]) /\ Agrees(h[0])
                  /\ Begins(h[1].quotes, told.quotes) /\ Begins(h[1].depth, told.depth)
                  /\ Follows(h[0], Head(wire), h[1])
<1>1. PICK h : Past(h)
  BY DEF BookInv
<1>2. Len(wire) \in Nat \ {0} /\ Head(wire) = wire[1]
  BY TailAny DEF BookInv, BrokerTyped
<1>3. 0 \in 0 .. Len(wire) /\ 1 \in 0 .. Len(wire) /\ 1 \in 1 .. Len(wire)
  BY <1>2
<1>4. Follows(h[1 - 1], wire[1], h[1])
  BY <1>1, <1>3 DEF Past
<1>5. IsAccount(h[0]) /\ IsAccount(h[1])
  BY <1>1, <1>3 DEF Past
<1>6. Begins(h[1].quotes, told.quotes) /\ Begins(h[1].depth, told.depth) /\ Agrees(h[0])
  BY <1>1, <1>3 DEF Past
<1> QED
  BY <1>1, <1>2, <1>4, <1>5, <1>6

LEMMA BeginsOn ==
    ASSUME NEW r, NEW s, NEW t, Len(r) \in Nat, Len(s) \in Nat, Len(t) \in Nat,
           Begins(r, s), Begins(s, t)
    PROVE  Begins(r, t)
  BY DEF Begins

LEMMA PollInv ==
    ASSUME BookInv, PollBook
    PROVE  BookInv'
<1> DEFINE m == Head(wire)
<1>1. /\ sound /\ wire # <<>> /\ wire' = Tail(wire) /\ UNCHANGED <<account, told, taken>>
      /\ \/ m.kind = "quote" /\ ApplyQuote(m)
         \/ m.kind = "depth" /\ ApplyDepth(m)
         \/ m.kind = "symbol" /\ ApplySymbol(m)
         \/ m.kind = "order" /\ ApplyOrder(m)
         \/ m.kind = "positions" /\ ApplyPositions(m)
         \/ m.kind = "account" /\ ApplyAccount(m)
  BY DEF PollBook
<1>2. PICK h : /\ Past(h) /\ IsAccount(h[0]) /\ IsAccount(h[1]) /\ Agrees(h[0])
               /\ Begins(h[1].quotes, told.quotes) /\ Begins(h[1].depth, told.depth)
               /\ Follows(h[0], m, h[1])
  BY <1>1, PollStart
<1> DEFINE a == h[0]
           b == h[1]
<1>3. /\ IsAccount(a) /\ IsAccount(b) /\ Agrees(a) /\ Follows(a, m, b)
      /\ Begins(b.quotes, told.quotes) /\ Begins(b.depth, told.depth)
  BY <1>2
<1> HIDE DEF m, a, b
<1>4. HasRead(b)
  <2>1. CASE m.kind = "quote" /\ ApplyQuote(m)
    <3>1. TellsQuote(a, m, b)
      BY <1>3, <2>1 DEF Follows, TellsDepth, TellsSymbol, TellsOrder, TellsPositions, TellsBalance
    <3> QED
      BY <1>1, <1>3, <2>1, <3>1, QuoteApplied
  <2>2. CASE m.kind = "depth" /\ ApplyDepth(m)
    <3>1. TellsDepth(a, m, b)
      BY <1>3, <2>2 DEF Follows, TellsQuote, TellsSymbol, TellsOrder, TellsPositions, TellsBalance
    <3> QED
      BY <1>1, <1>3, <2>2, <3>1, DepthApplied
  <2>3. CASE m.kind = "symbol" /\ ApplySymbol(m)
    <3>1. TellsSymbol(a, m, b)
      BY <1>3, <2>3 DEF Follows, TellsQuote, TellsDepth, TellsOrder, TellsPositions, TellsBalance
    <3> QED
      BY <1>1, <1>3, <2>3, <3>1, SymbolApplied
  <2>4. CASE m.kind = "order" /\ ApplyOrder(m)
    <3>1. TellsOrder(a, m, b)
      BY <1>3, <2>4 DEF Follows, TellsQuote, TellsDepth, TellsSymbol, TellsPositions, TellsBalance
    <3> QED
      BY <1>1, <1>3, <2>4, <3>1, OrderApplied
  <2>5. CASE m.kind = "positions" /\ ApplyPositions(m)
    <3>1. TellsPositions(a, m, b)
      BY <1>3, <2>5 DEF Follows, TellsQuote, TellsDepth, TellsSymbol, TellsOrder, TellsBalance
    <3> QED
      BY <1>1, <1>3, <2>5, <3>1, PositionsApplied
  <2>6. CASE m.kind = "account" /\ ApplyAccount(m)
    <3>1. TellsBalance(a, m, b)
      BY <1>3, <2>6 DEF Follows, TellsQuote, TellsDepth, TellsSymbol, TellsOrder, TellsPositions
    <3> QED
      BY <1>1, <1>3, <2>6, <3>1, BalanceApplied
  <2> QED
    BY <1>1, <2>1, <2>2, <2>3, <2>4, <2>5, <2>6
<1>5. BookTyped' /\ StreamsTyped' /\ (sound' => Agrees(h[1])')
  BY <1>4 DEF HasRead, b
<1>6. Begins(Got', b.quotes) /\ Begins(GotDepth', b.depth)
  BY <1>4 DEF HasRead, Begins
<1>7. Got' \in Seq(Ids \X BothSides) /\ GotDepth' \in Seq(DepthRecords)
  <2>1. /\ taken' \in [quotes : Seq(Ids \X BothSides), depth : Seq(DepthRecords)]
        /\ streams'.changedQuotes \in Seq(Ids \X BothSides)
        /\ streams'.changedDepth \in Seq(DepthRecords)
    BY <1>5 DEF StreamsTyped
  <2>2. taken'.quotes \in Seq(Ids \X BothSides) /\ taken'.depth \in Seq(DepthRecords)
    BY <2>1
  <2> QED
    BY <2>1, <2>2, ConcatProperties DEF Got, GotDepth
<1>8. /\ b.quotes \in Seq(Ids \X BothSides) /\ b.depth \in Seq(DepthRecords)
      /\ told.quotes \in Seq(Ids \X BothSides) /\ told.depth \in Seq(DepthRecords)
  BY <1>3, ToldParts DEF IsAccount, BookInv, BrokerTyped
<1>9. /\ Len(Got') \in Nat /\ Len(GotDepth') \in Nat /\ Len(b.quotes) \in Nat
      /\ Len(b.depth) \in Nat /\ Len(told.quotes) \in Nat /\ Len(told.depth) \in Nat
  BY <1>7, <1>8
<1>10. Begins(Got', told.quotes) /\ Begins(GotDepth', told.depth)
  BY <1>3, <1>6, <1>9, BeginsOn
<1>11. Begins(Got, told.quotes)' /\ Begins(GotDepth, told.depth)'
  BY <1>1, <1>10 DEF Begins
<1> QED
  BY <1>1, <1>2, <1>5, <1>11, PolledInv

\* The application asks for streams, or takes what has come.
LEMMA StillInv ==
    ASSUME BookInv, UNCHANGED <<account, wire, told, book, sound>>, StreamsTyped',
           Got' = Got, GotDepth' = GotDepth, streams'.quotes = streams.quotes
    PROVE  BookInv'
<1>1. BrokerTyped' /\ BookTyped'
  BY DEF BookInv, BrokerTyped, AccountTyped, ToldTyped, BookTyped, Indexed, Listed
<1>2. Begins(Got, told.quotes)' /\ Begins(GotDepth, told.depth)'
  BY DEF BookInv, Begins
<1>3. PICK h : Past(h)
  BY DEF BookInv
<1>4. Now' = Now
  BY DEF Now, Stage
<1>5. sound => Agrees(h[0])
  BY <1>3 DEF Past
<1>6. sound' => Agrees(h[0])'
  BY <1>5 DEF Agrees, QuoteOf, Listed
<1>7. Past(h)'
  BY <1>3, <1>4, <1>6 DEF Past
<1> QED
  BY <1>1, <1>2, <1>7 DEF BookInv

LEMMA SubscribeInv ==
    ASSUME BookInv, NEW ids, Subscribe(ids)
    PROVE  BookInv'
<1> DEFINE subs == Subscribed(book, ids)
<1>1. StreamsTyped
  BY DEF BookInv
<1>2. UNCHANGED <<account, wire, told, book, taken, sound>>
  BY DEF Subscribe
<1>3. streams' = [streams EXCEPT !.subscriptions = subs]
  BY DEF Subscribe
<1> HIDE DEF subs
<1>4. /\ streams' = [subscriptions |-> subs, quotes |-> streams.quotes,
                     changedQuotes |-> streams.changedQuotes,
                     changedDepth |-> streams.changedDepth]
      /\ streams.changedQuotes \in Seq(Ids \X BothSides)
      /\ streams.changedDepth \in Seq(DepthRecords) /\ sound' \in BOOLEAN
  BY <1>1, <1>2, <1>3, StreamsParts DEF StreamsTyped
<1>5. StreamsTyped'
  BY <1>1, <1>2, <1>4, NewStreams
<1>6. Got' = Got /\ GotDepth' = GotDepth /\ streams'.quotes = streams.quotes
  BY <1>2, <1>4 DEF Got, GotDepth
<1> QED
  BY <1>2, <1>5, <1>6, StillInv

LEMMA TakeQuotesInv ==
    ASSUME BookInv, TakeQuotes
    PROVE  BookInv'
<1> DEFINE q == taken.quotes \o streams.changedQuotes
<1>1. StreamsTyped
  BY DEF BookInv
<1>2. UNCHANGED <<account, wire, streamed, told, book, sound>>
  BY DEF TakeQuotes
<1>3. /\ streams.changedDepth \in Seq(DepthRecords) /\ taken.depth \in Seq(DepthRecords)
      /\ q \in Seq(Ids \X BothSides) /\ <<>> \in Seq(Ids \X BothSides) /\ q \o <<>> = q
  BY <1>1, StreamsParts, EmptySeq, ConcatEmptySeq DEF Got
<1>4. /\ streams' = [subscriptions |-> streams.subscriptions, quotes |-> streams.quotes,
                     changedQuotes |-> <<>>, changedDepth |-> streams.changedDepth]
      /\ taken' = [quotes |-> q, depth |-> taken.depth]
  BY <1>1, StreamsParts DEF TakeQuotes
<1> HIDE DEF q
<1>5. sound' \in BOOLEAN
  BY <1>1, <1>2 DEF StreamsTyped
<1>6. StreamsTyped'
  <2>1. /\ streams' \in [subscriptions : {streams.subscriptions}, quotes : {streams.quotes},
                         changedQuotes : Seq(Ids \X BothSides), changedDepth : Seq(DepthRecords)]
        /\ streams'.subscriptions = streams.subscriptions /\ streams'.quotes = streams.quotes
    BY <1>3, <1>4
  <2>2. taken' \in [quotes : Seq(Ids \X BothSides), depth : Seq(DepthRecords)]
    BY <1>3, <1>4
  <2> QED
    BY <1>5, <2>1, <2>2 DEF StreamsTyped
<1>7. Got' = q \o <<>> /\ GotDepth' = GotDepth /\ streams'.quotes = streams.quotes
  BY <1>4 DEF Got, GotDepth
<1>8. Got = q
  BY DEF Got, q
<1> QED
  BY <1>2, <1>3, <1>6, <1>7, <1>8, StillInv

LEMMA TakeDepthInv ==
    ASSUME BookInv, TakeDepth
    PROVE  BookInv'
<1> DEFINE d == taken.depth \o streams.changedDepth
<1>1. StreamsTyped
  BY DEF BookInv
<1>2. UNCHANGED <<account, wire, streamed, told, book, sound>>
  BY DEF TakeDepth
<1>3. /\ streams.changedQuotes \in Seq(Ids \X BothSides) /\ taken.quotes \in Seq(Ids \X BothSides)
      /\ d \in Seq(DepthRecords) /\ <<>> \in Seq(DepthRecords) /\ d \o <<>> = d
  BY <1>1, StreamsParts, EmptySeq, ConcatEmptySeq DEF GotDepth
<1>4. /\ streams' = [subscriptions |-> streams.subscriptions, quotes |-> streams.quotes,
                     changedQuotes |-> streams.changedQuotes, changedDepth |-> <<>>]
      /\ taken' = [quotes |-> taken.quotes, depth |-> d]
  BY <1>1, StreamsParts DEF TakeDepth
<1> HIDE DEF d
<1>5. sound' \in BOOLEAN
  BY <1>1, <1>2 DEF StreamsTyped
<1>6. StreamsTyped'
  <2>1. /\ streams' \in [subscriptions : {streams.subscriptions}, quotes : {streams.quotes},
                         changedQuotes : Seq(Ids \X BothSides), changedDepth : Seq(DepthRecords)]
        /\ streams'.subscriptions = streams.subscriptions /\ streams'.quotes = streams.quotes
    BY <1>3, <1>4
  <2>2. taken' \in [quotes : Seq(Ids \X BothSides), depth : Seq(DepthRecords)]
    BY <1>3, <1>4
  <2> QED
    BY <1>5, <2>1, <2>2 DEF StreamsTyped
<1>7. Got' = Got /\ GotDepth' = d \o <<>> /\ streams'.quotes = streams.quotes
  BY <1>4 DEF Got, GotDepth
<1>8. GotDepth = d
  BY DEF GotDepth, d
<1> QED
  BY <1>2, <1>3, <1>6, <1>7, <1>8, StillInv

LEMMA BookInitInv == BookInit => BookInv
<1> SUFFICES ASSUME BookInit
             PROVE  BookInv
  OBVIOUS
<1> DEFINE held == [ticket : BookTickets, symbol : ToSet(AtLogin), volume : {1}]
<1>1. PICK positions \in {{}} \cup {{p} : p \in held} :
        account = [positions |-> positions, orders |-> {}, balance |-> 0,
                   symbols |-> [s \in ToSet(AtLogin) |-> 0], pushes |-> 0]
  BY DEF BookInit
<1>2. /\ wire = <<>>
      /\ told = [sides |-> [s \in Ids |-> NoSides], quotes |-> <<>>, depth |-> <<>>]
      /\ book = [positions |-> SetToSeq(account.positions), orders |-> <<>>, balance |-> 0,
                 symbols |-> [i \in DOMAIN AtLogin |-> [id |-> AtLogin[i], version |-> 0]],
                 symbolIds |-> [s \in ToSet(AtLogin) |->
                                  CHOOSE i \in DOMAIN AtLogin : AtLogin[i] = s]]
      /\ streams = [subscriptions |-> {}, quotes |-> <<>>, changedQuotes |-> <<>>,
                    changedDepth |-> <<>>]
      /\ taken = [quotes |-> <<>>, depth |-> <<>>]
      /\ sound = TRUE
  BY DEF BookInit
<1>3. positions \subseteq PositionsHeld /\ IsFiniteSet(positions) /\ OfEachTicket(positions)
  <2>1. CASE positions = {}
    BY <2>1, FS_EmptySet DEF OfEachTicket
  <2>2. ASSUME NEW p \in held, positions = {p}
        PROVE  positions \subseteq PositionsHeld /\ IsFiniteSet(positions)
               /\ OfEachTicket(positions)
    <3>1. p \in PositionsHeld
      BY BookConstants DEF PositionsHeld
    <3> DEFINE none == {}
    <3>2. none \cup {p} = positions
      BY <2>2
    <3>3. IsFiniteSet(none)
      BY FS_EmptySet
    <3> HIDE DEF none
    <3>4. IsFiniteSet(none \cup {p})
      BY <3>3, FS_AddElement
    <3> QED
      BY <2>2, <3>1, <3>2, <3>4 DEF OfEachTicket
  <2> QED
    BY <1>1, <2>1, <2>2
<1>4. AccountTyped(account)
  <2> DEFINE symbols == [s \in ToSet(AtLogin) |-> 0]
  <2>1. DOMAIN symbols \subseteq Ids /\ \A id \in DOMAIN symbols : symbols[id] \in Nat
    BY BookConstants
  <2>2. {} \subseteq OrdersHeld /\ OfEachTicket({}) /\ 0 \in Int /\ 0 \in Nat
    BY DEF OfEachTicket
  <2> DEFINE orders == {}
             balance == 0
             pushes == 0
  <2>3. orders \subseteq OrdersHeld /\ OfEachTicket(orders) /\ balance \in Int /\ pushes \in Nat
    BY <2>2
  <2>4. account = [positions |-> positions, orders |-> orders, balance |-> balance,
                   symbols |-> symbols, pushes |-> pushes]
    BY <1>1
  <2> HIDE DEF symbols, orders, balance, pushes
  <2> QED
    BY <1>3, <2>1, <2>3, <2>4, NewAccount
<1>5. <<>> \in Seq(Ids \X BothSides) /\ <<>> \in Seq(DepthRecords) /\ <<>> \in Seq(OrdersHeld)
  BY EmptySeq
<1>6. ToldTyped(told)
  <2>1. NoSides \in BothSides
    BY DEF NoSides, BothSides
  <2> QED
    BY <1>2, <1>5, <2>1 DEF ToldTyped
<1>7. Sequence(wire) /\ Len(wire) = 0
  <2>1. <<>> \in Seq({})
    BY EmptySeq
  <2> QED
    BY <1>2, <2>1, EmptySeq DEF Sequence
<1>8. StreamsTyped
  BY <1>2, <1>5 DEF StreamsTyped
<1>9. Got = <<>> /\ GotDepth = <<>> /\ told.quotes = <<>> /\ told.depth = <<>>
  BY <1>2, <1>5, ConcatEmptySeq DEF Got, GotDepth
<1>10. Begins(<<>>, <<>>)
  BY EmptySeq DEF Begins
<1>11. account.positions = positions /\ account.orders = {} /\ account.balance = 0
       /\ account.symbols = [s \in ToSet(AtLogin) |-> 0]
  BY <1>1
<1>12. /\ book.positions = SetToSeq(positions) /\ book.orders = <<>> /\ book.balance = 0
       /\ book.symbols = [i \in DOMAIN AtLogin |-> [id |-> AtLogin[i], version |-> 0]]
       /\ book.symbolIds = [s \in ToSet(AtLogin) |->
                              CHOOSE i \in DOMAIN AtLogin : AtLogin[i] = s]
  BY <1>2, <1>11
<1>13. /\ book.positions \in Seq(PositionsHeld) /\ Once(book.positions)
       /\ ToSet(book.positions) = positions
  <2> DEFINE s == SetToSeq(positions)
  <2>1. /\ s \in Seq(positions) /\ ToSet(s) = positions
        /\ \A i, j \in DOMAIN s : s[i] = s[j] => i = j
    BY <1>3, SetListed
  <2> HIDE DEF s
  <2>2. s \in Seq(PositionsHeld)
    BY <1>3, <2>1, SeqMonotonic
  <2>3. \A i \in DOMAIN s : s[i] \in positions
    BY <2>1 DEF ToSet
  <2>4. Once(s)
    BY <1>3, <2>1, <2>3 DEF Once, OfEachTicket
  <2> QED
    BY <1>12, <2>1, <2>2, <2>4 DEF s
<1>14. Once(book.orders) /\ ToSet(book.orders) = {} /\ book.orders \in Seq(OrdersHeld)
  BY <1>5, <1>12 DEF Once, ToSet
<1>15. /\ AtLogin \in Seq(Ids) /\ DOMAIN AtLogin = 1 .. Len(AtLogin) /\ Len(AtLogin) \in Nat
       /\ \A i, j \in DOMAIN AtLogin : AtLogin[i] = AtLogin[j] => i = j
       /\ ToSet(AtLogin) \subseteq Ids /\ \A i \in DOMAIN AtLogin : AtLogin[i] \in ToSet(AtLogin)
       /\ \A s \in ToSet(AtLogin) : \E i \in DOMAIN AtLogin : AtLogin[i] = s
  BY BookConstants DEF ToSet
<1>16. /\ book.symbols \in Seq([id : Ids, version : Nat]) /\ DOMAIN book.symbols = DOMAIN AtLogin
       /\ \A i \in DOMAIN AtLogin : book.symbols[i].id = AtLogin[i] /\ book.symbols[i].version = 0
  <2>1. \A i \in DOMAIN AtLogin : [id |-> AtLogin[i], version |-> 0] \in [id : Ids, version : Nat]
    BY <1>15
  <2> QED
    BY <1>12, <1>15, <2>1
<1>17. /\ Listed(book) = ToSet(AtLogin)
       /\ \A s \in ToSet(AtLogin) : /\ book.symbolIds[s] \in DOMAIN AtLogin
                                    /\ AtLogin[book.symbolIds[s]] = s
  BY <1>12, <1>15 DEF Listed
<1>18. Indexed
  BY <1>15, <1>16, <1>17 DEF Indexed
<1>19. BookTyped
  <2>1. book \in [positions : Seq(PositionsHeld), orders : Seq(OrdersHeld), balance : Int,
                  symbols : Seq([id : Ids, version : Nat]), symbolIds : {book.symbolIds}]
    <3>1. book = [positions |-> book.positions, orders |-> book.orders,
                  balance |-> book.balance, symbols |-> book.symbols,
                  symbolIds |-> book.symbolIds]
      BY <1>2
    <3>2. book.balance \in Int
      BY <1>12
    <3> QED
      BY <1>13, <1>14, <1>16, <3>1, <3>2
  <2> QED
    BY <1>13, <1>14, <1>18, <2>1 DEF BookTyped
<1>20. Agrees(Now)
  <2>1. \A id \in Ids : QuoteOf(id) = told.sides[id]
    BY <1>2 DEF QuoteOf
  <2>2. /\ Now.positions = positions /\ Now.orders = {} /\ Now.balance = 0
        /\ Now.symbols = [s \in ToSet(AtLogin) |-> 0] /\ Now.sides = told.sides
        /\ Now.quotes = <<>> /\ Now.depth = <<>>
    BY <1>9, <1>11 DEF Now, Stage
  <2>3. \A id \in Listed(book) : book.symbols[book.symbolIds[id]].version = Now.symbols[id]
    BY <1>16, <1>17, <2>2
  <2>4. Listed(book) = DOMAIN Now.symbols /\ book.balance = Now.balance
    BY <1>12, <1>17, <2>2
  <2> QED
    BY <1>9, <1>13, <1>14, <2>1, <2>2, <2>3, <2>4 DEF Agrees
<1>21. \E h : Past(h)
  <2>1. PICK h : h[0] = Now
    <3> DEFINE f == [i \in {0} |-> Now]
    <3>1. f[0] = Now
      OBVIOUS
    <3> HIDE DEF f
    <3> QED
      BY <3>1
  <2>2. IsAccount(Now)
    BY <1>4, <1>6, StageIsAccount DEF Now
  <2>3. Now.quotes = told.quotes /\ Now.depth = told.depth
    BY DEF Now, Stage
  <2>4. \A i \in 0 .. Len(wire) : i = 0
    BY <1>7
  <2>5. 1 .. Len(wire) = {}
    BY <1>7
  <2>6. Past(h)
    BY <1>7, <1>9, <1>10, <1>20, <2>1, <2>2, <2>3, <2>4, <2>5 DEF Past
  <2> QED
    BY <2>6
<1>22. Begins(Got, told.quotes) /\ Begins(GotDepth, told.depth)
  BY <1>9, <1>10
<1> QED
  BY <1>4, <1>6, <1>7, <1>8, <1>19, <1>21, <1>22 DEF BookInv, BrokerTyped

\* A list of one record per ticket has as many tickets as records.
LEMMA AsManyTickets ==
    ASSUME NEW E, NEW s \in Seq(E), Once(s)
    PROVE  Cardinality(TicketsIn(ToSet(s))) = Len(s)
<1> DEFINE n == Len(s)
           f == [i \in 1 .. n |-> s[i].ticket]
           T == TicketsIn(ToSet(s))
<1>1. n \in Nat /\ DOMAIN s = 1 .. n
  OBVIOUS
<1>2. T = {s[i].ticket : i \in 1 .. n}
  BY <1>1 DEF TicketsIn, ToSet
<1>3. \A i, j \in 1 .. n : s[i].ticket = s[j].ticket => i = j
  BY <1>1 DEF Once
<1>4. f \in Bijection(1 .. n, T)
  <2> HIDE DEF T, n
  <2> QED
    BY <1>2, <1>3 DEF Bijection, Injection, Surjection, IsInjective
<1>5. ExistsBijection(1 .. n, T)
  BY <1>4 DEF ExistsBijection
<1>6. IsFiniteSet(1 .. n) /\ Cardinality(1 .. n) = n
  BY <1>1, FS_Interval
<1> HIDE DEF n, T
<1>7. Cardinality(T) = Cardinality(1 .. n)
  BY <1>5, <1>6, FS_Bijection
<1> QED
  BY <1>6, <1>7 DEF n, T

LEMMA BeginsIsPrefix ==
    ASSUME NEW S, NEW s \in Seq(S), NEW t \in Seq(S), Begins(s, t)
    PROVE  IsPrefix(s, t)
<1> DEFINE n == Len(s)
<1>1. n \in Nat /\ n <= Len(t) /\ Len(t) \in Nat /\ \A i \in 1 .. n : s[i] = t[i]
  BY DEF Begins
<1>2. n \in 0 .. Len(s) /\ n \in 0 .. Len(t)
  BY <1>1
<1>3. SubSeq(s, 1, n) = s
  BY SubSeqFull
<1>4. /\ SubSeq(t, 1, n) \in Seq(S) /\ Len(SubSeq(t, 1, n)) = n
      /\ \A i \in 1 .. n : SubSeq(t, 1, n)[i] = t[i]
  <2>1. \A i \in 1 .. n : t[i] \in S
    BY <1>1
  <2>2. 1 \in Int /\ n \in Int
    BY <1>1
  <2>3. /\ SubSeq(t, 1, n) \in Seq(S) /\ Len(SubSeq(t, 1, n)) = IF 1 <= n THEN n - 1 + 1 ELSE 0
        /\ \A i \in 1 .. n - 1 + 1 : SubSeq(t, 1, n)[i] = t[1 + i - 1]
    BY <2>1, <2>2, SubSeqProperties
  <2> QED
    BY <1>1, <2>3
<1> DEFINE v == SubSeq(t, 1, n)
<1>5. v \in Seq(S) /\ Len(s) = Len(v) /\ \A i \in 1 .. Len(s) : s[i] = v[i]
  BY <1>1, <1>4
<1> HIDE DEF v
<1>6. s = v
  BY <1>5, SeqEqual
<1> QED
  BY <1>1, <1>3, <1>6 DEF IsPrefix, v

LEMMA BookInvTells == BookInv => ClientIsTrue
<1> SUFFICES ASSUME BookInv
             PROVE  ClientIsTrue
  OBVIOUS
<1>1. BookTyped /\ StreamsTyped /\ ToldTyped(told)
  BY DEF BookInv, BrokerTyped
<1>2. /\ book.positions \in Seq(PositionsHeld) /\ book.orders \in Seq(OrdersHeld)
      /\ book.symbols \in Seq([id : Ids, version : Nat])
      /\ Once(book.positions) /\ Once(book.orders) /\ Indexed
  BY <1>1, BookParts
<1>3. /\ Cardinality(TicketsIn(ToSet(book.positions))) = Len(book.positions)
      /\ Cardinality(TicketsIn(ToSet(book.orders))) = Len(book.orders)
  BY <1>2, AsManyTickets
<1>4. \A id \in Listed(book) : book.symbols[book.symbolIds[id]].id = id
  BY <1>2 DEF Indexed
<1>5. Got \in Seq(Ids \X BothSides) /\ GotDepth \in Seq(DepthRecords)
      /\ told.quotes \in Seq(Ids \X BothSides) /\ told.depth \in Seq(DepthRecords)
  BY <1>1, StreamsParts, ToldParts
<1>6. IsPrefix(Got, told.quotes) /\ IsPrefix(GotDepth, told.depth)
  <2>1. Begins(Got, told.quotes) /\ Begins(GotDepth, told.depth)
    BY DEF BookInv
  <2> DEFINE Q == Ids \X BothSides
  <2>2. Got \in Seq(Q) /\ told.quotes \in Seq(Q)
    BY <1>5
  <2> HIDE DEF Q
  <2>3. IsPrefix(Got, told.quotes)
    BY <2>1, <2>2, BeginsIsPrefix
  <2>4. IsPrefix(GotDepth, told.depth)
    BY <1>5, <2>1, BeginsIsPrefix
  <2> QED
    BY <2>3, <2>4
<1>7. ASSUME sound, wire = <<>>
      PROVE  /\ ToSet(book.positions) = account.positions
             /\ ToSet(book.orders) = account.orders
             /\ book.balance = account.balance
             /\ {<<s.id, s.version>> : s \in ToSet(book.symbols)}
                  = {<<id, account.symbols[id]>> : id \in DOMAIN account.symbols}
             /\ Got = told.quotes /\ GotDepth = told.depth
  <2>1. PICK h : Past(h)
    BY DEF BookInv
  <2>2. Len(wire) = 0
    BY <1>7, EmptySeq
  <2>3. Agrees(Now)
    BY <1>7, <2>1, <2>2 DEF Past
  <2>4. /\ ToSet(book.positions) = account.positions /\ ToSet(book.orders) = account.orders
        /\ book.balance = account.balance /\ Got = told.quotes /\ GotDepth = told.depth
        /\ Listed(book) = DOMAIN account.symbols
        /\ \A id \in Listed(book) :
             book.symbols[book.symbolIds[id]].version = account.symbols[id]
    BY <2>3 DEF Agrees, Now, Stage
  <2>5. /\ \A id \in Listed(book) : /\ book.symbolIds[id] \in DOMAIN book.symbols
                                    /\ book.symbols[book.symbolIds[id]].id = id
        /\ \A i \in DOMAIN book.symbols : /\ book.symbols[i].id \in Listed(book)
                                          /\ book.symbolIds[book.symbols[i].id] = i
    BY <1>2 DEF Indexed
  <2>6. ASSUME NEW s \in ToSet(book.symbols)
        PROVE  s.id \in DOMAIN account.symbols /\ s.version = account.symbols[s.id]
    <3>1. PICK i \in DOMAIN book.symbols : s = book.symbols[i]
      BY DEF ToSet
    <3> QED
      BY <2>4, <2>5, <3>1
  <2>7. ASSUME NEW id \in DOMAIN account.symbols
        PROVE  \E s \in ToSet(book.symbols) : s.id = id /\ s.version = account.symbols[id]
    <3> DEFINE i == book.symbolIds[id]
    <3>1. i \in DOMAIN book.symbols /\ book.symbols[i].id = id
          /\ book.symbols[i].version = account.symbols[id]
      BY <2>4, <2>5
    <3>2. book.symbols[i] \in ToSet(book.symbols)
      BY <3>1 DEF ToSet
    <3> QED
      BY <3>1, <3>2
  <2>8. {<<s.id, s.version>> : s \in ToSet(book.symbols)}
          = {<<id, account.symbols[id]>> : id \in DOMAIN account.symbols}
    BY <2>6, <2>7
  <2> QED
    BY <2>4, <2>8
<1> QED
  BY <1>3, <1>4, <1>6, <1>7 DEF ClientIsTrue, BookFits, StreamsFit, Got, GotDepth

LEMMA BookNextInv ==
    ASSUME BookInv, [BookNext]_books
    PROVE  BookInv'
<1>1. CASE BrokerPushes
  BY <1>1, BrokerPushesInv
<1>2. CASE PollBook
  BY <1>2, PollInv
<1>3. CASE \E ids \in SubscribeLists : Subscribe(ids)
  BY <1>3, SubscribeInv
<1>4. CASE TakeQuotes
  BY <1>4, TakeQuotesInv
<1>5. CASE TakeDepth
  BY <1>5, TakeDepthInv
<1>6. CASE UNCHANGED books
  <2>1. UNCHANGED <<account, wire, streamed, told, book, streams, taken, sound>>
    BY <1>6 DEF books
  <2>2. StreamsTyped'
    BY <2>1 DEF BookInv, StreamsTyped
  <2>3. Got' = Got /\ GotDepth' = GotDepth /\ streams'.quotes = streams.quotes
    BY <2>1 DEF Got, GotDepth
  <2> QED
    BY <2>1, <2>2, <2>3, StillInv
<1> QED
  BY <1>1, <1>2, <1>3, <1>4, <1>5, <1>6 DEF BookNext

\* client.rs `apply` and `poll`, for any symbols, tickets, prices and bounds: whatever the
\* broker pushes and however far the client lags behind, once it has read every push its
\* positions, orders, balance and symbols are the broker's, and the quotes and depth records
\* it hands out are those the pushes told of, in their order.
THEOREM BookFollowsTheBroker == BookSpec => []ClientIsTrue
<1>1. BookInit => BookInv
  BY BookInitInv
<1>2. BookInv /\ [BookNext]_books => BookInv'
  BY BookNextInv
<1>3. BookInv => ClientIsTrue
  BY BookInvTells
<1> QED
  BY <1>1, <1>2, <1>3, PTL DEF BookSpec

------------------------------------------------------------------------------
(* Conversions *)

\* Symbols of S lead from a currency to another at once, and in n hops.
Hop(S, c, d) == d # "" /\ \E id \in S : Across(id, c) = d
Way(S, from, c, n, w) ==
    /\ w \in [0 .. n -> Currencies] /\ w[0] = from /\ w[n] = c
    /\ \A i \in 1 .. n : Hop(S, w[i - 1], w[i])
Reaches(S, from, c) == \E n \in 0 .. MaxHops : \E w : Way(S, from, c, n, w)

Inside(id, V) == {Listing[id].base, Listing[id].profit} \subseteq V

LEMMA AcrossIs ==
    ASSUME NEW id \in Ids, NEW c, Across(id, c) # ""
    PROVE  /\ Across(id, c) \in Currencies /\ Inside(id, {c, Across(id, c)})
           /\ \A V : Inside(id, V) => Across(id, c) \in V
<1>1. \/ Listing[id].base = c /\ Across(id, c) = Listing[id].profit
      \/ Listing[id].profit = c /\ Across(id, c) = Listing[id].base
  BY DEF Across
<1>2. {Listing[id].base, Listing[id].profit} \subseteq Currencies
  <2> DEFINE T(x) == {Listing[x].base, Listing[x].profit, Listing[x].margin}
  <2>1. Currencies = UNION {T(x) : x \in Ids}
    BY DEF Currencies
  <2>2. {Listing[id].base, Listing[id].profit} \subseteq T(id)
    OBVIOUS
  <2> HIDE DEF T
  <2> QED
    BY <2>1, <2>2
<1> QED
  BY <1>1, <1>2 DEF Inside

LEMMA WayOn ==
    ASSUME NEW S, NEW T, S \subseteq T, NEW from, NEW c, NEW n, NEW w, Way(S, from, c, n, w)
    PROVE  Way(T, from, c, n, w)
BY DEF Way, Hop

LEMMA ReachesOn ==
    ASSUME NEW S, NEW T, S \subseteq T, NEW from, NEW c, Reaches(S, from, c)
    PROVE  Reaches(T, from, c)
BY WayOn DEF Reaches

LEMMA WayMore ==
    ASSUME NEW S, NEW T, S \subseteq T, NEW from, NEW c, NEW n \in Nat, NEW w,
           Way(S, from, c, n, w), NEW e \in Currencies, Hop(T, c, e)
    PROVE  \E u : Way(T, from, e, n + 1, u)
<1> DEFINE u == [i \in 0 .. n + 1 |-> IF i = n + 1 THEN e ELSE w[i]]
<1>1. Way(T, from, c, n, w)
  BY WayOn
<1>2. /\ w \in [0 .. n -> Currencies] /\ w[0] = from /\ w[n] = c
      /\ \A i \in 1 .. n : Hop(T, w[i - 1], w[i])
  BY <1>1 DEF Way
<1>3. ASSUME NEW i \in 0 .. n PROVE u[i] = w[i] /\ i \in 0 .. n + 1 /\ i # n + 1
  OBVIOUS
<1>4. u[n + 1] = e /\ n + 1 \in 0 .. n + 1
  OBVIOUS
<1>5. u \in [0 .. n + 1 -> Currencies]
  <2>1. ASSUME NEW i \in 0 .. n + 1 PROVE (IF i = n + 1 THEN e ELSE w[i]) \in Currencies
    <3>1. i = n + 1 \/ i \in 0 .. n
      OBVIOUS
    <3> QED
      BY <1>2, <3>1
  <2> QED
    BY <2>1
<1> HIDE DEF u
<1>6. u[0] = from
  <2>1. 0 \in 0 .. n
    OBVIOUS
  <2> QED
    BY <1>2, <1>3, <2>1
<1>7. ASSUME NEW i \in 1 .. n + 1 PROVE Hop(T, u[i - 1], u[i])
  <2>1. CASE i \in 1 .. n
    <3>1. i \in 0 .. n /\ i - 1 \in 0 .. n
      BY <2>1
    <3>2. u[i] = w[i] /\ u[i - 1] = w[i - 1]
      BY <1>3, <3>1
    <3> QED
      BY <1>2, <2>1, <3>2
  <2>2. CASE i = n + 1
    <3>1. i - 1 = n /\ n \in 0 .. n
      BY <2>2
    <3>2. u[i - 1] = c /\ u[i] = e
      BY <1>2, <1>3, <1>4, <2>2, <3>1
    <3> QED
      BY <3>2
  <2> QED
    BY <2>1, <2>2
<1> QED
  BY <1>4, <1>5, <1>6, <1>7 DEF Way

------------------------------------------------------------------------------

Searched == [currency : Currencies, path : SUBSET Ids]
Searches ==
    [found : BOOLEAN, path : SUBSET Ids, visited : SUBSET Currencies, queue : Seq(Searched)]

\* What is queued was reached in n hops, by symbols that lead nowhere else.
Reached(S, from, V, e, n) ==
    /\ e \in Searched /\ e.currency \in V /\ e.path \subseteq S
    /\ IsFiniteSet(e.path) /\ Cardinality(e.path) = n
    /\ \A id \in e.path : Inside(id, V)
    /\ \E w : Way(e.path, from, e.currency, n, w)

LEMMA ReachedOn ==
    ASSUME NEW S, NEW from, NEW V, NEW W, V \subseteq W, NEW e, NEW n, Reached(S, from, V, e, n)
    PROVE  Reached(S, from, W, e, n)
BY DEF Reached, Inside

LEMMA ReachedMore ==
    ASSUME NEW S \in SUBSET Ids, NEW from, NEW V, NEW h, NEW n \in Nat, Reached(S, from, V, h, n),
           NEW id \in S, NEW c, c = Across(id, h.currency), c # "", c \notin V
    PROVE  Reached(S, from, V \cup {c}, [currency |-> c, path |-> h.path \cup {id}], n + 1)
<1> DEFINE e == [currency |-> c, path |-> h.path \cup {id}]
<1>1. /\ h \in Searched /\ h.currency \in V /\ h.path \subseteq S
      /\ IsFiniteSet(h.path) /\ Cardinality(h.path) = n
      /\ \A x \in h.path : Inside(x, V)
  BY DEF Reached
<1>2. PICK w : Way(h.path, from, h.currency, n, w)
  BY DEF Reached
<1>3. c \in Currencies /\ Inside(id, {h.currency, c}) /\ \A W : Inside(id, W) => c \in W
  BY AcrossIs
<1>4. id \notin h.path
  BY <1>1, <1>3
<1>5. IsFiniteSet(h.path \cup {id}) /\ Cardinality(h.path \cup {id}) = n + 1
  BY <1>1, <1>4, FS_AddElement
<1>6. Hop(h.path \cup {id}, h.currency, c)
  BY DEF Hop
<1>7. \E u : Way(h.path \cup {id}, from, c, n + 1, u)
  BY <1>2, <1>3, <1>6, WayMore
<1>8. \A x \in h.path \cup {id} : Inside(x, V \cup {c})
  BY <1>1, <1>3 DEF Inside
<1>9. e \in Searched /\ e.currency = c /\ e.path = h.path \cup {id}
  BY <1>1, <1>3 DEF Searched
<1> HIDE DEF e
<1>10. Reached(S, from, V \cup {c}, e, n + 1)
  BY <1>1, <1>5, <1>7, <1>8, <1>9 DEF Reached
<1> QED
  BY <1>10 DEF e

\* The depth d of each currency that was visited: the queue is in its order, and no
\* currency is deeper than the one after those of the queue.
Depths(S, from, V, Q, d) ==
    /\ d \in [V -> 0 .. MaxHops] /\ from \in V /\ d[from] = 0
    /\ \A i \in 1 .. Len(Q) : Reached(S, from, V, Q[i], d[Q[i].currency])
    /\ \A i, j \in 1 .. Len(Q) : i < j => d[Q[i].currency] <= d[Q[j].currency]
    /\ \A v \in V : \A i \in 1 .. Len(Q) : d[v] <= d[Q[i].currency] + 1

\* All that a currency leads to was visited.
Expanded(S, V, d, v) ==
    /\ v # Home
    /\ d[v] < MaxHops => \A c : Hop(S, v, c) => c \in V /\ d[c] <= d[v] + 1
Queued(Q, v) == \E i \in 1 .. Len(Q) : Q[i].currency = v

\* A search after n rounds.
SearchInv(S, from, n, q) ==
    /\ q \in Searches
    /\ q.found => q.path \subseteq S /\ Reaches(q.path, from, Home)
    /\ ~q.found =>
         /\ q.path = {}
         /\ q.queue = <<>> \/ n + Len(q.queue) <= Cardinality(q.visited)
         /\ \E d : /\ Depths(S, from, q.visited, q.queue, d)
                   /\ \A v \in q.visited : Queued(q.queue, v) \/ Expanded(S, q.visited, d, v)

\* In a round, after the symbols `done`: h is what was taken from the queue, of depth k.
Around(S, from, h, k, V, Q, d) ==
    /\ Depths(S, from, V, Q, d)
    /\ d[h.currency] = k
    /\ \A v \in V : d[v] <= k + 1
    /\ \A i \in 1 .. Len(Q) : k <= d[Q[i].currency]
    /\ \A v \in V : v = h.currency \/ Queued(Q, v) \/ Expanded(S, V, d, v)
Visiting(S, from, n, h, k, done, q) ==
    /\ q \in Searches /\ ~q.found /\ q.path = {}
    /\ n + 1 + Len(q.queue) <= Cardinality(q.visited)
    /\ Reached(S, from, q.visited, h, k)
    /\ \E d : Around(S, from, h, k, q.visited, q.queue, d)
    /\ \A id \in done : Across(id, h.currency) # "" => Across(id, h.currency) \in q.visited

LEMMA ImageFinite ==
    ASSUME NEW S, IsFiniteSet(S), NEW T, NEW f \in [S -> T], \A t \in T : \E x \in S : f[x] = t
    PROVE  IsFiniteSet(T)
<1>1. f \in Surjection(S, T)
  BY DEF Surjection
<1> QED
  BY <1>1, FS_Surjection

LEMMA CurrenciesFinite ==
    /\ IsFiniteSet(Currencies) /\ Cardinality(Currencies) \in Nat
    /\ \A V \in SUBSET Currencies :
         IsFiniteSet(V) /\ Cardinality(V) \in Nat /\ Cardinality(V) <= Cardinality(Currencies)
<1> DEFINE A == {Listing[id].base : id \in Ids}
           B == {Listing[id].profit : id \in Ids}
           C == {Listing[id].margin : id \in Ids}
<1>1. IsFiniteSet(Ids)
  BY BookAssumption DEF Ids
<1>2. IsFiniteSet(A) /\ IsFiniteSet(B) /\ IsFiniteSet(C)
  <2>1. IsFiniteSet(A)
    <3> DEFINE f == [id \in Ids |-> Listing[id].base]
    <3>1. f \in [Ids -> A] /\ \A t \in A : \E id \in Ids : f[id] = t
      OBVIOUS
    <3> HIDE DEF f, A
    <3> QED
      BY <1>1, <3>1, ImageFinite
  <2>2. IsFiniteSet(B)
    <3> DEFINE f == [id \in Ids |-> Listing[id].profit]
    <3>1. f \in [Ids -> B] /\ \A t \in B : \E id \in Ids : f[id] = t
      OBVIOUS
    <3> HIDE DEF f, B
    <3> QED
      BY <1>1, <3>1, ImageFinite
  <2>3. IsFiniteSet(C)
    <3> DEFINE f == [id \in Ids |-> Listing[id].margin]
    <3>1. f \in [Ids -> C] /\ \A t \in C : \E id \in Ids : f[id] = t
      OBVIOUS
    <3> HIDE DEF f, C
    <3> QED
      BY <1>1, <3>1, ImageFinite
  <2> QED
    BY <2>1, <2>2, <2>3
<1>3. Currencies = A \cup B \cup C
  BY DEF Currencies
<1> HIDE DEF A, B, C
<1>4. IsFiniteSet(A \cup B)
  BY <1>2, FS_Union
<1>5. IsFiniteSet(A \cup B \cup C)
  BY <1>2, <1>4, FS_Union
<1>6. IsFiniteSet(Currencies)
  BY <1>3, <1>5
<1>7. Cardinality(Currencies) \in Nat
  BY <1>6, FS_CardinalityType
<1>8. ASSUME NEW V \in SUBSET Currencies
      PROVE  IsFiniteSet(V) /\ Cardinality(V) \in Nat /\ Cardinality(V) <= Cardinality(Currencies)
  <2>1. IsFiniteSet(V) /\ Cardinality(V) <= Cardinality(Currencies)
    BY <1>6, FS_Subset
  <2> QED
    BY <2>1, FS_CardinalityType
<1> QED
  BY <1>6, <1>7, <1>8

Entry(h, c, id) == [currency |-> c, path |-> h.path \cup {id}]

Grows(q, r, c, e) ==
    /\ r.found = q.found /\ r.path = q.path
    /\ r.visited = q.visited \cup {c} /\ r.queue = Append(q.queue, e)

LEMMA VisitIs ==
    ASSUME NEW q \in Searches, NEW h \in Searched, NEW s, s.id \in Ids, NEW c,
           c = Across(s.id, h.currency)
    PROVE  /\ Visit(q, h, s) \in Searches
           /\ c = "" \/ c \in q.visited => Visit(q, h, s) = q
           /\ c # "" /\ c \notin q.visited => Grows(q, Visit(q, h, s), c, Entry(h, c, s.id))
<1>1. CASE c = "" \/ c \in q.visited
  BY <1>1 DEF Visit
<1>2. CASE c # "" /\ c \notin q.visited
  <2> DEFINE e == Entry(h, c, s.id)
  <2>1. c \in Currencies
    BY <1>2, AcrossIs
  <2>2. e \in Searched
    BY <2>1 DEF Searched, Entry
  <2>3. Visit(q, h, s) = [q EXCEPT !.visited = @ \cup {c}, !.queue = Append(@, e)]
    BY <1>2 DEF Visit, Entry
  <2> HIDE DEF e
  <2>4. /\ q.found \in BOOLEAN /\ q.path \in SUBSET Ids /\ q.visited \in SUBSET Currencies
        /\ q.queue \in Seq(Searched)
        /\ q = [found |-> q.found, path |-> q.path, visited |-> q.visited, queue |-> q.queue]
    BY DEF Searches
  <2>5. Append(q.queue, e) \in Seq(Searched)
    BY <2>2, <2>4, AppendProperties
  <2>6. Visit(q, h, s) = [found |-> q.found, path |-> q.path, visited |-> q.visited \cup {c},
                          queue |-> Append(q.queue, e)]
    BY <2>3, <2>4
  <2>7. q.visited \cup {c} \in SUBSET Currencies
    BY <2>1, <2>4
  <2> DEFINE r == Visit(q, h, s)
  <2>8. r \in Searches
    BY <2>4, <2>5, <2>6, <2>7 DEF Searches
  <2>9. /\ r.found = q.found /\ r.path = q.path /\ r.visited = q.visited \cup {c}
        /\ r.queue = Append(q.queue, e)
    BY <2>6
  <2> QED
    BY <1>2, <2>8, <2>9 DEF e, Grows
<1> QED
  BY <1>1, <1>2

LEMMA ExpandedOn ==
    ASSUME NEW S, NEW V, NEW c, c \notin V, NEW d, NEW b, NEW k,
           b = [v \in V \cup {c} |-> IF v = c THEN k ELSE d[v]],
           NEW v \in V, Expanded(S, V, d, v)
    PROVE  Expanded(S, V \cup {c}, b, v)
<1>1. \A x \in V : b[x] = d[x]
  OBVIOUS
<1>2. v # Home /\ (d[v] < MaxHops => \A e : Hop(S, v, e) => e \in V /\ d[e] <= d[v] + 1)
  BY DEF Expanded
<1>3. b[v] < MaxHops => \A e : Hop(S, v, e) => e \in V \cup {c} /\ b[e] <= b[v] + 1
  <2> SUFFICES ASSUME b[v] < MaxHops, NEW e, Hop(S, v, e)
               PROVE  e \in V \cup {c} /\ b[e] <= b[v] + 1
    OBVIOUS
  <2>1. d[v] < MaxHops
    BY <1>1
  <2>2. e \in V /\ d[e] <= d[v] + 1
    BY <1>2, <2>1
  <2> QED
    BY <1>1, <2>2
<1> QED
  BY <1>2, <1>3 DEF Expanded

\* A currency that is new goes to the end of the queue, one deeper than h.
LEMMA AroundMore ==
    ASSUME NEW S \in SUBSET Ids, NEW from, NEW h, NEW k \in Nat, k < MaxHops,
           NEW V \in SUBSET Currencies, NEW Q \in Seq(Searched), Reached(S, from, V, h, k),
           NEW d, Around(S, from, h, k, V, Q, d),
           NEW c, c \notin V, NEW e \in Searched, e.currency = c,
           Reached(S, from, V \cup {c}, e, k + 1)
    PROVE  \E b : Around(S, from, h, k, V \cup {c}, Append(Q, e), b)
<1> DEFINE b == [v \in V \cup {c} |-> IF v = c THEN k + 1 ELSE d[v]]
           P == Append(Q, e)
           n == Len(Q)
           W == V \cup {c}
<1>1. /\ d \in [V -> 0 .. MaxHops] /\ from \in V /\ d[from] = 0
      /\ \A i \in 1 .. n : Reached(S, from, V, Q[i], d[Q[i].currency])
      /\ \A i, j \in 1 .. n : i < j => d[Q[i].currency] <= d[Q[j].currency]
      /\ \A v \in V : \A i \in 1 .. n : d[v] <= d[Q[i].currency] + 1
  BY DEF Around, Depths
<1>2. /\ d[h.currency] = k /\ \A v \in V : d[v] <= k + 1
      /\ \A i \in 1 .. n : k <= d[Q[i].currency]
      /\ \A v \in V : v = h.currency \/ Queued(Q, v) \/ Expanded(S, V, d, v)
  BY DEF Around
<1>3. /\ P \in Seq(Searched) /\ Len(P) = n + 1 /\ n \in Nat /\ P[n + 1] = e
      /\ \A i \in 1 .. n : P[i] = Q[i]
  BY AppendProperties
<1>4. MaxHops \in Nat
  BY BookAssumption
<1>5. b[c] = k + 1 /\ \A v \in V : b[v] = d[v] /\ v # c
  OBVIOUS
<1>6. b \in [W -> 0 .. MaxHops]
  <2>1. k + 1 \in 0 .. MaxHops
    BY <1>4
  <2> QED
    BY <1>1, <2>1
<1>7. h.currency \in V
  BY DEF Reached
<1>8. \A i \in 1 .. n : Q[i].currency \in V
  BY <1>1 DEF Reached
<1>9. \A v \in V : d[v] \in Nat
  BY <1>1, <1>4
<1>10. b = [v \in W |-> IF v = c THEN k + 1 ELSE d[v]]
  OBVIOUS
<1> HIDE DEF b, P, n
<1>11. \A i \in 1 .. n + 1 : i \in 1 .. n \/ i = n + 1
  BY <1>3
<1>12. \A i \in 1 .. n : b[P[i].currency] = d[Q[i].currency] /\ P[i].currency = Q[i].currency
  BY <1>3, <1>5, <1>8
<1>13. P[n + 1].currency = c /\ b[P[n + 1].currency] = k + 1
  BY <1>3, <1>5
<1>14. \A i \in 1 .. n + 1 : Reached(S, from, W, P[i], b[P[i].currency])
  <2> SUFFICES ASSUME NEW i \in 1 .. n + 1
               PROVE  Reached(S, from, W, P[i], b[P[i].currency])
    OBVIOUS
  <2>1. CASE i \in 1 .. n
    <3>1. Reached(S, from, V, Q[i], d[Q[i].currency])
      BY <1>1, <2>1
    <3>2. Reached(S, from, W, Q[i], d[Q[i].currency])
      BY <3>1, ReachedOn
    <3> QED
      BY <1>3, <1>12, <2>1, <3>2
  <2>2. CASE i = n + 1
    BY <1>3, <1>13, <2>2
  <2> QED
    BY <1>11, <2>1, <2>2
<1>15. ASSUME NEW i \in 1 .. n + 1, NEW j \in 1 .. n + 1, i < j
       PROVE  b[P[i].currency] <= b[P[j].currency]
  <2>1. i \in 1 .. n
    BY <1>3, <1>15
  <2>2. d[Q[i].currency] <= k + 1 /\ d[Q[i].currency] \in Nat
    BY <1>2, <1>8, <1>9, <2>1
  <2>3. CASE j \in 1 .. n
    BY <1>1, <1>12, <1>15, <2>1, <2>3
  <2>4. CASE j = n + 1
    BY <1>12, <1>13, <2>1, <2>2, <2>4
  <2> QED
    BY <1>11, <2>3, <2>4
<1>16. \A v \in W : b[v] <= k + 1
  BY <1>2, <1>5
<1>17. \A i \in 1 .. n + 1 : k <= b[P[i].currency] /\ b[P[i].currency] \in Nat
  BY <1>2, <1>8, <1>9, <1>11, <1>12, <1>13
<1>18. ASSUME NEW v \in W, NEW i \in 1 .. n + 1
       PROVE  b[v] <= b[P[i].currency] + 1
  <2>1. b[v] <= k + 1 /\ k <= b[P[i].currency] /\ b[P[i].currency] \in Nat
    BY <1>16, <1>17
  <2>2. b[v] \in Nat
    BY <1>4, <1>6
  <2> QED
    BY <2>1, <2>2
<1>19. ASSUME NEW v \in W
       PROVE  v = h.currency \/ Queued(P, v) \/ Expanded(S, W, b, v)
  <2>1. CASE v = c
    <3>1. n + 1 \in 1 .. Len(P)
      BY <1>3
    <3> QED
      BY <1>13, <2>1, <3>1 DEF Queued
  <2>2. CASE v \in V /\ Queued(Q, v)
    <3>1. PICK i \in 1 .. Len(Q) : Q[i].currency = v
      BY <2>2 DEF Queued
    <3>2. i \in 1 .. n /\ i \in 1 .. Len(P)
      BY <1>3, <3>1 DEF n
    <3> QED
      BY <1>12, <3>1, <3>2 DEF Queued
  <2>3. CASE v \in V /\ Expanded(S, V, d, v)
    <3>1. PICK m : m = k + 1 /\ b = [x \in W |-> IF x = c THEN m ELSE d[x]]
      BY <1>10
    <3>2. Expanded(S, W, b, v)
      BY <2>3, <3>1, ExpandedOn
    <3> QED
      BY <3>2
  <2> QED
    BY <1>2, <2>1, <2>2, <2>3
<1>20. b[h.currency] = k /\ b[from] = 0 /\ from \in W
  BY <1>1, <1>2, <1>5, <1>7
<1>21. Depths(S, from, W, P, b)
  BY <1>3, <1>6, <1>14, <1>15, <1>18, <1>20 DEF Depths
<1>22. Around(S, from, h, k, W, P, b)
  BY <1>3, <1>16, <1>17, <1>19, <1>20, <1>21 DEF Around
<1> QED
  BY <1>22 DEF P

\* A symbol of a round.
LEMMA VisitKeeps ==
    ASSUME NEW S \in SUBSET Ids, NEW from, NEW n \in Nat, NEW h, NEW k \in Nat, k < MaxHops,
           NEW done, NEW q, Visiting(S, from, n, h, k, done, q), NEW s, s.id \in S
    PROVE  Visiting(S, from, n, h, k, done \cup {s.id}, Visit(q, h, s))
<1> DEFINE c == Across(s.id, h.currency)
           r == Visit(q, h, s)
           e == Entry(h, c, s.id)
           V == q.visited
<1>1. /\ q \in Searches /\ ~q.found /\ q.path = {}
      /\ n + 1 + Len(q.queue) <= Cardinality(V)
      /\ Reached(S, from, V, h, k)
      /\ \A id \in done : Across(id, h.currency) # "" => Across(id, h.currency) \in V
  BY DEF Visiting
<1>2. PICK d : Around(S, from, h, k, V, q.queue, d)
  BY DEF Visiting
<1>3. h \in Searched /\ s.id \in Ids
  BY <1>1 DEF Reached
<1>4. /\ r \in Searches
      /\ c = "" \/ c \in V => r = q
      /\ c # "" /\ c \notin V => Grows(q, r, c, e)
  <2>1. c = Across(s.id, h.currency)
    OBVIOUS
  <2> HIDE DEF c
  <2> QED
    BY <1>1, <1>3, <2>1, VisitIs
<1> HIDE DEF r
<1>5. CASE c = "" \/ c \in V
  <2>1. r = q
    BY <1>4, <1>5
  <2>2. \A id \in done \cup {s.id} : Across(id, h.currency) # "" => Across(id, h.currency) \in V
    BY <1>1, <1>5
  <2>3. Visiting(S, from, n, h, k, done \cup {s.id}, q)
    BY <1>1, <1>2, <2>2 DEF Visiting
  <2> QED
    BY <2>1, <2>3 DEF r
<1>6. CASE c # "" /\ c \notin V
  <2>1. Reached(S, from, V \cup {c}, e, k + 1)
    BY <1>1, <1>6, ReachedMore DEF Entry
  <2>2. e \in Searched /\ e.currency = c
    <3>1. e.currency = c
      BY DEF Entry
    <3> HIDE DEF e, c, V
    <3> QED
      BY <2>1, <3>1 DEF Reached
  <2>3. V \in SUBSET Currencies /\ q.queue \in Seq(Searched)
    BY <1>1 DEF Searches
  <2>4. /\ r.found = q.found /\ r.path = q.path /\ r.visited = V \cup {c}
        /\ r.queue = Append(q.queue, e)
    BY <1>4, <1>6 DEF Grows
  <2> HIDE DEF e, V
  <2>5. \E b : Around(S, from, h, k, V \cup {c}, Append(q.queue, e), b)
    BY <1>1, <1>2, <1>6, <2>1, <2>2, <2>3, AroundMore
  <2>6. Reached(S, from, V \cup {c}, h, k)
    BY <1>1, ReachedOn
  <2>7. Len(Append(q.queue, e)) = Len(q.queue) + 1 /\ Len(q.queue) \in Nat
    BY <2>2, <2>3, AppendProperties
  <2>8. IsFiniteSet(V) /\ Cardinality(V) \in Nat
    BY <2>3, CurrenciesFinite
  <2>9. Cardinality(V \cup {c}) = Cardinality(V) + 1
    BY <1>6, <2>8, FS_AddElement
  <2>10. n + 1 + Len(r.queue) <= Cardinality(r.visited)
    <3>1. Len(r.queue) = Len(q.queue) + 1 /\ Cardinality(r.visited) = Cardinality(V) + 1
      BY <2>4, <2>7, <2>9
    <3>2. \A x, y \in Nat : n + 1 + x <= y => n + 1 + (x + 1) <= y + 1
      OBVIOUS
    <3>3. n + 1 + (Len(q.queue) + 1) <= Cardinality(V) + 1
      BY <1>1, <2>7, <2>8, <3>2
    <3> QED
      BY <3>1, <3>3
  <2>11. \A id \in done \cup {s.id} :
           Across(id, h.currency) # "" => Across(id, h.currency) \in r.visited
    BY <1>1, <2>4
  <2>12. Visiting(S, from, n, h, k, done \cup {s.id}, r)
    BY <1>1, <1>4, <2>4, <2>5, <2>6, <2>10, <2>11 DEF Visiting
  <2> QED
    BY <2>12 DEF r
<1> QED
  BY <1>5, <1>6

------------------------------------------------------------------------------

VisitIter(b, h, list, it) ==
    it = [d \in SUBSET (DOMAIN list) |->
            IF d = {} THEN b ELSE Visit(it[d \ {Max(d)}], h, list[Max(d)])]

LEMMA VisitIsFold ==
    ASSUME NEW b, NEW h, NEW list, NEW jt, VisitIter(b, h, list, jt)
    PROVE  \E it : VisitIter(b, h, list, it) /\ VisitAll(b, h, list) = it[DOMAIN list]
<1>1. VisitAll(b, h, list) = (CHOOSE it : VisitIter(b, h, list, it))[DOMAIN list]
  BY Zenon DEF VisitAll, FoldLeft, MapThenFoldSet, VisitIter
<1>2. VisitIter(b, h, list, CHOOSE it : VisitIter(b, h, list, it))
  OBVIOUS
<1> QED
  BY <1>1, <1>2

\* The symbols are visited one after another.
VisitsInTurn(b, h, list, n, f) ==
    /\ f \in [0 .. n -> Searches] /\ f[0] = b /\ f[n] = VisitAll(b, h, list)
    /\ \A i \in 1 .. n : f[i] = Visit(f[i - 1], h, list[i])

LEMMA VisitedInTurn ==
    ASSUME NEW b \in Searches, NEW h \in Searched, NEW list, NEW n \in Nat, DOMAIN list = 1 .. n,
           \A i \in 1 .. n : list[i].id \in Ids
    PROVE  \E f : VisitsInTurn(b, h, list, n, f)
<1> DEFINE X == Searches
           G == [i \in 1 .. n |-> [x \in X |-> Visit(x, h, list[i])]]
<1>0. \A x \in X : \A i \in 1 .. n : Visit(x, h, list[i]) \in X
  <2> SUFFICES ASSUME NEW x \in X, NEW i \in 1 .. n PROVE Visit(x, h, list[i]) \in X
    OBVIOUS
  <2>1. list[i].id \in Ids
    OBVIOUS
  <2> QED
    BY <2>1, VisitIs
<1>1. G \in [1 .. n -> [X -> X]] /\ \A i \in 1 .. n : \A x \in X : G[i][x] = Visit(x, h, list[i])
  BY <1>0
<1> HIDE DEF G, X
<1>2. PICK jt : FoldValues(X, b, n, G, jt)
  <2>1. b \in X
    BY DEF X
  <2> QED
    BY <1>1, <2>1, FoldThere DEF HasFold
<1>3. VisitIter(b, h, list, jt)
  <2>1. jt \in [SUBSET (DOMAIN list) -> X]
    BY <1>2 DEF FoldValues
  <2>2. ASSUME NEW d \in SUBSET (DOMAIN list)
        PROVE  jt[d] = IF d = {} THEN b ELSE Visit(jt[d \ {Max(d)}], h, list[Max(d)])
    <3>1. CASE d = {}
      BY <1>2, <3>1 DEF FoldValues
    <3>2. CASE d # {}
      <4>1. /\ Max(d) \in 1 .. n /\ jt[d \ {Max(d)}] \in X
            /\ jt[d] = G[Max(d)][jt[d \ {Max(d)}]]
        BY <1>2, <3>2 DEF FoldValues
      <4> QED
        BY <1>1, <3>2, <4>1
    <3> QED
      BY <3>1, <3>2
  <2> QED
    BY <2>1, <2>2 DEF VisitIter
<1>4. PICK it : VisitIter(b, h, list, it) /\ VisitAll(b, h, list) = it[DOMAIN list]
  BY <1>3, VisitIsFold
<1>5. FoldTrail(X, b, n, G, it)
  <2>1. it[{}] = b /\ b \in X
    BY <1>4 DEF VisitIter, X
  <2>2. ASSUME NEW d \in SUBSET (1 .. n), d # {}, it[d \ {Max(d)}] \in X
        PROVE  it[d] = G[Max(d)][it[d \ {Max(d)}]]
    <3>1. Max(d) \in 1 .. n
      BY <2>2, MaxIsIn
    <3>2. it[d] = Visit(it[d \ {Max(d)}], h, list[Max(d)])
      BY <1>4, <2>2 DEF VisitIter
    <3> QED
      BY <1>1, <2>2, <3>1, <3>2
  <2>3. FoldGoes(X, b, n, G, it)
    BY <2>1, <2>2 DEF FoldGoes
  <2> QED
    BY <1>1, <2>1, <2>3, FoldSteps
<1>6. /\ it[1 .. 0] = b
      /\ \A k \in 1 .. n : it[1 .. k - 1] \in X /\ it[1 .. k] = Visit(it[1 .. k - 1], h, list[k])
  BY <1>1, <1>5 DEF FoldTrail
<1> DEFINE f == [i \in 0 .. n |-> it[1 .. i]]
<1>7. f[0] = b /\ f[n] = VisitAll(b, h, list)
  <2>1. 0 \in 0 .. n /\ n \in 0 .. n
    OBVIOUS
  <2> QED
    BY <1>4, <1>6, <2>1
<1>8. \A i \in 1 .. n : f[i] = Visit(f[i - 1], h, list[i])
  <2> TAKE i \in 1 .. n
  <2>1. i \in 0 .. n /\ i - 1 \in 0 .. n
    OBVIOUS
  <2>2. f[i] = it[1 .. i] /\ f[i - 1] = it[1 .. i - 1]
    BY <2>1
  <2> HIDE DEF f
  <2> QED
    BY <1>6, <2>2
<1>9. f \in [0 .. n -> X]
  <2>1. ASSUME NEW i \in 0 .. n PROVE it[1 .. i] \in X
    <3>1. CASE i = 0
      BY <1>6, <3>1 DEF X
    <3>2. CASE i \in 1 .. n
      <4>1. it[1 .. i - 1] \in X /\ it[1 .. i] = Visit(it[1 .. i - 1], h, list[i])
        BY <1>6, <3>2
      <4> QED
        BY <1>0, <3>2, <4>1 DEF X
    <3> QED
      BY <3>1, <3>2
  <2> QED
    BY <2>1
<1> HIDE DEF f
<1>10. VisitsInTurn(b, h, list, n, f)
  BY <1>7, <1>8, <1>9 DEF VisitsInTurn, X
<1> QED
  BY <1>10

\* The symbols of a search, in their order, and as a set.
SymbolsOf(symbols, n, S) ==
    /\ n \in Nat /\ DOMAIN symbols = 1 .. n /\ S \in SUBSET Ids
    /\ S = {symbols[i].id : i \in 1 .. n}

LEMMA AllVisited ==
    ASSUME NEW S, NEW symbols, NEW m, SymbolsOf(symbols, m, S), NEW from, NEW n \in Nat, NEW h,
           NEW k \in Nat, k < MaxHops, NEW q, Visiting(S, from, n, h, k, {}, q)
    PROVE  Visiting(S, from, n, h, k, S, VisitAll(q, h, symbols))
<1>1. m \in Nat /\ DOMAIN symbols = 1 .. m /\ S \in SUBSET Ids /\ \A i \in 1 .. m : symbols[i].id \in S
  BY DEF SymbolsOf
<1>2. q \in Searches /\ h \in Searched
  BY DEF Visiting, Reached
<1>3. PICK f : VisitsInTurn(q, h, symbols, m, f)
  BY <1>1, <1>2, VisitedInTurn
<1>4. /\ f[0] = q /\ f[m] = VisitAll(q, h, symbols)
      /\ \A i \in 1 .. m : f[i] = Visit(f[i - 1], h, symbols[i])
  BY <1>3 DEF VisitsInTurn
<1> DEFINE done(i) == {symbols[j].id : j \in 1 .. i}
           T == {i \in 0 .. m : Visiting(S, from, n, h, k, done(i), f[i])}
<1>5. 0 \in T
  <2>1. done(0) = {} /\ 0 \in 0 .. m
    BY <1>1
  <2> QED
    BY <1>4, <2>1
<1>6. ASSUME NEW i \in 1 .. m, i - 1 \in T PROVE i \in T
  <2>1. Visiting(S, from, n, h, k, done(i - 1), f[i - 1])
    BY <1>6
  <2>2. symbols[i].id \in S /\ i \in 0 .. m
    BY <1>1
  <2>3. done(i) = done(i - 1) \cup {symbols[i].id}
    <3>1. \A j : j \in 1 .. i <=> j \in 1 .. i - 1 \/ j = i
      OBVIOUS
    <3> QED
      BY <3>1
  <2> HIDE DEF done
  <2>4. Visiting(S, from, n, h, k, done(i - 1) \cup {symbols[i].id}, Visit(f[i - 1], h, symbols[i]))
    BY <1>1, <2>1, <2>2, VisitKeeps
  <2> QED
    BY <1>4, <2>2, <2>3, <2>4
<1> HIDE DEF T
<1>7. m \in T
  <2>1. m \in 0 .. m
    BY <1>1
  <2> QED
    BY <1>1, <1>5, <1>6, <2>1, EveryPosition
<1>8. S = done(m)
  BY DEF SymbolsOf
<1> QED
  BY <1>4, <1>7, <1>8 DEF T

------------------------------------------------------------------------------

LEMMA NewSearch ==
    ASSUME NEW q \in Searches, NEW t \in Seq(Searched), NEW p \in SUBSET Ids
    PROVE  /\ [q EXCEPT !.queue = t] \in Searches
           /\ [q EXCEPT !.queue = t].found = q.found
           /\ [q EXCEPT !.queue = t].path = q.path
           /\ [q EXCEPT !.queue = t].visited = q.visited
           /\ [q EXCEPT !.queue = t].queue = t
           /\ [q EXCEPT !.found = TRUE, !.path = p] \in Searches
           /\ [q EXCEPT !.found = TRUE, !.path = p].found = TRUE
           /\ [q EXCEPT !.found = TRUE, !.path = p].path = p
<1>1. q \in [found : BOOLEAN, path : SUBSET Ids, visited : SUBSET Currencies, queue : Seq(Searched)]
  BY DEF Searches
<1> DEFINE r == [q EXCEPT !.queue = t]
           u == [q EXCEPT !.found = TRUE, !.path = p]
<1>2. /\ r \in [found : BOOLEAN, path : SUBSET Ids, visited : SUBSET Currencies,
               queue : Seq(Searched)]
      /\ r.found = q.found /\ r.path = q.path /\ r.visited = q.visited /\ r.queue = t
  BY <1>1
<1>3. u \in [found : BOOLEAN, path : SUBSET Ids, visited : SUBSET Currencies, queue : Seq(Searched)]
  BY <1>1
<1>4. u.found = TRUE
  BY <1>1
<1>5. u.path = p
  BY <1>1
<1> HIDE DEF r, u
<1>6. r \in Searches /\ u \in Searches
  BY <1>2, <1>3 DEF Searches
<1> QED
  BY <1>2, <1>4, <1>5, <1>6 DEF r, u

LEMMA PoppedIs ==
    ASSUME NEW Q \in Seq(Searched), Q # <<>>
    PROVE  /\ Head(Q) = Q[1] /\ Tail(Q) \in Seq(Searched) /\ Len(Q) \in Nat \ {0}
           /\ Len(Tail(Q)) = Len(Q) - 1 /\ \A i \in 1 .. Len(Q) - 1 : Tail(Q)[i] = Q[i + 1]
BY HeadTailProperties

\* What is at the head of the queue is taken from it.
LEMMA PoppedAround ==
    ASSUME NEW S, NEW from, NEW V, NEW Q \in Seq(Searched), Q # <<>>, NEW d,
           Depths(S, from, V, Q, d), \A v \in V : Queued(Q, v) \/ Expanded(S, V, d, v)
    PROVE  /\ Reached(S, from, V, Head(Q), d[Head(Q).currency])
           /\ d[Head(Q).currency] \in 0 .. MaxHops
           /\ Around(S, from, Head(Q), d[Head(Q).currency], V, Tail(Q), d)
<1> DEFINE h == Head(Q)
           P == Tail(Q)
           n == Len(Q) - 1
<1>1. /\ d \in [V -> 0 .. MaxHops] /\ from \in V /\ d[from] = 0
      /\ \A i \in 1 .. Len(Q) : Reached(S, from, V, Q[i], d[Q[i].currency])
      /\ \A i, j \in 1 .. Len(Q) : i < j => d[Q[i].currency] <= d[Q[j].currency]
      /\ \A v \in V : \A i \in 1 .. Len(Q) : d[v] <= d[Q[i].currency] + 1
  BY DEF Depths
<1>2. /\ h = Q[1] /\ P \in Seq(Searched) /\ n \in Nat /\ Len(P) = n /\ Len(Q) = n + 1
      /\ \A i \in 1 .. n : P[i] = Q[i + 1]
  BY PoppedIs
<1> HIDE DEF h, P, n
<1>3. 1 \in 1 .. Len(Q) /\ \A i \in 1 .. n : i + 1 \in 1 .. Len(Q) /\ 1 < i + 1
  BY <1>2
<1>4. Reached(S, from, V, h, d[h.currency]) /\ h.currency \in V
  BY <1>1, <1>2, <1>3 DEF Reached
<1>5. \A i \in 1 .. n : Reached(S, from, V, P[i], d[P[i].currency])
  BY <1>1, <1>2, <1>3
<1>6. ASSUME NEW i \in 1 .. n, NEW j \in 1 .. n, i < j
      PROVE  d[P[i].currency] <= d[P[j].currency]
  <2>1. i + 1 \in 1 .. Len(Q) /\ j + 1 \in 1 .. Len(Q) /\ i + 1 < j + 1
    BY <1>3, <1>6
  <2>2. P[i] = Q[i + 1] /\ P[j] = Q[j + 1]
    BY <1>2
  <2> QED
    BY <1>1, <2>1, <2>2
<1>7. \A v \in V : \A i \in 1 .. n : d[v] <= d[P[i].currency] + 1
  BY <1>1, <1>2, <1>3
<1>8. Depths(S, from, V, P, d)
  BY <1>1, <1>2, <1>5, <1>6, <1>7 DEF Depths
<1>9. \A v \in V : d[v] <= d[h.currency] + 1
  BY <1>1, <1>2, <1>3
<1>10. \A i \in 1 .. n : d[h.currency] <= d[P[i].currency]
  BY <1>1, <1>2, <1>3
<1>11. ASSUME NEW v \in V PROVE v = h.currency \/ Queued(P, v) \/ Expanded(S, V, d, v)
  <2>1. CASE Queued(Q, v)
    <3>1. PICK i \in 1 .. Len(Q) : Q[i].currency = v
      BY <2>1 DEF Queued
    <3>2. CASE i = 1
      BY <1>2, <3>1, <3>2
    <3>3. CASE i # 1
      <4> DEFINE j == i - 1
      <4>1. j \in 1 .. n /\ j + 1 = i
        BY <1>2, <3>1, <3>3
      <4> HIDE DEF j
      <4>2. P[j].currency = v /\ j \in 1 .. Len(P)
        BY <1>2, <3>1, <4>1
      <4> QED
        BY <4>2 DEF Queued
    <3> QED
      BY <3>2, <3>3
  <2> QED
    BY <2>1
<1>12. Around(S, from, h, d[h.currency], V, P, d)
  BY <1>2, <1>8, <1>9, <1>10, <1>11 DEF Around
<1> QED
  BY <1>1, <1>4, <1>12 DEF h, P

\* A round that is over: h has been expanded, or is deep enough.
LEMMA RoundOver ==
    ASSUME NEW S, NEW from, NEW n \in Nat, NEW h, NEW k, NEW q,
           q \in Searches, ~q.found, q.path = {}, n + 1 + Len(q.queue) <= Cardinality(q.visited),
           NEW d, Around(S, from, h, k, q.visited, q.queue, d),
           Expanded(S, q.visited, d, h.currency)
    PROVE  SearchInv(S, from, n + 1, q)
<1>1. /\ Depths(S, from, q.visited, q.queue, d)
      /\ \A v \in q.visited : v = h.currency \/ Queued(q.queue, v) \/ Expanded(S, q.visited, d, v)
  BY DEF Around
<1>2. \A v \in q.visited : Queued(q.queue, v) \/ Expanded(S, q.visited, d, v)
  BY <1>1
<1> QED
  BY <1>1, <1>2 DEF SearchInv

LEMMA RoundInv ==
    ASSUME NEW S, NEW symbols, NEW m, SymbolsOf(symbols, m, S), NEW from, NEW n \in Nat, NEW q,
           SearchInv(S, from, n, q)
    PROVE  SearchInv(S, from, n + 1, SearchRound(symbols, q, Home))
<1> DEFINE Q == q.queue
           h == Head(Q)
           V == q.visited
           popped == [q EXCEPT !.queue = Tail(@)]
           r == SearchRound(symbols, q, Home)
<1>1. CASE q.found \/ Q = <<>>
  <2>1. r = q
    BY <1>1 DEF SearchRound
  <2>2. SearchInv(S, from, n + 1, q)
    BY <1>1 DEF SearchInv
  <2> QED
    BY <2>1, <2>2
<1>2. CASE ~q.found /\ Q # <<>>
  <2>1. /\ q \in Searches /\ q.path = {} /\ n + Len(Q) <= Cardinality(V)
        /\ S \in SUBSET Ids
    BY <1>2 DEF SearchInv, SymbolsOf
  <2>2. PICK d : /\ Depths(S, from, V, Q, d)
                 /\ \A v \in V : Queued(Q, v) \/ Expanded(S, V, d, v)
    BY <1>2 DEF SearchInv
  <2>3. /\ q.found \in BOOLEAN /\ q.path \in SUBSET Ids /\ V \in SUBSET Currencies
        /\ Q \in Seq(Searched)
        /\ q = [found |-> q.found, path |-> q.path, visited |-> V, queue |-> Q]
    BY <2>1 DEF Searches
  <2> DEFINE k == d[h.currency]
  <2>4. Reached(S, from, V, h, k) /\ k \in 0 .. MaxHops /\ Around(S, from, h, k, V, Tail(Q), d)
    BY <1>2, <2>2, <2>3, PoppedAround
  <2>5. Tail(Q) \in Seq(Searched) /\ Len(Tail(Q)) = Len(Q) - 1 /\ Len(Q) \in Nat
    BY <1>2, <2>3, PoppedIs
  <2>6. MaxHops \in Nat /\ Cardinality(V) \in Nat
    BY <2>3, CurrenciesFinite, BookAssumption
  <2>7. /\ popped \in Searches /\ popped.found = q.found /\ popped.path = q.path
        /\ popped.visited = V /\ popped.queue = Tail(Q)
    BY <2>1, <2>5, NewSearch
  <2>8. /\ popped \in Searches /\ ~popped.found /\ popped.path = {} /\ popped.visited = V
        /\ popped.queue = Tail(Q)
    <3> HIDE DEF popped, V, Q
    <3> QED
      BY <1>2, <2>1, <2>7
  <2>9. n + 1 + Len(popped.queue) <= Cardinality(popped.visited)
    BY <2>1, <2>5, <2>6, <2>8
  <2>10. r = IF h.currency = Home THEN [q EXCEPT !.found = TRUE, !.path = h.path]
             ELSE IF Cardinality(h.path) >= MaxHops THEN popped
             ELSE VisitAll(popped, h, symbols)
    BY <1>2 DEF SearchRound
  <2>11. /\ h \in Searched /\ h.currency \in V /\ h.path \subseteq S /\ Cardinality(h.path) = k
         /\ \E w : Way(h.path, from, h.currency, k, w)
    BY <2>4 DEF Reached
  <2> HIDE DEF popped, r, k, h, V
  <2>12. CASE h.currency = Home
    <3>1. r = [q EXCEPT !.found = TRUE, !.path = h.path]
      BY <2>10, <2>12
    <3>2. h.path \in SUBSET Ids
      BY <2>1, <2>11
    <3>3. Reaches(h.path, from, Home)
      BY <2>4, <2>11, <2>12 DEF Reaches
    <3>4. PICK x : x = h.path
      OBVIOUS
    <3>5. r \in Searches /\ r.found /\ r.path = h.path
      <4>1. x \in SUBSET Ids /\ <<>> \in Seq(Searched)
        BY <3>2, <3>4
      <4>2. r = [q EXCEPT !.found = TRUE, !.path = x]
        BY <3>1, <3>4
      <4>3. /\ [q EXCEPT !.found = TRUE, !.path = x] \in Searches
            /\ [q EXCEPT !.found = TRUE, !.path = x].found = TRUE
            /\ [q EXCEPT !.found = TRUE, !.path = x].path = x
        BY <2>1, <4>1, NewSearch
      <4> QED
        BY <3>4, <4>2, <4>3
    <3>6. SearchInv(S, from, n + 1, r)
      BY <2>11, <3>3, <3>5 DEF SearchInv
    <3> QED
      BY <3>6 DEF r
  <2>13. CASE h.currency # Home /\ Cardinality(h.path) >= MaxHops
    <3>1. r = popped
      BY <2>10, <2>13
    <3>2. Expanded(S, V, d, h.currency)
      <4>1. ~(d[h.currency] < MaxHops)
        BY <2>4, <2>6, <2>11, <2>13 DEF k
      <4> QED
        BY <2>13, <4>1 DEF Expanded
    <3>3. SearchInv(S, from, n + 1, popped)
      BY <2>4, <2>8, <2>9, <3>2, RoundOver
    <3> QED
      BY <3>1, <3>3 DEF r
  <2>14. CASE h.currency # Home /\ ~(Cardinality(h.path) >= MaxHops)
    <3>1. r = VisitAll(popped, h, symbols) /\ k \in Nat /\ k < MaxHops
      BY <2>4, <2>6, <2>10, <2>11, <2>14
    <3>2. Visiting(S, from, n, h, k, {}, popped)
      BY <2>4, <2>8, <2>9 DEF Visiting
    <3>3. Visiting(S, from, n, h, k, S, r)
      BY <3>1, <3>2, AllVisited
    <3>4. /\ r \in Searches /\ ~r.found /\ r.path = {}
          /\ n + 1 + Len(r.queue) <= Cardinality(r.visited)
          /\ \A id \in S : Across(id, h.currency) # "" => Across(id, h.currency) \in r.visited
      BY <3>3 DEF Visiting
    <3>5. PICK b : Around(S, from, h, k, r.visited, r.queue, b)
      BY <3>3 DEF Visiting
    <3>6. b[h.currency] = k /\ \A v \in r.visited : b[v] <= k + 1
      BY <3>5 DEF Around
    <3>7. \A c : Hop(S, h.currency, c) => c \in r.visited
      BY <3>4 DEF Hop
    <3>8. Expanded(S, r.visited, b, h.currency)
      BY <2>14, <3>6, <3>7 DEF Expanded
    <3>9. SearchInv(S, from, n + 1, r)
      BY <3>4, <3>5, <3>8, RoundOver
    <3> QED
      BY <3>9 DEF r
  <2> QED
    BY <2>12, <2>13, <2>14
<1> QED
  BY <1>1, <1>2

------------------------------------------------------------------------------

Numbers == [n \in 1 .. Rounds |-> n]
Start(from) == [found |-> FALSE, path |-> {}, visited |-> {from},
                queue |-> <<[currency |-> from, path |-> {}]>>]
SearchIter(b, symbols, it) ==
    it = [d \in SUBSET (DOMAIN Numbers) |->
            IF d = {} THEN b ELSE SearchRound(symbols, it[d \ {Max(d)}], Home)]

LEMMA SearchIsFold ==
    ASSUME NEW symbols, NEW from, NEW jt, SearchIter(Start(from), symbols, jt)
    PROVE  \E it : /\ SearchIter(Start(from), symbols, it)
                   /\ ConversionPath(symbols, from) = it[DOMAIN Numbers]
<1>1. ConversionPath(symbols, from)
        = FoldLeft(LAMBDA search, n : SearchRound(symbols, search, Home), Start(from), Numbers)
  BY DEF ConversionPath, Start, Numbers
<1>2. ConversionPath(symbols, from)
        = (CHOOSE it : SearchIter(Start(from), symbols, it))[DOMAIN Numbers]
  BY <1>1, Zenon DEF FoldLeft, MapThenFoldSet, SearchIter
<1>3. SearchIter(Start(from), symbols, CHOOSE it : SearchIter(Start(from), symbols, it))
  OBVIOUS
<1> QED
  BY <1>2, <1>3

LEMMA RoundTyped ==
    ASSUME NEW S, NEW symbols, NEW m, SymbolsOf(symbols, m, S), NEW q \in Searches
    PROVE  SearchRound(symbols, q, Home) \in Searches
<1> DEFINE h == Head(q.queue)
           t == Tail(q.queue)
           popped == [q EXCEPT !.queue = t]
           r == SearchRound(symbols, q, Home)
<1>1. CASE q.found \/ q.queue = <<>>
  BY <1>1 DEF SearchRound
<1>2. CASE ~q.found /\ q.queue # <<>>
  <2>1. q.queue \in Seq(Searched)
    BY DEF Searches
  <2>2. h \in Searched /\ t \in Seq(Searched)
    BY <1>2, <2>1, HeadTailProperties
  <2>3. h.path \in SUBSET Ids
    BY <2>2 DEF Searched
  <2> HIDE DEF h, t
  <2>4. \A p \in SUBSET Ids : popped \in Searches /\ [q EXCEPT !.found = TRUE, !.path = p] \in Searches
    BY <2>2, NewSearch
  <2>5. popped \in Searches
    BY <2>3, <2>4
  <2>6. m \in Nat /\ DOMAIN symbols = 1 .. m /\ \A i \in 1 .. m : symbols[i].id \in Ids
    BY DEF SymbolsOf
  <2> HIDE DEF popped
  <2>7. PICK f : VisitsInTurn(popped, h, symbols, m, f)
    BY <2>2, <2>5, <2>6, VisitedInTurn
  <2>8. VisitAll(popped, h, symbols) \in Searches
    <3>1. f \in [0 .. m -> Searches] /\ f[m] = VisitAll(popped, h, symbols) /\ m \in 0 .. m
      BY <2>6, <2>7 DEF VisitsInTurn
    <3> QED
      BY <3>1
  <2>9. r = IF h.currency = Home THEN [q EXCEPT !.found = TRUE, !.path = h.path]
            ELSE IF Cardinality(h.path) >= MaxHops THEN popped
            ELSE VisitAll(popped, h, symbols)
    BY <1>2 DEF SearchRound, h, t, popped
  <2>10. PICK p : p = h.path
    OBVIOUS
  <2>11. [q EXCEPT !.found = TRUE, !.path = p] \in Searches
    BY <2>2, <2>3, <2>10, NewSearch
  <2>12. [q EXCEPT !.found = TRUE, !.path = h.path] = [q EXCEPT !.found = TRUE, !.path = p]
    BY <2>10
  <2> QED
    BY <2>5, <2>8, <2>9, <2>11, <2>12
<1> QED
  BY <1>1, <1>2

RoundsInTurn(symbols, from, f) ==
    /\ f[0] = Start(from) /\ f[Rounds] = ConversionPath(symbols, from)
    /\ \A n \in 1 .. Rounds : f[n] = SearchRound(symbols, f[n - 1], Home)

LEMMA SearchedInTurn ==
    ASSUME NEW S, NEW symbols, NEW m, SymbolsOf(symbols, m, S), NEW from, Start(from) \in Searches
    PROVE  Rounds \in Nat /\ \E f : RoundsInTurn(symbols, from, f)
<1> DEFINE X == Searches
           b == Start(from)
           N == Rounds
           G == [i \in 1 .. N |-> [x \in X |-> SearchRound(symbols, x, Home)]]
<1>1. N \in Nat /\ DOMAIN Numbers = 1 .. N
  BY CurrenciesFinite DEF Rounds, Numbers
<1>2. \A x \in X : SearchRound(symbols, x, Home) \in X
  BY RoundTyped
<1>3. /\ G \in [1 .. N -> [X -> X]]
      /\ \A i \in 1 .. N : \A x \in X : G[i][x] = SearchRound(symbols, x, Home)
  BY <1>2
<1>4. b \in X
  OBVIOUS
<1> HIDE DEF G, X, b, N
<1>5. PICK jt : FoldValues(X, b, N, G, jt)
  BY <1>1, <1>3, <1>4, FoldThere DEF HasFold
<1>6. SearchIter(b, symbols, jt)
  <2>1. jt \in [SUBSET (DOMAIN Numbers) -> X]
    BY <1>1, <1>5 DEF FoldValues
  <2>2. ASSUME NEW d \in SUBSET (DOMAIN Numbers)
        PROVE  jt[d] = IF d = {} THEN b ELSE SearchRound(symbols, jt[d \ {Max(d)}], Home)
    <3>1. CASE d = {}
      BY <1>5, <3>1 DEF FoldValues
    <3>2. CASE d # {}
      <4>1. /\ Max(d) \in 1 .. N /\ jt[d \ {Max(d)}] \in X
            /\ jt[d] = G[Max(d)][jt[d \ {Max(d)}]]
        BY <1>1, <1>5, <3>2 DEF FoldValues
      <4> QED
        BY <1>3, <3>2, <4>1
    <3> QED
      BY <3>1, <3>2
  <2> QED
    BY <2>1, <2>2 DEF SearchIter
<1>7. PICK it : SearchIter(b, symbols, it) /\ ConversionPath(symbols, from) = it[1 .. N]
  BY <1>1, <1>6, SearchIsFold DEF b
<1>8. FoldTrail(X, b, N, G, it)
  <2>1. it[{}] = b
    BY <1>7 DEF SearchIter
  <2>2. ASSUME NEW d \in SUBSET (1 .. N), d # {}, it[d \ {Max(d)}] \in X
        PROVE  it[d] = G[Max(d)][it[d \ {Max(d)}]]
    <3>1. Max(d) \in 1 .. N
      BY <1>1, <2>2, MaxIsIn
    <3>2. it[d] = SearchRound(symbols, it[d \ {Max(d)}], Home)
      BY <1>1, <1>7, <2>2 DEF SearchIter
    <3> QED
      BY <1>3, <2>2, <3>1, <3>2
  <2>3. FoldGoes(X, b, N, G, it)
    BY <2>1, <2>2 DEF FoldGoes
  <2> QED
    BY <1>1, <1>3, <1>4, <2>3, FoldSteps
<1>9. /\ it[1 .. 0] = b
      /\ \A k \in 1 .. N : it[1 .. k] = SearchRound(symbols, it[1 .. k - 1], Home)
  BY <1>3, <1>8 DEF FoldTrail
<1> DEFINE f == [i \in 0 .. N |-> it[1 .. i]]
<1>10. f[0] = b /\ f[N] = ConversionPath(symbols, from)
  <2>1. 0 \in 0 .. N /\ N \in 0 .. N
    BY <1>1
  <2> QED
    BY <1>7, <1>9, <2>1
<1>11. \A n \in 1 .. N : f[n] = SearchRound(symbols, f[n - 1], Home)
  <2> SUFFICES ASSUME NEW n \in 1 .. N PROVE f[n] = SearchRound(symbols, f[n - 1], Home)
    OBVIOUS
  <2>1. n \in 0 .. N /\ n - 1 \in 0 .. N
    BY <1>1
  <2>2. f[n] = it[1 .. n] /\ f[n - 1] = it[1 .. n - 1]
    BY <2>1
  <2> HIDE DEF f
  <2> QED
    BY <1>9, <2>2
<1> HIDE DEF f
<1>12. RoundsInTurn(symbols, from, f)
  BY <1>10, <1>11 DEF RoundsInTurn, N, b
<1> QED
  BY <1>1, <1>12 DEF N

LEMMA StartInv ==
    ASSUME NEW S, NEW from \in Currencies
    PROVE  Start(from) \in Searches /\ SearchInv(S, from, 0, Start(from))
<1> DEFINE q == Start(from)
           e == [currency |-> from, path |-> {}]
           V == {from}
           Q == <<e>>
           d == [v \in V |-> 0]
           w == [i \in 0 .. 0 |-> from]
<1>1. e \in Searched /\ e.currency = from /\ e.path = {}
  BY DEF Searched
<1>2. q.found = FALSE /\ q.path = {} /\ q.visited = V /\ q.queue = Q
  BY DEF Start
<1>3. Q \in Seq(Searched) /\ Len(Q) = 1 /\ Q[1] = e /\ \A i \in 1 .. Len(Q) : i = 1
  BY <1>1
<1>4. q \in Searches
  <2>1. V \in SUBSET Currencies /\ {} \in SUBSET Ids
    OBVIOUS
  <2> HIDE DEF Q, V
  <2>2. q = [found |-> FALSE, path |-> {}, visited |-> V, queue |-> Q]
    BY DEF Start, V, Q
  <2> QED
    BY <1>3, <2>1, <2>2 DEF Searches
<1>5. Way({}, from, from, 0, w)
  <2>1. w \in [0 .. 0 -> Currencies] /\ w[0] = from
    <3>1. 0 \in 0 .. 0
      OBVIOUS
    <3> QED
      BY <3>1
  <2>2. \A i \in 1 .. 0 : FALSE
    OBVIOUS
  <2> HIDE DEF w
  <2> QED
    BY <2>1, <2>2 DEF Way
<1>6. IsFiniteSet({}) /\ Cardinality({}) = 0 /\ Cardinality(V) = 1
  BY FS_EmptySet, FS_Singleton
<1>7. d[from] = 0 /\ from \in V /\ \A v \in V : v = from
  OBVIOUS
<1>8. MaxHops \in Nat
  BY BookAssumption
<1>9. d \in [V -> 0 .. MaxHops]
  BY <1>8
<1> HIDE DEF q, e, V, Q, d, w
<1>10. Reached(S, from, V, e, 0)
  BY <1>1, <1>5, <1>6, <1>7 DEF Reached
<1>11. Depths(S, from, V, Q, d)
  <2>1. \A i \in 1 .. Len(Q) : Reached(S, from, V, Q[i], d[Q[i].currency])
    BY <1>1, <1>3, <1>7, <1>10
  <2>2. \A i, j \in 1 .. Len(Q) : i < j => d[Q[i].currency] <= d[Q[j].currency]
    BY <1>3
  <2>3. \A v \in V : \A i \in 1 .. Len(Q) : d[v] <= d[Q[i].currency] + 1
    BY <1>1, <1>3, <1>7
  <2> QED
    BY <1>7, <1>9, <2>1, <2>2, <2>3 DEF Depths
<1>12. \A v \in V : Queued(Q, v)
  BY <1>1, <1>3, <1>7 DEF Queued
<1>13. 0 + Len(Q) <= Cardinality(V)
  BY <1>3, <1>6
<1>14. SearchInv(S, from, 0, q)
  BY <1>2, <1>4, <1>11, <1>12, <1>13 DEF SearchInv
<1> QED
  BY <1>4, <1>14 DEF q

\* client.rs `conversion_path`, for any symbols in any order: it finds a path if and only if
\* symbols lead from the currency to the account's in at most MaxHops, and then the symbols
\* it returns lead there by themselves.
THEOREM PathsAreFound ==
    ASSUME NEW S, NEW symbols, NEW m, SymbolsOf(symbols, m, S), NEW from \in Currencies
    PROVE  LET q == ConversionPath(symbols, from)
           IN /\ q.found \in BOOLEAN /\ q.path \subseteq S
              /\ q.found => Reaches(q.path, from, Home)
              /\ Reaches(S, from, Home) => q.found
<1> DEFINE q == ConversionPath(symbols, from)
           T(f) == {n \in 0 .. Rounds : SearchInv(S, from, n, f[n])}
<1>1. Start(from) \in Searches /\ SearchInv(S, from, 0, Start(from))
  BY StartInv
<1>2. Rounds \in Nat
  BY <1>1, SearchedInTurn
<1>3. PICK f : RoundsInTurn(symbols, from, f)
  BY <1>1, SearchedInTurn
<1>4. /\ f[0] = Start(from) /\ f[Rounds] = q
      /\ \A n \in 1 .. Rounds : f[n] = SearchRound(symbols, f[n - 1], Home)
  BY <1>3 DEF RoundsInTurn
<1> HIDE DEF q
<1>5. 0 \in T(f)
  <2>1. 0 \in 0 .. Rounds
    BY <1>2
  <2> QED
    BY <1>1, <1>4, <2>1
<1>6. ASSUME NEW n \in 1 .. Rounds, n - 1 \in T(f) PROVE n \in T(f)
  <2> DEFINE k == n - 1
  <2>1. SearchInv(S, from, k, f[k]) /\ k \in Nat /\ k + 1 = n /\ n \in 0 .. Rounds
    BY <1>2, <1>6
  <2> HIDE DEF k
  <2>2. SearchInv(S, from, k + 1, SearchRound(symbols, f[k], Home))
    BY <2>1, RoundInv
  <2>3. f[n] = SearchRound(symbols, f[k], Home)
    BY <1>4 DEF k
  <2> QED
    BY <2>1, <2>2, <2>3
<1>7. SearchInv(S, from, Rounds, q)
  <2> HIDE DEF T
  <2>1. \A n \in 0 .. Rounds : n \in T(f)
    BY <1>2, <1>5, <1>6, EveryPosition
  <2>2. Rounds \in T(f)
    BY <1>2, <2>1
  <2> QED
    BY <1>4, <2>2 DEF T
<1>8. /\ q \in Searches
      /\ q.found => q.path \subseteq S /\ Reaches(q.path, from, Home)
      /\ ~q.found => q.path = {} /\ (q.queue = <<>> \/ Rounds + Len(q.queue) <= Cardinality(q.visited))
  BY <1>7 DEF SearchInv
<1>9. q.found \in BOOLEAN /\ q.visited \in SUBSET Currencies /\ q.queue \in Seq(Searched)
  BY <1>8 DEF Searches
<1>10. ASSUME Reaches(S, from, Home), ~q.found PROVE FALSE
  <2> DEFINE V == q.visited
  <2>1. q.queue = <<>>
    <3>1. Cardinality(V) \in Nat /\ Cardinality(V) <= Cardinality(Currencies)
      BY <1>9, CurrenciesFinite
    <3>2. Cardinality(Currencies) \in Nat /\ Rounds = 1 + Cardinality(Currencies)
      BY CurrenciesFinite DEF Rounds
    <3>3. Len(q.queue) \in Nat
      BY <1>9
    <3>4. ~(Rounds + Len(q.queue) <= Cardinality(V))
      <4> DEFINE l == Len(q.queue)
                 a == Cardinality(V)
                 c == Cardinality(Currencies)
      <4> HIDE DEF l, a, c
      <4>1. l \in Nat /\ a \in Nat /\ c \in Nat /\ a <= c /\ Rounds = 1 + c
        BY <3>1, <3>2, <3>3 DEF l, a, c
      <4>2. ~(Rounds + l <= a)
        BY <4>1
      <4> QED
        BY <4>2 DEF l, a
    <3> QED
      BY <1>8, <1>10, <3>4
  <2>2. PICK d : /\ Depths(S, from, V, q.queue, d)
                 /\ \A v \in V : Queued(q.queue, v) \/ Expanded(S, V, d, v)
    BY <1>7, <1>10 DEF SearchInv
  <2>3. d \in [V -> 0 .. MaxHops] /\ from \in V /\ d[from] = 0
    BY <2>2 DEF Depths
  <2>4. \A v : ~Queued(q.queue, v)
    BY <2>1 DEF Queued
  <2>5. \A v \in V : Expanded(S, V, d, v)
    BY <2>2, <2>4
  <2>6. PICK n \in 0 .. MaxHops : \E w : Way(S, from, Home, n, w)
    BY <1>10 DEF Reaches
  <2>7. PICK w : Way(S, from, Home, n, w)
    BY <2>6
  <2>8. w[0] = from /\ w[n] = Home /\ \A i \in 1 .. n : Hop(S, w[i - 1], w[i])
    BY <2>7 DEF Way
  <2>9. MaxHops \in Nat /\ n \in Nat /\ n <= MaxHops
    BY BookAssumption
  <2> DEFINE U == {i \in 0 .. n : w[i] \in V /\ d[w[i]] <= i}
  <2>10. 0 \in U
    BY <2>3, <2>8, <2>9
  <2>11. ASSUME NEW i \in 1 .. n, i - 1 \in U PROVE i \in U
    <3> DEFINE v == w[i - 1]
               c == w[i]
    <3>1. v \in V /\ d[v] <= i - 1 /\ Hop(S, v, c)
      BY <2>8, <2>11
    <3> HIDE DEF v, c
    <3>2. d[v] \in Nat /\ d[v] < MaxHops
      BY <2>3, <2>9, <3>1
    <3>3. c \in V /\ d[c] <= d[v] + 1
      BY <2>5, <3>1, <3>2 DEF Expanded
    <3>4. d[c] \in Nat
      BY <2>3, <2>9, <3>3
    <3>5. d[c] <= i /\ i \in 0 .. n
      BY <3>1, <3>2, <3>3, <3>4
    <3> QED
      BY <3>3, <3>5 DEF c
  <2> HIDE DEF U
  <2>12. n \in U
    <3>1. \A i \in 0 .. n : i \in U
      BY <2>9, <2>10, <2>11, EveryPosition
    <3> QED
      BY <2>9, <3>1
  <2>13. Home \in V
    BY <2>8, <2>12 DEF U
  <2> QED
    BY <2>5, <2>13 DEF Expanded
<1>11. q.path \subseteq S
  BY <1>8, <1>9
<1>12. /\ q.found \in BOOLEAN /\ q.path \subseteq S
       /\ q.found => Reaches(q.path, from, Home)
       /\ Reaches(S, from, Home) => q.found
  BY <1>8, <1>9, <1>10, <1>11
<1> QED
  BY <1>12 DEF q

LEMMA ConvertedTells ==
    ASSUME NEW ids \in SUBSET Ids, NEW currency \in Currencies
    PROVE  Converted(ids, currency) <=> Reaches(ids, currency, Home)
<1> DEFINE s == SetToSeq(ids)
           symbols == [i \in DOMAIN s |-> [id |-> s[i]]]
           q == ConversionPath(symbols, currency)
<1>1. IsFiniteSet(ids)
  <2>1. IsFiniteSet(Ids)
    BY BookAssumption DEF Ids
  <2> QED
    BY <2>1, FS_Subset
<1>2. s \in Seq(ids) /\ ToSet(s) = ids
  BY <1>1, SetListed
<1> HIDE DEF s
<1>3. Len(s) \in Nat /\ DOMAIN s = 1 .. Len(s)
  BY <1>2
<1>4. ids = {s[i] : i \in 1 .. Len(s)}
  BY <1>2, <1>3 DEF ToSet
<1>5. DOMAIN symbols = 1 .. Len(s) /\ \A i \in 1 .. Len(s) : symbols[i].id = s[i]
  BY <1>3
<1> HIDE DEF symbols
<1>6. ids = {symbols[i].id : i \in 1 .. Len(s)}
  BY <1>4, <1>5
<1>7. SymbolsOf(symbols, Len(s), ids)
  BY <1>3, <1>5, <1>6 DEF SymbolsOf
<1>8. /\ q.found \in BOOLEAN /\ q.path \subseteq ids
      /\ q.found => Reaches(q.path, currency, Home)
      /\ Reaches(ids, currency, Home) => q.found
  BY <1>7, PathsAreFound
<1>9. q.found => Reaches(ids, currency, Home)
  BY <1>8, ReachesOn
<1>10. Converted(ids, currency) = q.found
  BY DEF Converted, q, symbols, s
<1> HIDE DEF q
<1> QED
  BY <1>8, <1>9, <1>10

\* What a symbol's conversions bring, from the symbols of the book.
LEMMA ConversionsBring ==
    ASSUME BookTyped, NEW id \in Ids
    PROVE  /\ Conversions(book, id) \subseteq Listed(book)
           /\ \A currency \in {Listing[id].profit, Listing[id].margin} :
                \A X \in SUBSET Ids :
                  Conversions(book, id) \subseteq X /\ Converted(Listed(book), currency)
                    => Converted(X, currency)
<1> DEFINE C == {Listing[id].profit, Listing[id].margin}
           q(c) == ConversionPath(book.symbols, c)
           m == Len(book.symbols)
<1>1. Listed(book) \in SUBSET Ids /\ SymbolsOf(book.symbols, m, Listed(book))
  <2>1. book.symbols \in Seq([id : Ids, version : Nat]) /\ Indexed
    BY BookParts
  <2>2. m \in Nat /\ DOMAIN book.symbols = 1 .. m
    BY <2>1
  <2>3. Listed(book) \subseteq Ids
    BY <2>1 DEF Indexed
  <2>4. Listed(book) = {book.symbols[i].id : i \in 1 .. m}
    BY <2>1, <2>2 DEF Indexed
  <2> QED
    BY <2>2, <2>3, <2>4 DEF SymbolsOf
<1>2. C \subseteq Currencies
  <2> DEFINE T(x) == {Listing[x].base, Listing[x].profit, Listing[x].margin}
  <2>1. Currencies = UNION {T(x) : x \in Ids}
    BY DEF Currencies
  <2>2. C \subseteq T(id)
    OBVIOUS
  <2> HIDE DEF T, C
  <2> QED
    BY <2>1, <2>2
<1>3. Conversions(book, id) = UNION {q(c).path : c \in C}
  BY DEF Conversions
<1>4. ASSUME NEW c \in C
      PROVE  /\ q(c).found \in BOOLEAN /\ q(c).path \subseteq Listed(book)
             /\ q(c).found => Reaches(q(c).path, c, Home)
             /\ Reaches(Listed(book), c, Home) => q(c).found
  BY <1>1, <1>2, PathsAreFound
<1> HIDE DEF C, q, m
<1>5. Conversions(book, id) \subseteq Listed(book)
  BY <1>3, <1>4
<1>6. ASSUME NEW c \in C, NEW X \in SUBSET Ids, Conversions(book, id) \subseteq X,
             Converted(Listed(book), c)
      PROVE  Converted(X, c)
  <2>1. c \in Currencies
    BY <1>2
  <2>2. q(c).path \subseteq X
    BY <1>3, <1>6
  <2>3. Reaches(Listed(book), c, Home)
    BY <1>1, <1>6, <2>1, ConvertedTells
  <2>4. Reaches(q(c).path, c, Home)
    BY <1>4, <2>3
  <2>5. Reaches(X, c, Home)
    BY <2>2, <2>4, ReachesOn
  <2> QED
    BY <2>1, <2>5, ConvertedTells
<1> QED
  BY <1>5, <1>6 DEF C

------------------------------------------------------------------------------

\* The broker streams what the client has subscribed.
StreamedInv == streamed = streams.subscriptions /\ streamed \subseteq Ids

NewOnesStreamed ==
    \A p \in ToSet(book'.positions) \ ToSet(book.positions) :
      p.symbol \in Listed(book) =>
        /\ p.symbol \in streamed'
        /\ p.symbol \notin streamed =>
             \A currency \in {Listing[p.symbol].profit, Listing[p.symbol].margin} :
               Converted(Listed(book), currency) => Converted(streamed', currency)

LEMMA SubscribedInv ==
    ASSUME BookInv, StreamedInv, NEW ids, ids \subseteq Listed(book),
           streams' = [streams EXCEPT !.subscriptions = Subscribed(book, ids)],
           streamed' = Subscribed(book, ids)
    PROVE  /\ StreamedInv' /\ streamed \subseteq streamed' /\ ids \subseteq streamed'
           /\ \A id \in ids : id \in Ids /\ Conversions(book, id) \subseteq streamed'
<1> DEFINE s == Subscribed(book, ids)
           C == UNION {Conversions(book, id) : id \in ids}
<1>1. BookTyped /\ StreamsTyped
  BY DEF BookInv
<1>2. Listed(book) \subseteq Ids
  BY <1>1, BookParts DEF Indexed
<1>3. \A id \in ids : id \in Ids /\ Conversions(book, id) \subseteq Listed(book)
  BY <1>1, <1>2, ConversionsBring
<1>4. s = streams.subscriptions \cup ids \cup C
  BY DEF Subscribed
<1>5. C \subseteq Ids
  BY <1>2, <1>3
<1>6. streams'.subscriptions = s
  <2>1. streams = [subscriptions |-> streams.subscriptions, quotes |-> streams.quotes,
                   changedQuotes |-> streams.changedQuotes,
                   changedDepth |-> streams.changedDepth]
    BY <1>1, StreamsParts
  <2>2. streams' = [streams EXCEPT !.subscriptions = s]
    OBVIOUS
  <2> HIDE DEF s
  <2> QED
    BY <2>1, <2>2
<1>7. streamed' = s
  OBVIOUS
<1>8. \A id \in ids : Conversions(book, id) \subseteq C
  OBVIOUS
<1> HIDE DEF s, C
<1> QED
  BY <1>2, <1>3, <1>4, <1>5, <1>6, <1>7, <1>8 DEF StreamedInv

LEMMA StillStreamed ==
    ASSUME BookInv, StreamedInv, streamed' = streamed,
           streams'.subscriptions = streams.subscriptions, book'.positions = book.positions
    PROVE  StreamedInv' /\ NewOnesStreamed
BY DEF StreamedInv, NewOnesStreamed

LEMMA PositionsSubscribed ==
    ASSUME BookInv, StreamedInv, NEW m, ApplyPositions(m)
    PROVE  StreamedInv' /\ NewOnesStreamed
<1> DEFINE P == Placed(book.positions, m.positions)
           missing == {P[i].symbol : i \in DOMAIN P} \cap (Listed(book) \ streams.subscriptions)
<1>1. BookTyped
  BY DEF BookInv
<1>2. book'.positions = P
  <2>1. book = [positions |-> book.positions, orders |-> book.orders,
                balance |-> book.balance, symbols |-> book.symbols,
                symbolIds |-> book.symbolIds]
    BY <1>1, BookParts
  <2> DEFINE c == IF m.deal THEN m.balance ELSE book.balance
  <2>2. book' = [book EXCEPT !.positions = P, !.balance = c]
    BY DEF ApplyPositions
  <2> HIDE DEF P, c
  <2> QED
    BY <2>1, <2>2
<1>3. /\ missing = {} => streams' = streams /\ streamed' = streamed
      /\ missing # {} => /\ streams' = [streams EXCEPT !.subscriptions = Subscribed(book, missing)]
                         /\ streamed' = Subscribed(book, missing)
  BY DEF ApplyPositions
<1>4. \A p \in ToSet(P) : p.symbol \in Listed(book) /\ p.symbol \notin streams.subscriptions
                            => p.symbol \in missing
  BY DEF ToSet
<1>5. missing \subseteq Listed(book)
  OBVIOUS
<1> HIDE DEF P, missing
<1>6. /\ StreamedInv' /\ streamed \subseteq streamed' /\ missing \subseteq streamed'
      /\ \A id \in missing : id \in Ids /\ Conversions(book, id) \subseteq streamed'
  <2>1. CASE missing = {}
    BY <1>3, <2>1 DEF StreamedInv
  <2>2. CASE missing # {}
    BY <1>3, <1>5, <2>2, SubscribedInv
  <2> QED
    BY <2>1, <2>2
<1>7. ASSUME NEW p \in ToSet(P), p.symbol \in Listed(book)
      PROVE  /\ p.symbol \in streamed'
             /\ p.symbol \notin streamed =>
                  \A currency \in {Listing[p.symbol].profit, Listing[p.symbol].margin} :
                    Converted(Listed(book), currency) => Converted(streamed', currency)
  <2>1. CASE p.symbol \in streamed
    BY <1>6, <2>1
  <2>2. CASE p.symbol \notin streamed
    <3>1. p.symbol \in missing
      BY <1>4, <1>7, <2>2 DEF StreamedInv
    <3> DEFINE id == p.symbol
    <3>2. id \in Ids /\ Conversions(book, id) \subseteq streamed' /\ streamed' \in SUBSET Ids
      BY <1>6, <3>1 DEF StreamedInv
    <3> HIDE DEF id
    <3>3. \A currency \in {Listing[id].profit, Listing[id].margin} :
            Converted(Listed(book), currency) => Converted(streamed', currency)
      BY <1>1, <3>2, ConversionsBring
    <3> QED
      BY <1>6, <3>1, <3>3 DEF id
  <2> QED
    BY <2>1, <2>2
<1> QED
  BY <1>2, <1>6, <1>7 DEF NewOnesStreamed

LEMMA PolledStreamed ==
    ASSUME BookInv, StreamedInv, PollBook
    PROVE  StreamedInv' /\ NewOnesStreamed
<1> DEFINE m == Head(wire)
<1>1. \/ ApplyQuote(m) \/ ApplyDepth(m) \/ ApplySymbol(m)
      \/ ApplyOrder(m) \/ ApplyPositions(m) \/ ApplyAccount(m)
  BY DEF PollBook
<1>2. /\ book = [positions |-> book.positions, orders |-> book.orders,
                 balance |-> book.balance, symbols |-> book.symbols,
                 symbolIds |-> book.symbolIds]
      /\ streams = [subscriptions |-> streams.subscriptions, quotes |-> streams.quotes,
                    changedQuotes |-> streams.changedQuotes,
                    changedDepth |-> streams.changedDepth]
  BY BookParts, StreamsParts DEF BookInv
<1> HIDE DEF m
<1>3. CASE ApplyQuote(m)
  <2>1. streamed' = streamed /\ book' = book
    BY <1>3 DEF ApplyQuote
  <2>2. streams' = streams \/ \E q, c : streams' = [streams EXCEPT !.quotes = q, !.changedQuotes = c]
    BY <1>3, Zenon DEF ApplyQuote
  <2>3. streams'.subscriptions = streams.subscriptions
    BY <1>2, <2>2
  <2> QED
    BY <2>1, <2>3, StillStreamed
<1>4. CASE ApplyDepth(m)
  <2>1. streamed' = streamed /\ book' = book
    BY <1>4 DEF ApplyDepth
  <2>2. streams' = streams \/ \E c : streams' = [streams EXCEPT !.changedDepth = c]
    BY <1>4, Zenon DEF ApplyDepth
  <2>3. streams'.subscriptions = streams.subscriptions
    BY <1>2, <2>2
  <2> QED
    BY <2>1, <2>3, StillStreamed
<1>5. CASE ApplySymbol(m)
  <2>1. streamed' = streamed /\ streams' = streams
    BY <1>5 DEF ApplySymbol
  <2>2. \/ \E s : book' = [book EXCEPT !.symbols = s]
        \/ \E s, i : book' = [book EXCEPT !.symbols = s, !.symbolIds = i]
    BY <1>5, Zenon DEF ApplySymbol
  <2>3. book'.positions = book.positions
    BY <1>2, <2>2
  <2> QED
    BY <2>1, <2>3, StillStreamed
<1>6. CASE ApplyOrder(m)
  <2>1. streamed' = streamed /\ streams' = streams
    BY <1>6 DEF ApplyOrder
  <2>2. \E o : book' = [book EXCEPT !.orders = o]
    BY <1>6, Zenon DEF ApplyOrder
  <2>3. book'.positions = book.positions
    BY <1>2, <2>2
  <2> QED
    BY <2>1, <2>3, StillStreamed
<1>7. CASE ApplyPositions(m)
  BY <1>7, PositionsSubscribed
<1>8. CASE ApplyAccount(m)
  <2>1. streamed' = streamed /\ streams' = streams
    BY <1>8 DEF ApplyAccount
  <2>2. book' = book \/ book' = [book EXCEPT !.balance = m.balance]
    BY <1>8 DEF ApplyAccount
  <2>3. book'.positions = book.positions
    BY <1>2, <2>2
  <2> QED
    BY <2>1, <2>3, StillStreamed
<1> QED
  BY <1>1, <1>3, <1>4, <1>5, <1>6, <1>7, <1>8

LEMMA BookNextStreamed ==
    ASSUME BookInv, StreamedInv, [BookNext]_books
    PROVE  StreamedInv' /\ NewOnesStreamed
<1>1. CASE BrokerPushes
  <2>1. UNCHANGED <<streamed, book, streams>>
    BY <1>1 DEF BrokerPushes, Open, Modify, Close, Deposit, TellAccount, Order, TellSymbol,
                SendQuote, SendDepth, Change, Push
  <2> QED
    BY <2>1, StillStreamed
<1>2. CASE PollBook
  BY <1>2, PolledStreamed
<1>3. CASE \E ids \in SubscribeLists : Subscribe(ids)
  <2>1. PICK ids \in SubscribeLists : Subscribe(ids)
    BY <1>3
  <2>2. /\ ids \subseteq Listed(book) /\ book' = book
        /\ streams' = [streams EXCEPT !.subscriptions = Subscribed(book, ids)]
        /\ streamed' = Subscribed(book, ids)
    BY <2>1 DEF Subscribe
  <2>3. StreamedInv'
    BY <2>2, SubscribedInv
  <2> QED
    BY <2>2, <2>3 DEF NewOnesStreamed
<1>4. CASE TakeQuotes \/ TakeDepth \/ UNCHANGED books
  <2>1. streamed' = streamed /\ book' = book
    BY <1>4 DEF TakeQuotes, TakeDepth, books
  <2>2. streams = [subscriptions |-> streams.subscriptions, quotes |-> streams.quotes,
                   changedQuotes |-> streams.changedQuotes,
                   changedDepth |-> streams.changedDepth]
    BY StreamsParts DEF BookInv
  <2>3. \/ streams' = streams
        \/ streams' = [streams EXCEPT !.changedQuotes = <<>>]
        \/ streams' = [streams EXCEPT !.changedDepth = <<>>]
    BY <1>4 DEF TakeQuotes, TakeDepth, books
  <2>4. streams'.subscriptions = streams.subscriptions
    BY <2>2, <2>3
  <2> QED
    BY <2>1, <2>4, StillStreamed
<1> QED
  BY <1>1, <1>2, <1>3, <1>4 DEF BookNext

LEMMA BookInitStreamed == BookInit => StreamedInv
BY DEF BookInit, StreamedInv

\* client.rs `apply`, `subscribe` and `conversion_path`, for any symbols and any order of
\* them: a push that opens a position on a known symbol has that symbol streamed, and, if it
\* was not streamed before, symbols that convert its currencies, whenever the known symbols
\* convert them in at most MaxHops at all.
THEOREM PositionsAreStreamed == BookSpec => PositionsStreamed
<1> USE DEF NewOnesStreamed
<1>1. BookInit => BookInv /\ StreamedInv
  BY BookInitInv, BookInitStreamed
<1>2. (BookInv /\ StreamedInv) /\ [BookNext]_books => (BookInv /\ StreamedInv)'
  BY BookNextInv, BookNextStreamed
<1>3. (BookInv /\ StreamedInv) /\ [BookNext]_books => [NewOnesStreamed]_books
  BY BookNextStreamed
<1> QED
  BY <1>1, <1>2, <1>3, PTL DEF BookSpec, PositionsStreamed

------------------------------------------------------------------------------
(* The history of deals and orders *)

Trades == [ticket : Tickets, time : Times, version : Nat]
BucketSet == [action : 0 .. 4, bare : BOOLEAN, gone : SUBSET Tickets, added : SUBSET Trades]

\* What follows each bucket's action is what the action says.
AsTheActionSays(list, k) ==
    \A i \in 1 .. Len(list) :
      list[i].bare = (list[i].action = Unchanged \/ (k = "orders" /\ list[i].action = Elsewhere))

\* What h has at a bucket is what it has at the one before, corrected by it.
Corrects(h, n, list) == h[0] = {} /\ \A i \in 1 .. n : h[i] = Applied(h[i - 1], list[i])

LedgerInv ==
    /\ kind \in {"orders", "deals"} /\ buckets \in Seq(BucketSet)
    /\ AsTheActionSays(buckets, kind)
    /\ kept \subseteq Trades /\ OfEachTicket(kept)
    /\ \E h : Corrects(h, Len(buckets), buckets) /\ h[Len(buckets)] = kept
    /\ TradesComplete

AppliedIter(list, it) ==
    it = [d \in SUBSET (DOMAIN list) |->
            IF d = {} THEN {} ELSE Applied(it[d \ {Max(d)}], list[Max(d)])]

LEMMA AppliedIsFold ==
    ASSUME NEW list, NEW jt, AppliedIter(list, jt)
    PROVE  \E it : AppliedIter(list, it) /\ FoldLeft(Applied, {}, list) = it[DOMAIN list]
<1>1. FoldLeft(Applied, {}, list) = (CHOOSE it : AppliedIter(list, it))[DOMAIN list]
  BY Zenon DEF FoldLeft, MapThenFoldSet, AppliedIter
<1>2. AppliedIter(list, CHOOSE it : AppliedIter(list, it))
  OBVIOUS
<1> QED
  BY <1>1, <1>2

\* What the buckets add up to, whichever way they are gone through.
LEMMA AppliedInTurn ==
    ASSUME NEW list \in Seq(BucketSet), NEW h, Corrects(h, Len(list), list)
    PROVE  FoldLeft(Applied, {}, list) = h[Len(list)]
<1> DEFINE n == Len(list)
           X == SUBSET Trades
           G == [i \in 1 .. n |-> [x \in X |-> Applied(x, list[i])]]
<1>1. n \in Nat /\ DOMAIN list = 1 .. n /\ {} \in X /\ \A i \in 1 .. n : list[i].added \subseteq Trades
  <2>1. n \in Nat /\ DOMAIN list = 1 .. n
    OBVIOUS
  <2>2. \A i \in 1 .. n : list[i] \in BucketSet
    OBVIOUS
  <2>3. \A b \in BucketSet : b.added \subseteq Trades
    BY DEF BucketSet
  <2> QED
    BY <2>1, <2>2, <2>3
<1>2. G \in [1 .. n -> [X -> X]]
  <2>1. ASSUME NEW x \in X, NEW i \in 1 .. n
        PROVE  Applied(x, list[i]) \in X
    BY <1>1 DEF Applied
  <2> QED
    BY <2>1
<1>3. PICK jt : FoldValues(X, {}, n, G, jt)
  <2>1. HasFold(X, {}, n, G)
    <3> HIDE DEF G, n, X
    <3> QED
      BY <1>1, <1>2, FoldThere
  <2> QED
    BY <2>1 DEF HasFold
<1>4. AppliedIter(list, jt)
  <2>1. jt \in [SUBSET (DOMAIN list) -> X]
    BY <1>1, <1>3 DEF FoldValues
  <2>2. ASSUME NEW d \in SUBSET (DOMAIN list)
        PROVE  jt[d] = IF d = {} THEN {} ELSE Applied(jt[d \ {Max(d)}], list[Max(d)])
    <3>1. CASE d = {}
      BY <1>3, <3>1 DEF FoldValues
    <3>2. CASE d # {}
      <4>1. /\ Max(d) \in 1 .. n /\ jt[d \ {Max(d)}] \in X
            /\ jt[d] = G[Max(d)][jt[d \ {Max(d)}]]
        BY <1>1, <1>3, <3>2 DEF FoldValues
      <4> QED
        BY <3>2, <4>1
    <3> QED
      BY <3>1, <3>2
  <2> QED
    BY <2>1, <2>2 DEF AppliedIter
<1>5. PICK it : AppliedIter(list, it) /\ FoldLeft(Applied, {}, list) = it[DOMAIN list]
  <2> HIDE DEF G, n, X
  <2> QED
    BY <1>4, AppliedIsFold
<1>6. FoldTrail(X, {}, n, G, it)
  <2>1. it[{}] = {}
    BY <1>5 DEF AppliedIter
  <2>2. ASSUME NEW d \in SUBSET (1 .. n), d # {}, it[d \ {Max(d)}] \in X
        PROVE  it[d] = G[Max(d)][it[d \ {Max(d)}]]
    <3>1. Max(d) \in 1 .. n
      BY <1>1, <2>2, MaxIsIn
    <3>2. it[d] = Applied(it[d \ {Max(d)}], list[Max(d)])
      BY <1>1, <1>5, <2>2 DEF AppliedIter
    <3> QED
      BY <2>2, <3>1, <3>2
  <2>3. FoldGoes(X, {}, n, G, it)
    BY <2>1, <2>2 DEF FoldGoes
  <2> HIDE DEF G, n, X
  <2> QED
    BY <1>1, <1>2, <2>3, FoldSteps
<1>7. /\ it[1 .. 0] = {}
      /\ \A k \in 1 .. n : /\ it[1 .. k - 1] \in X
                           /\ it[1 .. k] = Applied(it[1 .. k - 1], list[k])
  BY <1>6 DEF FoldTrail
<1> DEFINE S == {k \in 0 .. n : it[1 .. k] = h[k]}
<1>8. 0 \in S
  <2>1. 0 \in 0 .. n /\ it[1 .. 0] = {} /\ h[0] = {}
    BY <1>1, <1>7 DEF Corrects
  <2> HIDE DEF n
  <2> QED
    BY <2>1
<1>9. ASSUME NEW k \in 1 .. n, k - 1 \in S PROVE k \in S
  <2>1. k \in 0 .. n /\ it[1 .. k - 1] = h[k - 1]
    BY <1>1, <1>9
  <2>2. h[k] = Applied(h[k - 1], list[k])
    BY DEF Corrects
  <2>3. it[1 .. k] = Applied(it[1 .. k - 1], list[k])
    BY <1>7
  <2>4. it[1 .. k] = h[k]
    BY <2>1, <2>2, <2>3
  <2> QED
    BY <2>1, <2>4
<1>10. n \in S
  <2> HIDE DEF S, n
  <2>1. \A k \in 0 .. n : k \in S
    BY <1>1, <1>8, <1>9, EveryPosition
  <2> QED
    BY <1>1, <2>1
<1> QED
  BY <1>1, <1>5, <1>10

\* w has the records of S, each once, by time.
InOrder(w, S) ==
    /\ ToSet(w) = S
    /\ \A i, j \in DOMAIN w : i < j => w[i].ticket # w[j].ticket /\ w[i].time <= w[j].time

LEMMA SortedIsInOrder ==
    ASSUME NEW S \in SUBSET Trades, OfEachTicket(S)
    PROVE  InOrder(Sorted(S), S)
<1> DEFINE n == Cardinality(S)
           P(r) == {q \in S : Before(q, r)}
           rank == [r \in S |-> Cardinality(P(r))]
           w == Sorted(S)
<1>1. \A r \in S : r.ticket \in Tickets /\ r.ticket \in Int /\ r.time \in Int
  <2>1. Tickets \subseteq Nat /\ Times \subseteq Int
    BY TradeHistoryAssumption
  <2>2. \A r \in Trades : r.ticket \in Tickets /\ r.time \in Times
    BY DEF Trades
  <2> SUFFICES ASSUME NEW r \in S
               PROVE  r.ticket \in Tickets /\ r.ticket \in Int /\ r.time \in Int
    OBVIOUS
  <2>3. r \in Trades
    OBVIOUS
  <2>4. r.ticket \in Tickets /\ r.time \in Times
    BY <2>2, <2>3
  <2>5. r.ticket \in Nat /\ r.time \in Int
    BY <2>1, <2>4
  <2> QED
    BY <2>4, <2>5
<1>2. IsFiniteSet(S) /\ n \in Nat
  <2> DEFINE f == [r \in S |-> r.ticket]
  <2>1. f \in Injection(S, Tickets)
    BY <1>1 DEF Injection, IsInjective, OfEachTicket
  <2>2. IsFiniteSet(Tickets)
    BY TradeHistoryAssumption
  <2> HIDE DEF f
  <2> QED
    BY <2>1, <2>2, FS_Injection, FS_CardinalityType
<1>3. /\ \A q \in S : ~Before(q, q)
      /\ \A p, q, r \in S : Before(p, q) /\ Before(q, r) => Before(p, r)
      /\ \A q, r \in S : q # r => Before(q, r) \/ Before(r, q)
      /\ \A q, r \in S : Before(q, r) => q.time <= r.time
  BY <1>1 DEF Before, OfEachTicket
<1>4. \A r \in S : IsFiniteSet(P(r)) /\ rank[r] \in 0 .. n - 1
  <2> TAKE r \in S
  <2>1. P(r) \subseteq S /\ r \notin P(r)
    BY <1>3
  <2> HIDE DEF P
  <2>2. /\ IsFiniteSet(P(r)) /\ rank[r] <= n /\ (n = rank[r] => S = P(r))
    BY <1>2, <2>1, FS_Subset
  <2>3. rank[r] \in Nat /\ rank[r] # n
    BY <2>1, <2>2, FS_CardinalityType
  <2> QED
    BY <1>2, <2>2, <2>3
<1>5. \A q, r \in S : Before(q, r) => rank[q] < rank[r]
  <2> SUFFICES ASSUME NEW q \in S, NEW r \in S, Before(q, r)
               PROVE  rank[q] < rank[r]
    OBVIOUS
  <2>1. P(q) \subseteq P(r) /\ q \in P(r) /\ q \notin P(q)
    BY <1>3
  <2>2. IsFiniteSet(P(r)) /\ rank[r] \in Nat /\ rank[q] \in Nat
    BY <1>4
  <2> HIDE DEF P
  <2>3. rank[q] <= rank[r] /\ (rank[r] = rank[q] => P(r) = P(q))
    BY <2>1, <2>2, FS_Subset
  <2> QED
    BY <2>1, <2>2, <2>3
<1>c. \A r \in S : rank[r] = Cardinality(P(r))
  OBVIOUS
<1>r. \A r \in S : rank[r] \in Int /\ 0 <= rank[r] /\ rank[r] <= n - 1
  <2> DEFINE c == n - 1
  <2>2. \A r \in S : rank[r] \in 0 .. c
    BY <1>4
  <2>3. c = n - 1 /\ c \in Int
    BY <1>2
  <2> HIDE DEF rank, n, c
  <2> SUFFICES ASSUME NEW r \in S
               PROVE  rank[r] \in Int /\ 0 <= rank[r] /\ rank[r] <= n - 1
    OBVIOUS
  <2>4. rank[r] \in 0 .. c
    BY <2>2
  <2> QED
    BY <2>3, <2>4
<1>n. n \in Nat
  BY <1>2
<1> HIDE DEF rank, n
<1>6. ASSUME NEW q \in S, NEW r \in S, rank[q] = rank[r] PROVE q = r
  <2>1. rank[q] \in Int /\ rank[r] \in Int
    BY <1>r
  <2>2. ~Before(q, r) /\ ~Before(r, q)
    BY <1>5, <1>6, <2>1
  <2> QED
    BY <1>3, <2>2
<1> DEFINE f == [r \in S |-> rank[r] + 1]
<1>7. f \in Injection(S, 1 .. n)
  <2>1. ASSUME NEW r \in S PROVE rank[r] + 1 \in 1 .. n
    <3>1. rank[r] \in Int /\ 0 <= rank[r] /\ rank[r] <= n - 1
      BY <1>r
    <3> QED
      BY <1>n, <3>1
  <2>2. ASSUME NEW q \in S, NEW r \in S, rank[q] + 1 = rank[r] + 1 PROVE q = r
    <3>1. rank[q] \in Int /\ rank[r] \in Int
      BY <1>r
    <3>2. rank[q] = rank[r]
      BY <2>2, <3>1
    <3> QED
      BY <1>6, <3>2
  <2> QED
    BY <2>1, <2>2 DEF Injection, IsInjective
<1>8. f \in Surjection(S, 1 .. n)
  <2>1. IsFiniteSet(1 .. n) /\ Cardinality(1 .. n) = n
    BY <1>n, FS_Interval
  <2>2. IsFiniteSet(S) /\ n = Cardinality(S)
    BY <1>2 DEF n
  <2> HIDE DEF f
  <2> QED
    BY <1>7, <2>1, <2>2, FS_Injection
<1>9. ASSUME NEW i \in 1 .. n PROVE \E r \in S : rank[r] = i - 1
  <2>1. PICK r \in S : f[r] = i
    BY <1>8 DEF Surjection
  <2>2. rank[r] + 1 = i /\ rank[r] \in Int
    BY <1>r, <2>1
  <2>3. rank[r] = i - 1
    BY <1>n, <2>2
  <2> QED
    BY <2>3
<1>10. /\ DOMAIN w = 1 .. n
       /\ \A i \in 1 .. n : w[i] \in S /\ rank[w[i]] = i - 1
  <2>1. w = [k \in 1 .. n |-> CHOOSE r \in S : Cardinality(P(r)) = k - 1]
    BY DEF Sorted, n
  <2> HIDE DEF w, n, P
  <2>2. ASSUME NEW i \in 1 .. n PROVE w[i] \in S /\ rank[w[i]] = i - 1
    <3>1. \E r \in S : Cardinality(P(r)) = i - 1
      BY <1>c, <1>9
    <3>2. w[i] \in S /\ Cardinality(P(w[i])) = i - 1
      BY <2>1, <3>1
    <3> QED
      BY <1>c, <3>2
  <2> QED
    BY <2>1, <2>2
<1> HIDE DEF w
<1>11. ToSet(w) = S
  <2>1. ASSUME NEW r \in S PROVE rank[r] + 1 \in 1 .. n /\ w[rank[r] + 1] = r
    <3>1. rank[r] \in Int /\ 0 <= rank[r] /\ rank[r] <= n - 1
      BY <1>r
    <3> DEFINE k == rank[r] + 1
    <3>2. k \in 1 .. n /\ k - 1 = rank[r]
      BY <1>n, <3>1
    <3> HIDE DEF k
    <3>3. w[k] \in S /\ rank[w[k]] = rank[r]
      BY <1>10, <3>2
    <3>4. k \in 1 .. n /\ w[k] = r
      BY <1>6, <3>2, <3>3
    <3> QED
      BY <3>4 DEF k
  <2> QED
    BY <1>10, <2>1 DEF ToSet
<1>12. ASSUME NEW i \in 1 .. n, NEW j \in 1 .. n, i < j
       PROVE  w[i].ticket # w[j].ticket /\ w[i].time <= w[j].time
  <2>1. w[i] \in S /\ w[j] \in S /\ rank[w[i]] = i - 1 /\ rank[w[j]] = j - 1
    BY <1>10
  <2>2. w[i] # w[j] /\ ~Before(w[j], w[i])
    BY <1>n, <1>r, <1>5, <1>12, <2>1
  <2> QED
    BY <1>3, <2>1, <2>2 DEF OfEachTicket
<1> QED
  BY <1>10, <1>11, <1>12 DEF w, InOrder

LEMMA LedgerInitInv == LedgerInit => LedgerInv
<1> SUFFICES ASSUME LedgerInit
             PROVE  LedgerInv
  OBVIOUS
<1>1. buckets \in Seq(BucketSet) /\ Len(buckets) = 0
  BY EmptySeq DEF LedgerInit
<1>2. PICK h : h[0] = {}
  <2> DEFINE f == [i \in {0} |-> {}]
  <2>1. f[0] = {}
    OBVIOUS
  <2> HIDE DEF f
  <2> QED
    BY <2>1
<1>3. Corrects(h, Len(buckets), buckets) /\ h[Len(buckets)] = kept
  <2>1. 1 .. Len(buckets) = {}
    BY <1>1
  <2> QED
    BY <1>1, <1>2, <2>1 DEF Corrects, LedgerInit
<1>4. TradesComplete
  BY DEF LedgerInit, TradesComplete
<1> QED
  <2>1. AsTheActionSays(buckets, kind)
    BY <1>1 DEF AsTheActionSays
  <2>2. kept \subseteq Trades /\ OfEachTicket(kept) /\ kind \in {"orders", "deals"}
    BY DEF LedgerInit, OfEachTicket
  <2> QED
    BY <1>1, <1>3, <1>4, <2>1, <2>2 DEF LedgerInv

\* A bucket the broker adds.
LEMMA AddBucketInv ==
    ASSUME LedgerInv, NEW action \in {Replaced, Unchanged, Records, Elsewhere},
           NEW gone \in SUBSET Tickets, NEW added \in SUBSET Trades, OfEachTicket(added),
           AddBucket(action, gone, added)
    PROVE  LedgerInv'
<1> DEFINE n == Len(buckets)
           b == [action |-> action, bare |-> Bare(action), gone |-> gone, added |-> added]
<1>1. /\ buckets \in Seq(BucketSet) /\ n \in Nat /\ kept \subseteq Trades /\ OfEachTicket(kept)
      /\ kind \in {"orders", "deals"}
      /\ AsTheActionSays(buckets, kind)
  BY DEF LedgerInv
<1>2. /\ reported = Unanswered /\ buckets' = Append(buckets, b)
      /\ kept' = Changed(kept, gone, added) /\ UNCHANGED <<kind, reported>>
  BY DEF AddBucket
<1>3. b \in BucketSet /\ b.action = action /\ b.bare = Skipped(action) /\ b.gone = gone /\ b.added = added
  <2>1. action \in 0 .. 4
    BY DEF Replaced, Unchanged, Records, Elsewhere
  <2>2. Bare(action) \in BOOLEAN /\ Bare(action) = Skipped(action)
    BY DEF Bare, Skipped
  <2> QED
    BY <2>1, <2>2 DEF BucketSet
<1> HIDE DEF b
<1>4. /\ buckets' \in Seq(BucketSet) /\ Len(buckets') = n + 1 /\ buckets'[n + 1] = b
      /\ \A i \in 1 .. n : buckets'[i] = buckets[i]
  BY <1>1, <1>2, <1>3, AppendProperties
<1>5. kept' = Applied(kept, b)
  BY <1>2, <1>3 DEF Changed, Applied
<1>6. kept' \subseteq Trades /\ OfEachTicket(kept')
  <2>1. \A r \in kept : r \in kept' => \A a \in added : r.ticket # a.ticket \/ r \in added
    BY <1>2 DEF Changed, TicketsOf
  <2>2. \A r \in kept' : r \in kept \/ r \in added
    BY <1>2 DEF Changed
  <2> QED
    BY <1>1, <2>1, <2>2 DEF OfEachTicket
<1>7. PICK h : Corrects(h, n, buckets) /\ h[n] = kept
  BY DEF LedgerInv
<1>8. PICK g : g[n + 1] = kept' /\ \A i \in 0 .. n : g[i] = h[i]
  <2> DEFINE f == [i \in 0 .. n + 1 |-> IF i = n + 1 THEN kept' ELSE h[i]]
  <2>1. f[n + 1] = kept' /\ \A i \in 0 .. n : f[i] = h[i]
    BY <1>1
  <2> HIDE DEF f
  <2> QED
    BY <2>1
<1>9. Corrects(g, n + 1, buckets')
  <2>1. g[0] = {}
    BY <1>1, <1>7, <1>8 DEF Corrects
  <2>2. ASSUME NEW i \in 1 .. n + 1 PROVE g[i] = Applied(g[i - 1], buckets'[i])
    <3>1. CASE i \in 1 .. n
      <4>1. i - 1 \in 0 .. n /\ i \in 0 .. n
        BY <1>1, <3>1
      <4>2. h[i] = Applied(h[i - 1], buckets[i])
        BY <1>7, <3>1 DEF Corrects
      <4>3. g[i] = h[i] /\ g[i - 1] = h[i - 1] /\ buckets'[i] = buckets[i]
        BY <1>4, <1>8, <3>1, <4>1
      <4> QED
        BY <4>2, <4>3
    <3>2. CASE i = n + 1
      <4>1. i - 1 = n /\ n \in 0 .. n
        BY <1>1, <3>2
      <4>2. g[i] = kept' /\ g[i - 1] = kept /\ buckets'[i] = b
        BY <1>4, <1>7, <1>8, <3>2, <4>1
      <4> QED
        BY <1>5, <4>2
    <3> QED
      BY <1>1, <3>1, <3>2
  <2> QED
    BY <2>1, <2>2 DEF Corrects
<1>10. AsTheActionSays(buckets', kind)
  <2> SUFFICES ASSUME NEW i \in 1 .. n + 1
               PROVE  buckets'[i].bare = (buckets'[i].action = Unchanged
                                           \/ (kind = "orders" /\ buckets'[i].action = Elsewhere))
    BY <1>4 DEF AsTheActionSays
  <2>1. CASE i \in 1 .. n
    BY <1>1, <1>4, <2>1 DEF AsTheActionSays
  <2>2. CASE i = n + 1
    BY <1>3, <1>4, <2>2 DEF Skipped
  <2> QED
    BY <1>1, <2>1, <2>2
<1>11. TradesComplete'
  BY <1>2 DEF TradesComplete
<1>12. Corrects(g, Len(buckets'), buckets') /\ g[Len(buckets')] = kept'
  BY <1>4, <1>8, <1>9
<1>13. kind' \in {"orders", "deals"} /\ AsTheActionSays(buckets', kind')
  BY <1>1, <1>2, <1>10
<1> QED
  BY <1>4, <1>6, <1>11, <1>12, <1>13 DEF LedgerInv

LEMMA AskTradesInv ==
    ASSUME LedgerInv, NEW from \in Int, NEW to \in Int, AskTrades(from, to)
    PROVE  LedgerInv'
<1> DEFINE S == {r \in kept : r.time >= from /\ r.time < to}
<1>1. /\ buckets \in Seq(BucketSet) /\ kept \subseteq Trades /\ OfEachTicket(kept)
      /\ DOMAIN buckets = 1 .. Len(buckets)
      /\ \A i \in 1 .. Len(buckets) : buckets[i].bare = Skipped(buckets[i].action)
  BY DEF LedgerInv, AsTheActionSays, Skipped
<1>2. UNCHANGED <<kind, buckets, kept>>
  BY DEF AskTrades
<1>3. DecodedTrades.ok /\ DecodedTrades.records = kept
  <2>1. PICK h : Corrects(h, Len(buckets), buckets) /\ h[Len(buckets)] = kept
    BY DEF LedgerInv
  <2>2. FoldLeft(Applied, {}, buckets) = kept
    BY <1>1, <2>1, AppliedInTurn
  <2> DEFINE all == FoldLeft(Applied, {}, buckets)
  <2>3. DecodedTrades = [ok |-> \A i \in DOMAIN buckets : buckets[i].bare = Skipped(buckets[i].action),
                         records |-> all]
    BY DEF DecodedTrades
  <2> HIDE DEF all
  <2> QED
    BY <1>1, <2>2, <2>3 DEF all
<1>4. reported'.window = <<from, to>> /\ reported'.ok
      /\ reported'.records = IF from >= to THEN <<>> ELSE Sorted(S)
  BY <1>3 DEF AskTrades
<1>5. InOrder(reported'.records, S)
  <2>1. CASE from >= to
    <3>1. \A r \in kept : r.time \in Int
      BY <1>1, TradeHistoryAssumption DEF Trades
    <3>2. S = {}
      BY <2>1, <3>1
    <3>3. reported'.records = <<>>
      BY <1>4, <2>1
    <3> QED
      BY <3>2, <3>3 DEF InOrder, ToSet
  <2>2. CASE ~(from >= to)
    <3>1. S \in SUBSET Trades /\ OfEachTicket(S)
      BY <1>1 DEF OfEachTicket
    <3> HIDE DEF S
    <3>2. InOrder(Sorted(S), S)
      BY <3>1, SortedIsInOrder
    <3> QED
      BY <1>4, <2>2, <3>2
  <2> QED
    BY <2>1, <2>2
<1>6. TradesComplete'
  BY <1>2, <1>4, <1>5 DEF TradesComplete, InOrder
<1> QED
  BY <1>2, <1>6 DEF LedgerInv

\* history.rs `deals` and `orders`, for any tickets, times, corrections and ranges: the call
\* returns the records the broker keeps in the range, each once, as they are now, by time.
THEOREM HistoryIsAsCorrected == LedgerSpec => []TradesComplete
<1>1. LedgerInit => LedgerInv
  BY LedgerInitInv
<1>2. LedgerInv /\ [LedgerNext]_ledger => LedgerInv'
  <2> SUFFICES ASSUME LedgerInv, [LedgerNext]_ledger
               PROVE  LedgerInv'
    OBVIOUS
  <2>1. ASSUME NEW action \in {Replaced, Unchanged, Records, Elsewhere},
               NEW gone \in SUBSET Tickets, NEW tickets \in SUBSET Tickets,
               NEW time \in [tickets -> Times],
               AddBucket(action, gone, {[ticket |-> t, time |-> time[t], version |-> Len(buckets)]
                                          : t \in tickets})
        PROVE  LedgerInv'
    <3> DEFINE added == {[ticket |-> t, time |-> time[t], version |-> Len(buckets)] : t \in tickets}
    <3>1. Len(buckets) \in Nat
      BY DEF LedgerInv
    <3>2. added \in SUBSET Trades /\ OfEachTicket(added)
      BY <3>1 DEF Trades, OfEachTicket
    <3> HIDE DEF added
    <3>3. AddBucket(action, gone, added)
      BY <2>1 DEF added
    <3> QED
      BY <3>2, <3>3, AddBucketInv
  <2>2. ASSUME NEW window \in Windows, AskTrades(window[1], window[2])
        PROVE  LedgerInv'
    <3>1. window[1] \in Int /\ window[2] \in Int
      BY TradeHistoryAssumption
    <3> QED
      BY <2>2, <3>1, AskTradesInv
  <2>3. CASE UNCHANGED ledger
    BY <2>3 DEF LedgerInv, TradesComplete, ledger
  <2> QED
    BY <2>1, <2>2, <2>3 DEF LedgerNext
<1>3. LedgerInv => TradesComplete
  BY DEF LedgerInv
<1> QED
  BY <1>1, <1>2, <1>3, PTL DEF LedgerSpec

------------------------------------------------------------------------------
(* Frames: sequences one behind another *)

\* c has what the first sequences of s add up to.
AddsUp(c, s, n) == c[0] = <<>> /\ \A i \in 1 .. n : c[i] = c[i - 1] \o s[i]

LEMMA SumsInside ==
    ASSUME NEW B, NEW s \in Seq(Seq(B)), NEW c, AddsUp(c, s, Len(s))
    PROVE  \A k \in 0 .. Len(s) : c[k] \in Seq(B)
<1> DEFINE n == Len(s)
           S == {k \in 0 .. n : c[k] \in Seq(B)}
<1>1. n \in Nat /\ \A i \in 1 .. n : s[i] \in Seq(B)
  OBVIOUS
<1>2. c[0] = <<>> /\ \A i \in 1 .. n : c[i] = c[i - 1] \o s[i]
  BY DEF AddsUp
<1> HIDE DEF n
<1>3. 0 \in S
  <2>1. 0 \in 0 .. n /\ <<>> \in Seq(B)
    BY <1>1, EmptySeq
  <2> QED
    BY <1>2, <2>1
<1>4. ASSUME NEW k \in 1 .. n, k - 1 \in S PROVE k \in S
  <2>1. c[k] = c[k - 1] \o s[k] /\ c[k - 1] \in Seq(B) /\ s[k] \in Seq(B)
    BY <1>1, <1>2, <1>4
  <2>2. c[k] \in Seq(B)
    BY <2>1, ConcatProperties
  <2> QED
    BY <1>1, <2>2
<1> HIDE DEF S
<1>5. \A k \in 0 .. n : k \in S
  BY <1>1, <1>3, <1>4, EveryPosition
<1> QED
  BY <1>5 DEF S, n

LEMMA SumsThere ==
    ASSUME NEW s, NEW n \in Nat
    PROVE  \E c : AddsUp(c, s, n)
<1> DEFINE S == {k \in 0 .. n : \E c : AddsUp(c, s, k)}
<1>1. 0 \in S
  <2> DEFINE c == [i \in {0} |-> <<>>]
  <2>1. c[0] = <<>>
    OBVIOUS
  <2> HIDE DEF c
  <2>2. AddsUp(c, s, 0)
    BY <2>1 DEF AddsUp
  <2> QED
    BY <2>2
<1>2. ASSUME NEW k \in 1 .. n, k - 1 \in S PROVE k \in S
  <2>1. PICK c : AddsUp(c, s, k - 1)
    BY <1>2
  <2> DEFINE d == [i \in 0 .. k |-> IF i = k THEN c[k - 1] \o s[k] ELSE c[i]]
  <2>2. /\ d[k] = c[k - 1] \o s[k]
        /\ \A i \in 0 .. k - 1 : d[i] = c[i]
    OBVIOUS
  <2> HIDE DEF d
  <2>3. d[0] = <<>>
    BY <2>1, <2>2 DEF AddsUp
  <2>4. ASSUME NEW i \in 1 .. k PROVE d[i] = d[i - 1] \o s[i]
    <3>1. CASE i = k
      <4>1. i - 1 \in 0 .. k - 1 /\ i - 1 = k - 1
        BY <3>1
      <4>2. d[i - 1] = c[k - 1]
        BY <2>2, <4>1
      <4> QED
        BY <2>2, <3>1, <4>2
    <3>2. CASE i # k
      <4>1. i \in 1 .. k - 1 /\ i \in 0 .. k - 1 /\ i - 1 \in 0 .. k - 1
        BY <3>2
      <4>2. c[i] = c[i - 1] \o s[i]
        BY <2>1, <4>1 DEF AddsUp
      <4> QED
        BY <2>2, <4>1, <4>2
    <3> QED
      BY <3>1, <3>2
  <2>5. AddsUp(d, s, k)
    BY <2>3, <2>4 DEF AddsUp
  <2> QED
    BY <2>5
<1> HIDE DEF S
<1>3. \A k \in 0 .. n : k \in S
  BY <1>1, <1>2, EveryPosition
<1> QED
  BY <1>3 DEF S

\* FlattenSeq is the last of the sums.
LEMMA FlatIsSum ==
    ASSUME NEW B, NEW s \in Seq(Seq(B)), NEW c, AddsUp(c, s, Len(s))
    PROVE  FlattenSeq(s) = c[Len(s)]
<1> DEFINE n == Len(s)
<1>1. n \in Nat /\ \A i \in 1 .. n : s[i] \in Seq(B)
  OBVIOUS
<1>2. c[0] = <<>> /\ \A i \in 1 .. n : c[i] = c[i - 1] \o s[i]
  BY DEF AddsUp
<1>3. \A i \in 0 .. n : c[i] \in Seq(B)
  BY SumsInside
<1>4. CASE n = 0
  <2>1. s = <<>>
    BY <1>4
  <2>2. FlattenSeq(s) = s
    BY <1>4 DEF FlattenSeq
  <2> QED
    BY <1>2, <1>4, <2>1, <2>2
<1>5. CASE n # 0
  <2> HIDE DEF n
  <2> DEFINE g == [i \in 1 .. n |-> c[i]]
  <2>2. FlatIter(s, g)
    <3>1. ASSUME NEW i \in 1 .. n
          PROVE  c[i] = IF i = 1 THEN s[i] ELSE g[i - 1] \o s[i]
      <4>1. CASE i = 1
        <5>1. i - 1 = 0 /\ s[i] \in Seq(B)
          BY <1>1, <4>1
        <5>2. c[i] = <<>> \o s[i]
          BY <1>2, <5>1
        <5>3. <<>> \o s[i] = s[i]
          BY <5>1, ConcatEmptySeq
        <5> QED
          BY <4>1, <5>2, <5>3
      <4>2. CASE i # 1
        <5>1. i - 1 \in 1 .. n
          BY <1>1, <4>2
        <5> QED
          BY <1>2, <4>2, <5>1
      <4> QED
        BY <4>1, <4>2
    <3> QED
      BY <3>1 DEF FlatIter, n
  <2> HIDE DEF g
  <2>3. PICK f : FlatIter(s, f) /\ FlattenSeq(s) = f[n]
    BY <1>5, <2>2, FlattenIsFunction DEF n
  <2>4. \A i \in 1 .. n : f[i] = IF i = 1 THEN s[i] ELSE f[i - 1] \o s[i]
    <3>1. f = [i \in 1 .. n |-> IF i = 1 THEN s[i] ELSE f[i - 1] \o s[i]]
      BY <2>3 DEF FlatIter, n
    <3> QED
      BY <3>1
  <2> DEFINE S == {k \in 0 .. n : k = 0 \/ f[k] = c[k]}
  <2>5. 0 \in S
    BY <1>1
  <2>6. ASSUME NEW k \in 1 .. n, k - 1 \in S PROVE k \in S
    <3>1. CASE k = 1
      <4>1. k - 1 = 0 /\ s[k] \in Seq(B)
        BY <1>1, <3>1
      <4>2. c[k] = <<>> \o s[k] /\ f[k] = s[k]
        BY <1>2, <2>4, <3>1, <4>1
      <4>3. <<>> \o s[k] = s[k]
        BY <4>1, ConcatEmptySeq
      <4>4. f[k] = c[k] /\ k \in 0 .. n
        BY <1>1, <4>2, <4>3
      <4> QED
        BY <4>4
    <3>2. CASE k # 1
      <4>1. f[k - 1] = c[k - 1]
        BY <2>6, <3>2
      <4>2. f[k] = f[k - 1] \o s[k] /\ c[k] = c[k - 1] \o s[k]
        BY <1>2, <2>4, <3>2
      <4>3. f[k] = c[k] /\ k \in 0 .. n
        BY <1>1, <4>1, <4>2
      <4> QED
        BY <4>3
    <3> QED
      BY <3>1, <3>2
  <2> HIDE DEF S
  <2>7. \A k \in 0 .. n : k \in S
    BY <1>1, <2>5, <2>6, EveryPosition
  <2>8. n \in S
    BY <1>1, <2>7
  <2> QED
    BY <1>5, <2>3, <2>8 DEF S, n
<1> QED
  BY <1>4, <1>5

LEMMA FlatInside ==
    ASSUME NEW B, NEW s \in Seq(Seq(B))
    PROVE  FlattenSeq(s) \in Seq(B)
<1>1. Len(s) \in Nat
  OBVIOUS
<1>2. PICK c : AddsUp(c, s, Len(s))
  BY <1>1, SumsThere
<1> QED
  BY <1>1, <1>2, FlatIsSum, SumsInside

LEMMA FlatOfNone == FlattenSeq(<<>>) = <<>>
  BY DEF FlattenSeq

\* t is s without its first sequence.
LEMMA FlatFront ==
    ASSUME NEW B, NEW s \in Seq(Seq(B)), NEW t \in Seq(Seq(B)), Len(s) = Len(t) + 1,
           \A i \in 1 .. Len(t) : t[i] = s[i + 1]
    PROVE  FlattenSeq(s) = s[1] \o FlattenSeq(t)
<1> DEFINE n == Len(t)
<1>1. n \in Nat /\ Len(s) = n + 1 /\ s[1] \in Seq(B)
  OBVIOUS
<1>2. PICK c : AddsUp(c, t, n)
  BY <1>1, SumsThere
<1>3. FlattenSeq(t) = c[n] /\ \A i \in 0 .. n : c[i] \in Seq(B)
  BY <1>2, FlatIsSum, SumsInside
<1>4. /\ c[0] = <<>>
      /\ \A i \in 1 .. n : c[i] = c[i - 1] \o t[i]
      /\ \A i \in 1 .. n : t[i] = s[i + 1] /\ t[i] \in Seq(B)
  <2>1. \A i \in 1 .. n : t[i] \in Seq(B)
    OBVIOUS
  <2>2. c[0] = <<>> /\ \A i \in 1 .. n : c[i] = c[i - 1] \o t[i]
    BY <1>2 DEF AddsUp
  <2> QED
    BY <2>1, <2>2
<1> HIDE DEF n
<1> DEFINE d == [i \in 0 .. n + 1 |-> IF i = 0 THEN <<>> ELSE s[1] \o c[i - 1]]
<1>5. d[0] = <<>> /\ \A i \in 1 .. n + 1 : d[i] = s[1] \o c[i - 1]
  <2>1. 0 \in 0 .. n + 1 /\ \A i \in 1 .. n + 1 : i \in 0 .. n + 1 /\ i # 0
    BY <1>1
  <2> QED
    BY <2>1
<1> HIDE DEF d
<1>6. ASSUME NEW i \in 1 .. n + 1 PROVE d[i] = d[i - 1] \o s[i]
  <2>1. CASE i = 1
    <3>1. i - 1 = 0
      BY <2>1
    <3>2. d[i] = s[1] \o <<>> /\ d[i - 1] = <<>>
      BY <1>4, <1>5, <3>1
    <3>3. s[1] \o <<>> = s[1] /\ <<>> \o s[1] = s[1]
      BY <1>1, ConcatEmptySeq
    <3> QED
      BY <2>1, <3>2, <3>3
  <2>2. CASE i # 1
    <3> DEFINE j == i - 1
    <3>1. j \in 1 .. n /\ j \in 1 .. n + 1 /\ j - 1 \in 0 .. n /\ i = j + 1 /\ j = i - 1
      BY <1>1, <2>2
    <3> HIDE DEF j
    <3>2. d[i] = s[1] \o c[j] /\ d[j] = s[1] \o c[j - 1]
      BY <1>5, <3>1
    <3>3. c[j] = c[j - 1] \o s[i] /\ c[j - 1] \in Seq(B) /\ s[i] \in Seq(B)
      BY <1>3, <1>4, <3>1
    <3>4. s[1] \o (c[j - 1] \o s[i]) = (s[1] \o c[j - 1]) \o s[i]
      <4> DEFINE x == s[1]
                 y == c[j - 1]
                 z == s[i]
      <4>1. x \in Seq(B) /\ y \in Seq(B) /\ z \in Seq(B)
        BY <1>1, <3>3
      <4> HIDE DEF x, y, z
      <4>2. JoinsInside(x, y, z)
        BY <4>1, JoinedToConcat
      <4>3. (x \o y) \o z = x \o (y \o z)
        BY <4>2 DEF JoinsInside
      <4> QED
        BY <4>3 DEF x, y, z
    <3> QED
      BY <3>1, <3>2, <3>3, <3>4
  <2> QED
    BY <2>1, <2>2
<1>7. AddsUp(d, s, Len(s))
  BY <1>1, <1>5, <1>6 DEF AddsUp
<1>8. FlattenSeq(s) = d[n + 1]
  BY <1>1, <1>7, FlatIsSum
<1> DEFINE m == n + 1
<1>9. m \in 1 .. n + 1 /\ m - 1 = n
  BY <1>1
<1>10. FlattenSeq(s) = d[m]
  BY <1>8
<1> HIDE DEF m
<1>11. d[m] = s[1] \o c[n]
  BY <1>5, <1>9
<1> QED
  BY <1>3, <1>10, <1>11 DEF n

\* t is s with another sequence.
LEMMA FlatAppend ==
    ASSUME NEW B, NEW s \in Seq(Seq(B)), NEW t \in Seq(Seq(B)), Len(t) = Len(s) + 1,
           \A i \in 1 .. Len(s) : t[i] = s[i]
    PROVE  FlattenSeq(t) = FlattenSeq(s) \o t[Len(t)]
<1> DEFINE n == Len(s)
<1>1. n \in Nat /\ Len(t) = n + 1
  OBVIOUS
<1> DEFINE m == n + 1
<1>2. PICK c : AddsUp(c, t, m)
  <2>1. m \in Nat
    BY <1>1
  <2> HIDE DEF m
  <2> QED
    BY <2>1, SumsThere
<1>3. m \in 1 .. m /\ m - 1 = n /\ m = Len(t) /\ \A i \in 1 .. n : i \in 1 .. m
  BY <1>1
<1> HIDE DEF m
<1>4. /\ c[0] = <<>> /\ c[m] = c[m - 1] \o t[m]
      /\ \A i \in 1 .. n : c[i] = c[i - 1] \o t[i]
  BY <1>2, <1>3 DEF AddsUp
<1>5. AddsUp(c, s, n)
  BY <1>4 DEF AddsUp
<1>6. FlattenSeq(t) = c[m]
  BY <1>2, <1>3, FlatIsSum
<1>7. FlattenSeq(s) = c[n]
  BY <1>5, FlatIsSum
<1> QED
  BY <1>3, <1>4, <1>6, <1>7

------------------------------------------------------------------------------
(* Frames: the parser *)

ByteSet == Nat \X Nat
Sizes == -1 .. MaxPayload

\* The bytes of the frames from the m-th on.
FramesFrom(m) == [k \in 1 .. Len(sizes) - m |-> Bytes(m + k, sizes[m + k])]

\* What is to be read, when so many frames have been taken.
ToRead(bytes, m) == bytes \in Seq(ByteSet) /\ bytes = FlattenSeq(FramesFrom(m))

\* The room a frame takes.
Room(size) == HeaderLen + (IF Sound(size) THEN size ELSE 0)

ParserInv ==
    /\ sizes \in Seq(Sizes) /\ broken \in BOOLEAN /\ Len(parsed) \in 0 .. Len(sizes)
    /\ parsed = [k \in 1 .. Len(parsed) |-> Complete(k)]
    /\ ~broken =>
         /\ buffer \in Seq(ByteSet) /\ unread \in Seq(ByteSet)
         /\ ToRead(buffer \o unread, Len(parsed))
         /\ Len(sizes) > Len(parsed) => Len(buffer) < Room(sizes[Len(parsed) + 1])

LEMMA SizesAre ==
    ASSUME NEW size \in Sizes
    PROVE  /\ size \in Int /\ HeaderLen \in Nat \ {0} /\ MaxPayload \in Nat
           /\ Sound(size) <=> size >= 0
           /\ Room(size) \in Nat /\ Room(size) >= HeaderLen
<1>1. HeaderLen \in Nat \ {0} /\ MaxPayload \in Nat
  BY FrameAssumption
<1>2. size \in Int /\ -1 <= size /\ size <= MaxPayload
  BY <1>1 DEF Sizes
<1> QED
  BY <1>1, <1>2 DEF Sound, Room

LEMMA BytesAre ==
    ASSUME NEW k \in Nat, NEW size \in Sizes
    PROVE  /\ Bytes(k, size) \in Seq(ByteSet) /\ Len(Bytes(k, size)) = Room(size)
           /\ \A i \in 1 .. Room(size) : Bytes(k, size)[i] = <<k, i>>
<1>1. Room(size) \in Nat
  BY SizesAre
<1>2. Bytes(k, size) = [i \in 1 .. Room(size) |-> <<k, i>>]
  BY DEF Bytes, Room
<1> DEFINE r == Room(size)
           w == Bytes(k, size)
<1> HIDE DEF r, w
<1>3. r \in Nat /\ w = [i \in 1 .. r |-> <<k, i>>]
  BY <1>1, <1>2 DEF r, w
<1>4. w \in [1 .. r -> ByteSet]
  BY <1>3 DEF ByteSet
<1>5. w \in Seq(ByteSet)
  BY <1>3, <1>4, SeqDef
<1>6. Len(w) = r
  BY <1>3, <1>5, LenProperties
<1>7. \A i \in 1 .. r : w[i] = <<k, i>>
  BY <1>3
<1> QED
  BY <1>5, <1>6, <1>7 DEF r, w

LEMMA FromSeq ==
    ASSUME sizes \in Seq(Sizes), NEW m \in 0 .. Len(sizes)
    PROVE  /\ FramesFrom(m) \in Seq(Seq(ByteSet)) /\ Len(FramesFrom(m)) = Len(sizes) - m
           /\ \A k \in 1 .. Len(sizes) - m :
                /\ m + k \in 1 .. Len(sizes) /\ sizes[m + k] \in Sizes
                /\ FramesFrom(m)[k] = Bytes(m + k, sizes[m + k])
<1> DEFINE l == Len(sizes) - m
           w == FramesFrom(m)
<1>1. Len(sizes) \in Nat /\ m \in Nat /\ l \in Nat
  OBVIOUS
<1>2. ASSUME NEW k \in 1 .. l
      PROVE  m + k \in 1 .. Len(sizes) /\ m + k \in Nat /\ sizes[m + k] \in Sizes
  <2>1. m + k \in 1 .. Len(sizes) /\ m + k \in Nat
    BY <1>1
  <2> QED
    BY <2>1
<1>3. w = [k \in 1 .. l |-> Bytes(m + k, sizes[m + k])]
  BY DEF FramesFrom
<1> HIDE DEF w, l
<1>4. \A k \in 1 .. l : Bytes(m + k, sizes[m + k]) \in Seq(ByteSet)
  BY <1>2, BytesAre
<1>5. w \in [1 .. l -> Seq(ByteSet)]
  BY <1>3, <1>4
<1>6. w \in Seq(Seq(ByteSet))
  BY <1>1, <1>5, SeqDef
<1>7. Len(w) = l
  BY <1>1, <1>3, <1>6, LenProperties
<1>8. \A k \in 1 .. l : w[k] = Bytes(m + k, sizes[m + k])
  BY <1>3
<1> QED
  BY <1>2, <1>6, <1>7, <1>8 DEF w, l

\* The next frame is in front of the others.
InFront(k, w, m) == w = Bytes(k, sizes[k]) \o FlattenSeq(FramesFrom(m))

LEMMA NextInFront ==
    ASSUME sizes \in Seq(Sizes), NEW m \in 0 .. Len(sizes) - 1
    PROVE  /\ InFront(m + 1, FlattenSeq(FramesFrom(m)), m + 1)
           /\ FlattenSeq(FramesFrom(m + 1)) \in Seq(ByteSet)
<1> DEFINE n == m + 1
           s == FramesFrom(m)
           t == FramesFrom(n)
<1>1. Len(sizes) \in Nat /\ m \in 0 .. Len(sizes) /\ n \in 0 .. Len(sizes) /\ n = m + 1 /\ m \in Nat
  OBVIOUS
<1> HIDE DEF n
<1>2. /\ s \in Seq(Seq(ByteSet)) /\ Len(s) = Len(sizes) - m
      /\ \A k \in 1 .. Len(sizes) - m : s[k] = Bytes(m + k, sizes[m + k])
  BY <1>1, FromSeq
<1>3. /\ t \in Seq(Seq(ByteSet)) /\ Len(t) = Len(sizes) - n
      /\ \A k \in 1 .. Len(sizes) - n : t[k] = Bytes(n + k, sizes[n + k])
  BY <1>1, FromSeq
<1> HIDE DEF s, t
<1>4. Len(s) = Len(t) + 1 /\ 1 \in 1 .. Len(sizes) - m
  BY <1>1, <1>2, <1>3
<1>5. ASSUME NEW k \in 1 .. Len(t) PROVE t[k] = s[k + 1]
  <2> DEFINE j == k + 1
  <2>1. /\ j \in 1 .. Len(sizes) - m /\ m + j = n + k /\ k \in 1 .. Len(sizes) - n
    BY <1>1, <1>3
  <2> HIDE DEF j
  <2>2. s[j] = Bytes(m + j, sizes[m + j]) /\ t[k] = Bytes(n + k, sizes[n + k])
    BY <1>2, <1>3, <2>1
  <2> QED
    BY <2>1, <2>2 DEF j
<1>6. FlattenSeq(s) = s[1] \o FlattenSeq(t)
  BY <1>2, <1>3, <1>4, <1>5, FlatFront
<1>7. s[1] = Bytes(n, sizes[n])
  BY <1>1, <1>2, <1>4
<1>8. FlattenSeq(t) \in Seq(ByteSet)
  BY <1>3, FlatInside
<1> QED
  BY <1>6, <1>7, <1>8 DEF InFront, s, t, n

\* x and u are the same as b and t, cut elsewhere.
CutAlso(x, u, b, t) == x \o u = b \o t

LEMMA CutInPlaces ==
    ASSUME NEW B, NEW x \in Seq(B), NEW u \in Seq(B), NEW b \in Seq(B), NEW t \in Seq(B),
           CutAlso(x, u, b, t)
    PROVE  /\ Len(x) + Len(u) = Len(b) + Len(t)
           /\ \A i \in 1 .. Len(x) : x[i] = IF i <= Len(b) THEN b[i] ELSE t[i - Len(b)]
           /\ \A i \in 1 .. Len(u) :
                Len(x) + i > Len(b) => u[i] = t[Len(x) + i - Len(b)]
<1> DEFINE w == x \o u
<1>1. /\ w \in Seq(B) /\ Len(w) = Len(x) + Len(u)
      /\ \A i \in 1 .. Len(x) + Len(u) : w[i] = IF i <= Len(x) THEN x[i] ELSE u[i - Len(x)]
  BY ConcatProperties
<1>2. /\ Len(w) = Len(b) + Len(t)
      /\ \A i \in 1 .. Len(b) + Len(t) : w[i] = IF i <= Len(b) THEN b[i] ELSE t[i - Len(b)]
  <2> DEFINE v == b \o t
  <2>1. /\ Len(v) = Len(b) + Len(t)
        /\ \A i \in 1 .. Len(b) + Len(t) : v[i] = IF i <= Len(b) THEN b[i] ELSE t[i - Len(b)]
    BY ConcatProperties
  <2>2. w = v
    BY DEF CutAlso
  <2> HIDE DEF v, w
  <2> QED
    BY <2>1, <2>2
<1>3. Len(x) \in Nat /\ Len(u) \in Nat /\ Len(b) \in Nat /\ Len(t) \in Nat
  OBVIOUS
<1> HIDE DEF w
<1>4. ASSUME NEW i \in 1 .. Len(x)
      PROVE  x[i] = IF i <= Len(b) THEN b[i] ELSE t[i - Len(b)]
  <2>1. i \in 1 .. Len(x) + Len(u) /\ i \in 1 .. Len(b) + Len(t) /\ i <= Len(x)
    BY <1>1, <1>2, <1>3
  <2> QED
    BY <1>1, <1>2, <2>1
<1>5. ASSUME NEW i \in 1 .. Len(u), Len(x) + i > Len(b)
      PROVE  u[i] = t[Len(x) + i - Len(b)]
  <2> DEFINE j == Len(x) + i
  <2>1. /\ j \in 1 .. Len(x) + Len(u) /\ j \in 1 .. Len(b) + Len(t)
        /\ ~(j <= Len(x)) /\ ~(j <= Len(b)) /\ j - Len(x) = i
    BY <1>1, <1>2, <1>3, <1>5
  <2> HIDE DEF j
  <2>2. w[j] = u[j - Len(x)] /\ w[j] = t[j - Len(b)]
    BY <1>1, <1>2, <2>1
  <2>3. u[i] = t[j - Len(b)]
    BY <2>1, <2>2
  <2> QED
    BY <2>3 DEF j
<1> QED
  BY <1>1, <1>2, <1>4, <1>5

\* x begins with b.
LEMMA CutBehind ==
    ASSUME NEW B, NEW x \in Seq(B), NEW u \in Seq(B), NEW b \in Seq(B), NEW t \in Seq(B),
           CutAlso(x, u, b, t), Len(b) <= Len(x)
    PROVE  /\ SubSeq(x, 1, Len(b)) = b
           /\ SubSeq(x, Len(b) + 1, Len(x)) \in Seq(B)
           /\ Len(SubSeq(x, Len(b) + 1, Len(x))) = Len(x) - Len(b)
           /\ CutAlso(SubSeq(x, Len(b) + 1, Len(x)), u, <<>>, t)
<1> DEFINE l == Len(b)
           n == Len(x)
           y == SubSeq(x, l + 1, n)
           z == SubSeq(x, 1, l)
<1>1. l \in Nat /\ n \in Nat /\ Len(u) \in Nat /\ Len(t) \in Nat /\ l <= n /\ \A i \in 1 .. n : x[i] \in B
  OBVIOUS
<1>2. /\ n + Len(u) = l + Len(t)
      /\ \A i \in 1 .. n : x[i] = IF i <= l THEN b[i] ELSE t[i - l]
      /\ \A i \in 1 .. Len(u) : n + i > l => u[i] = t[n + i - l]
  BY CutInPlaces
<1>3. z = b
  <2>1. 1 \in Int /\ l \in Int /\ \A i \in 1 .. l : i \in 1 .. n
    BY <1>1
  <2> HIDE DEF n, l
  <2>2. \A i \in 1 .. l : x[i] \in B
    BY <1>1, <2>1
  <2>3. /\ z \in Seq(B) /\ Len(z) = (IF 1 <= l THEN l - 1 + 1 ELSE 0)
        /\ \A i \in 1 .. l - 1 + 1 : z[i] = x[1 + i - 1]
    BY <2>1, <2>2, SubSeqProperties
  <2> HIDE DEF z
  <2>4. Len(z) = l /\ l - 1 + 1 = l
    BY <1>1, <2>3
  <2>5. ASSUME NEW i \in 1 .. l PROVE z[i] = b[i]
    <3>1. i \in 1 .. l - 1 + 1 /\ 1 + i - 1 = i /\ i \in 1 .. n /\ i <= l
      BY <1>1
    <3>2. z[i] = x[i]
      BY <2>3, <3>1
    <3> QED
      BY <1>2, <3>1, <3>2
  <2>6. Len(b) = l
    BY DEF l
  <2> QED
    BY <2>3, <2>4, <2>5, <2>6, SeqEqual
<1>4. y \in Seq(B) /\ Len(y) = n - l /\ \A i \in 1 .. n - l : y[i] = x[l + i]
  <2> DEFINE k == l + 1
  <2>1. k \in Int /\ n \in Int /\ k = l + 1 /\ \A i \in k .. n : i \in 1 .. n
    BY <1>1
  <2> HIDE DEF n, k
  <2>2. \A i \in k .. n : x[i] \in B
    BY <1>1, <2>1
  <2>3. /\ SubSeq(x, k, n) \in Seq(B) /\ Len(SubSeq(x, k, n)) = (IF k <= n THEN n - k + 1 ELSE 0)
        /\ \A i \in 1 .. n - k + 1 : SubSeq(x, k, n)[i] = x[k + i - 1]
    BY <2>1, <2>2, SubSeqProperties
  <2>4. y = SubSeq(x, k, n)
    BY DEF k
  <2> HIDE DEF y
  <2>5. n - k + 1 = n - l /\ (IF k <= n THEN n - k + 1 ELSE 0) = n - l
    BY <1>1, <2>1
  <2>6. ASSUME NEW i \in 1 .. n - l PROVE y[i] = x[l + i]
    <3>1. i \in 1 .. n - k + 1 /\ k + i - 1 = l + i
      BY <1>1, <2>1
    <3> QED
      BY <2>3, <2>4, <3>1
  <2> QED
    BY <2>3, <2>4, <2>5, <2>6
<1> HIDE DEF y, l, n
<1>5. y \o u = t
  <2> DEFINE w == y \o u
  <2>1. /\ w \in Seq(B) /\ Len(w) = Len(y) + Len(u)
        /\ \A i \in 1 .. Len(y) + Len(u) : w[i] = IF i <= Len(y) THEN y[i] ELSE u[i - Len(y)]
    BY <1>4, ConcatProperties
  <2> HIDE DEF w
  <2>2. Len(w) = Len(t)
    BY <1>1, <1>2, <1>4, <2>1
  <2>3. ASSUME NEW i \in 1 .. Len(w) PROVE w[i] = t[i]
    <3>1. CASE i <= Len(y)
      <4> DEFINE j == l + i
      <4>1. i \in 1 .. n - l /\ i \in 1 .. Len(y) + Len(u) /\ j \in 1 .. n /\ ~(j <= l) /\ j - l = i
        BY <1>1, <1>4, <2>1, <3>1
      <4>2. w[i] = y[i] /\ y[i] = x[j]
        BY <1>4, <2>1, <3>1, <4>1
      <4> HIDE DEF j
      <4>3. x[j] = t[j - l]
        BY <1>2, <4>1
      <4> QED
        BY <4>1, <4>2, <4>3
    <3>2. CASE ~(i <= Len(y))
      <4> DEFINE j == i - Len(y)
      <4>1. j \in 1 .. Len(u) /\ i \in 1 .. Len(y) + Len(u) /\ n + j > l /\ n + j - l = i
        BY <1>1, <1>4, <2>1, <3>2
      <4>2. w[i] = u[j]
        BY <2>1, <3>2, <4>1
      <4> HIDE DEF j
      <4>3. u[j] = t[n + j - l]
        BY <1>2, <4>1
      <4> QED
        BY <4>1, <4>2, <4>3
    <3> QED
      BY <3>1, <3>2
  <2>4. w = t
    BY <2>1, <2>2, <2>3, SeqEqual
  <2> QED
    BY <2>4 DEF w
<1>6. <<>> \o t = t
  BY ConcatEmptySeq
<1> QED
  BY <1>3, <1>4, <1>5, <1>6 DEF CutAlso, y, z, l, n

\* What a header at the head of the bytes says, and what is behind the frame.
LEMMA HeadFrame ==
    ASSUME sizes \in Seq(Sizes), NEW m \in 0 .. Len(sizes), NEW rest \in Seq(ByteSet),
           NEW u \in Seq(ByteSet), ToRead(rest \o u, m), HasHeader(rest)
    PROVE  /\ m + 1 \in 1 .. Len(sizes) /\ sizes[m + 1] \in Sizes
           /\ Declared(rest) = sizes[m + 1]
           /\ Sound(sizes[m + 1]) /\ HeaderLen + sizes[m + 1] <= Len(rest) =>
                LET end == HeaderLen + sizes[m + 1]
                    more == SubSeq(rest, end + 1, Len(rest))
                IN /\ SubSeq(rest, 1, end) = Complete(m + 1)
                   /\ SubSeq(rest, 1, end) \in Seq(ByteSet)
                   /\ more \in Seq(ByteSet) /\ Len(more) < Len(rest)
                   /\ ToRead(more \o u, m + 1)
<1> DEFINE n == m + 1
           size == sizes[n]
           b == Bytes(n, size)
           t == FlattenSeq(FramesFrom(n))
<1>1. Len(sizes) \in Nat /\ m \in Nat /\ Len(rest) \in Nat /\ Len(u) \in Nat
  OBVIOUS
<1>2. HeaderLen \in Nat \ {0} /\ Len(rest) >= HeaderLen
  BY FrameAssumption DEF HasHeader
<1>3. m # Len(sizes)
  <2> SUFFICES ASSUME m = Len(sizes) PROVE FALSE
    OBVIOUS
  <2>1. Len(sizes) - m = 0
    BY <1>1
  <2>2. FramesFrom(m) = <<>>
    <3> DEFINE w == FramesFrom(m)
    <3>1. w \in Seq(Seq(ByteSet)) /\ Len(w) = 0
      BY <2>1, FromSeq
    <3> HIDE DEF w
    <3>2. w = <<>>
      BY <3>1
    <3> QED
      BY <3>2 DEF w
  <2>3. rest \o u = <<>>
    BY <2>2, FlatOfNone DEF ToRead
  <2>4. Len(rest \o u) = Len(rest) + Len(u)
    BY ConcatProperties
  <2> QED
    BY <1>1, <1>2, <2>3, <2>4
<1>4. n \in 1 .. Len(sizes) /\ n \in Nat /\ m \in 0 .. Len(sizes) - 1
  BY <1>1, <1>3
<1>5. size \in Sizes
  BY <1>4
<1>6. t \in Seq(ByteSet) /\ CutAlso(rest, u, b, t)
  BY <1>4, NextInFront DEF InFront, ToRead, CutAlso
<1> HIDE DEF n, size
<1>7. /\ b \in Seq(ByteSet) /\ Len(b) = Room(size) /\ Room(size) \in Nat /\ Room(size) >= HeaderLen
      /\ \A i \in 1 .. Room(size) : b[i] = <<n, i>>
      /\ size \in Int
  BY <1>4, <1>5, BytesAre, SizesAre
<1> HIDE DEF b, t
<1>8. \A i \in 1 .. HeaderLen : rest[i] = <<n, i>>
  <2>1. \A i \in 1 .. Len(rest) : rest[i] = IF i <= Len(b) THEN b[i] ELSE t[i - Len(b)]
    BY <1>6, <1>7, CutInPlaces
  <2> TAKE i \in 1 .. HeaderLen
  <2>2. i \in 1 .. Len(rest) /\ i <= Len(b) /\ i \in 1 .. Room(size)
    BY <1>1, <1>2, <1>7
  <2> QED
    BY <1>7, <2>1, <2>2
<1>9. Declared(rest) = size
  <2>1. rest[1] = <<n, 1>> /\ rest[HeaderLen] = <<n, HeaderLen>>
    BY <1>2, <1>8
  <2>2. rest[1][1] = n
    BY <2>1
  <2> QED
    BY <2>1, <2>2 DEF Declared, size
<1>10. ASSUME Sound(size), HeaderLen + size <= Len(rest)
       PROVE  LET end == HeaderLen + size
                  more == SubSeq(rest, end + 1, Len(rest))
              IN /\ SubSeq(rest, 1, end) = Complete(n)
                 /\ SubSeq(rest, 1, end) \in Seq(ByteSet)
                 /\ more \in Seq(ByteSet) /\ Len(more) < Len(rest)
                 /\ ToRead(more \o u, n)
  <2> DEFINE end == HeaderLen + size
             more == SubSeq(rest, end + 1, Len(rest))
  <2>1. Len(b) = end
    BY <1>7, <1>10 DEF Room
  <2>2. /\ SubSeq(rest, 1, Len(b)) = b
        /\ SubSeq(rest, Len(b) + 1, Len(rest)) \in Seq(ByteSet)
        /\ Len(SubSeq(rest, Len(b) + 1, Len(rest))) = Len(rest) - Len(b)
        /\ CutAlso(SubSeq(rest, Len(b) + 1, Len(rest)), u, <<>>, t)
    BY <1>6, <1>7, <1>10, <2>1, CutBehind
  <2>3. /\ SubSeq(rest, 1, end) = b /\ more \in Seq(ByteSet)
        /\ Len(more) = Len(rest) - end /\ CutAlso(more, u, <<>>, t)
    BY <2>1, <2>2
  <2>4. b = Complete(n)
    BY <1>10 DEF b, Bytes, Complete, size
  <2>5. end \in Nat \ {0}
    BY <1>2, <1>7, <2>1
  <2> HIDE DEF end
  <2>6. Len(more) < Len(rest)
    BY <1>1, <2>3, <2>5
  <2> HIDE DEF more
  <2>7. <<>> \o t = t
    BY <1>6, ConcatEmptySeq
  <2>8. ToRead(more \o u, n)
    BY <1>6, <2>3, <2>7 DEF ToRead, CutAlso, t
  <2> QED
    BY <1>7, <2>3, <2>4, <2>6, <2>8 DEF more, end
<1> QED
  BY <1>4, <1>5, <1>9, <1>10 DEF n, size

\* What the loop has after some of its turns: frames that are whole and the m-th on, and bytes
\* with the others at their head.
Taken(o, m, u) ==
    /\ o = Outcome(o.ok, o.frames, o.rest)
    /\ o.ok \in BOOLEAN /\ o.frames \in Seq(Seq(ByteSet)) /\ o.rest \in Seq(ByteSet)
    /\ o.ok =>
         /\ m + Len(o.frames) <= Len(sizes)
         /\ \A k \in 1 .. Len(o.frames) : o.frames[k] = Complete(m + k)
         /\ ToRead(o.rest \o u, m + Len(o.frames))

\* Nothing more can be taken.
Stuck(o) ==
    o.ok => \/ ~HasHeader(o.rest)
            \/ Sound(Declared(o.rest)) /\ Len(o.rest) < HeaderLen + Declared(o.rest)

LEMMA NextTaken ==
    ASSUME sizes \in Seq(Sizes), NEW m \in 0 .. Len(sizes), NEW u \in Seq(ByteSet),
           NEW o, Taken(o, m, u)
    PROVE  /\ Taken(NextFrame(o), m, u)
           /\ Stuck(o) => NextFrame(o) = o
           /\ Stuck(NextFrame(o)) \/ Len(NextFrame(o).rest) < Len(o.rest)
<1> DEFINE frames == o.frames
           rest == o.rest
           q == m + Len(frames)
           size == sizes[q + 1]
           end == HeaderLen + size
           more == SubSeq(rest, end + 1, Len(rest))
           frame == SubSeq(rest, 1, end)
<1>1. /\ o = Outcome(o.ok, frames, rest) /\ o.ok \in BOOLEAN
      /\ frames \in Seq(Seq(ByteSet)) /\ rest \in Seq(ByteSet)
  BY DEF Taken
<1>2. Len(frames) \in Nat /\ Len(rest) \in Nat /\ m \in Nat /\ Len(sizes) \in Nat
  BY <1>1
<1>3. CASE ~o.ok \/ ~HasHeader(rest)
  <2>1. NextFrame(o) = o /\ Stuck(o)
    BY <1>3 DEF NextFrame, Stuck
  <2> QED
    BY <2>1
<1>4. CASE o.ok /\ HasHeader(rest)
  <2>1. /\ q \in 0 .. Len(sizes) /\ ToRead(rest \o u, q)
        /\ \A k \in 1 .. Len(frames) : frames[k] = Complete(m + k)
    <3>1. m + Len(frames) <= Len(sizes)
      BY <1>4 DEF Taken
    <3>2. \A k \in 1 .. Len(frames) : frames[k] = Complete(m + k)
      BY <1>4 DEF Taken
    <3>3. ToRead(rest \o u, q)
      BY <1>4 DEF Taken
    <3>4. q \in 0 .. Len(sizes)
      BY <1>2, <3>1
    <3> QED
      BY <3>2, <3>3, <3>4
  <2>2. /\ q + 1 \in 1 .. Len(sizes) /\ size \in Sizes
        /\ Declared(rest) = size
        /\ Sound(size) /\ end <= Len(rest) =>
             /\ frame = Complete(q + 1) /\ frame \in Seq(ByteSet)
             /\ more \in Seq(ByteSet) /\ Len(more) < Len(rest)
             /\ ToRead(more \o u, q + 1)
    <3> HIDE DEF q, rest
    <3> QED
      BY <1>1, <1>4, <2>1, HeadFrame
  <2>3. HeaderLen \in Nat \ {0} /\ size \in Int
    BY <2>2, SizesAre
  <2>4. CASE ~Sound(size)
    <3>1. NextFrame(o) = [o EXCEPT !.ok = FALSE]
      BY <1>4, <2>2, <2>4 DEF NextFrame
    <3>2. NextFrame(o) = Outcome(FALSE, frames, rest)
      BY <1>1, <3>1 DEF Outcome
    <3>3. ~Stuck(o) /\ Stuck(NextFrame(o))
      BY <1>4, <2>2, <2>4, <3>2 DEF Stuck, Outcome
    <3>4. Taken(NextFrame(o), m, u)
      BY <1>1, <3>2 DEF Taken, Outcome
    <3> QED
      BY <3>3, <3>4
  <2>5. CASE Sound(size) /\ Len(rest) < end
    <3>1. NextFrame(o) = o
      BY <1>4, <2>2, <2>5 DEF NextFrame
    <3>2. Stuck(o)
      BY <1>4, <2>2, <2>5 DEF Stuck
    <3> QED
      BY <3>1, <3>2
  <2>6. CASE Sound(size) /\ ~(Len(rest) < end)
    <3> DEFINE a == Append(frames, frame)
    <3>1. NextFrame(o) = Outcome(TRUE, a, more)
      BY <1>4, <2>2, <2>6 DEF NextFrame
    <3>2. end <= Len(rest)
      BY <1>2, <2>3, <2>6
    <3>3. /\ frame = Complete(q + 1) /\ frame \in Seq(ByteSet)
          /\ more \in Seq(ByteSet) /\ Len(more) < Len(rest) /\ ToRead(more \o u, q + 1)
      BY <2>2, <2>6, <3>2
    <3> HIDE DEF end, frame, more
    <3>4. /\ a \in Seq(Seq(ByteSet)) /\ Len(a) = Len(frames) + 1 /\ a[Len(frames) + 1] = frame
          /\ \A k \in 1 .. Len(frames) : a[k] = frames[k]
      <4> DEFINE X == Seq(ByteSet)
      <4> HIDE DEF X, frames
      <4>1. frames \in Seq(X) /\ frame \in X
        BY <1>1, <3>3 DEF X
      <4>2. /\ a \in Seq(X) /\ Len(a) = Len(frames) + 1 /\ a[Len(frames) + 1] = frame
            /\ \A k \in 1 .. Len(frames) : a[k] = frames[k]
        BY <4>1, AppendProperties
      <4> QED
        BY <4>2 DEF X
    <3> HIDE DEF a
    <3>5. m + Len(a) = q + 1 /\ m + Len(a) <= Len(sizes)
      BY <1>2, <2>2, <3>4
    <3>6. ASSUME NEW k \in 1 .. Len(a) PROVE a[k] = Complete(m + k)
      <4>1. CASE k \in 1 .. Len(frames)
        BY <2>1, <3>4, <4>1
      <4>2. CASE k = Len(frames) + 1
        <5>1. m + k = q + 1
          BY <1>2, <4>2
        <5> QED
          BY <3>3, <3>4, <4>2, <5>1
      <4>3. k \in 1 .. Len(frames) + 1 /\ Len(frames) \in Nat
        <5>1. Len(a) = Len(frames) + 1 /\ k \in 1 .. Len(a)
          BY <3>4, <3>6
        <5>2. Len(frames) \in Nat
          BY <1>2
        <5> QED
          BY <5>1, <5>2
      <4>4. k \in 1 .. Len(frames) \/ k = Len(frames) + 1
        BY <4>3
      <4> QED
        BY <4>1, <4>2, <4>4
    <3>7. ToRead(more \o u, m + Len(a))
      BY <3>3, <3>5
    <3> DEFINE p == NextFrame(o)
    <3>8. p.ok = TRUE /\ p.frames = a /\ p.rest = more /\ p = Outcome(TRUE, a, more)
      BY <3>1 DEF Outcome
    <3> HIDE DEF p
    <3>9. Taken(p, m, u)
      BY <3>3, <3>4, <3>5, <3>6, <3>7, <3>8 DEF Taken
    <3>10. ~Stuck(o)
      BY <1>2, <1>4, <2>2, <2>3, <2>6, <3>2 DEF Stuck, end
    <3> QED
      BY <3>3, <3>8, <3>9, <3>10 DEF p
  <2> QED
    BY <2>4, <2>5, <2>6
<1> QED
  BY <1>1, <1>3, <1>4

AfterIter(bytes, f) ==
    f = [n \in 0 .. Len(bytes) |->
           IF n = 0 THEN Outcome(TRUE, <<>>, bytes) ELSE NextFrame(f[n - 1])]

\* f has what the loop has after each of its first n turns.
Turns(f, n, bytes) ==
    f[0] = Outcome(TRUE, <<>>, bytes) /\ \A i \in 1 .. n : f[i] = NextFrame(f[i - 1])

LEMMA TurnsThere ==
    ASSUME NEW bytes, NEW n \in Nat
    PROVE  \E f : Turns(f, n, bytes)
<1> DEFINE S == {k \in 0 .. n : \E f : Turns(f, k, bytes)}
<1>1. 0 \in S
  <2> DEFINE f == [i \in {0} |-> Outcome(TRUE, <<>>, bytes)]
  <2>1. f[0] = Outcome(TRUE, <<>>, bytes)
    OBVIOUS
  <2> HIDE DEF f
  <2>2. Turns(f, 0, bytes)
    BY <2>1 DEF Turns
  <2> QED
    BY <2>2
<1>2. ASSUME NEW k \in 1 .. n, k - 1 \in S PROVE k \in S
  <2>1. PICK f : Turns(f, k - 1, bytes)
    BY <1>2
  <2> DEFINE g == [i \in 0 .. k |-> IF i = k THEN NextFrame(f[k - 1]) ELSE f[i]]
  <2>2. /\ g[k] = NextFrame(f[k - 1])
        /\ \A i \in 0 .. k - 1 : g[i] = f[i]
    OBVIOUS
  <2> HIDE DEF g
  <2>3. g[0] = Outcome(TRUE, <<>>, bytes)
    <3>1. 0 \in 0 .. k - 1
      OBVIOUS
    <3> QED
      BY <2>1, <2>2, <3>1 DEF Turns
  <2>4. ASSUME NEW i \in 1 .. k PROVE g[i] = NextFrame(g[i - 1])
    <3>1. CASE i = k
      <4>1. i - 1 \in 0 .. k - 1 /\ i - 1 = k - 1
        BY <3>1
      <4>2. g[i - 1] = f[k - 1]
        BY <2>2, <4>1
      <4> QED
        BY <2>2, <3>1, <4>2
    <3>2. CASE i # k
      <4>1. i \in 1 .. k - 1 /\ i \in 0 .. k - 1 /\ i - 1 \in 0 .. k - 1
        BY <3>2
      <4>2. f[i] = NextFrame(f[i - 1])
        BY <2>1, <4>1 DEF Turns
      <4> QED
        BY <2>2, <4>1, <4>2
    <3> QED
      BY <3>1, <3>2
  <2>5. Turns(g, k, bytes)
    BY <2>3, <2>4 DEF Turns
  <2> QED
    BY <2>5
<1> HIDE DEF S
<1>3. \A k \in 0 .. n : k \in S
  BY <1>1, <1>2, EveryPosition
<1> QED
  BY <1>3 DEF S

\* What is parsed is what the last of the turns has.
LEMMA FramesAreTurns ==
    ASSUME NEW bytes, Len(bytes) \in Nat
    PROVE  \E f : Turns(f, Len(bytes), bytes) /\ Frames(bytes) = f[Len(bytes)]
<1> DEFINE n == Len(bytes)
<1>1. Frames(bytes) = (CHOOSE f : AfterIter(bytes, f))[Len(bytes)]
  BY Zenon DEF Frames, AfterIter
<1>2. PICK g : Turns(g, n, bytes)
  BY TurnsThere
<1> DEFINE h == [i \in 0 .. n |-> g[i]]
<1>3. AfterIter(bytes, h)
  <2>1. ASSUME NEW i \in 0 .. n
        PROVE  g[i] = IF i = 0 THEN Outcome(TRUE, <<>>, bytes) ELSE NextFrame(h[i - 1])
    <3>1. CASE i = 0
      BY <1>2, <3>1 DEF Turns
    <3>2. CASE i # 0
      <4>1. i \in 1 .. n /\ i - 1 \in 0 .. n
        BY <3>2
      <4> QED
        BY <1>2, <3>2, <4>1 DEF Turns
    <3> QED
      BY <3>1, <3>2
  <2> QED
    BY <2>1 DEF AfterIter
<1> HIDE DEF h
<1>4. PICK f : AfterIter(bytes, f) /\ Frames(bytes) = f[Len(bytes)]
  BY <1>1, <1>3
<1>5. \A i \in 0 .. n : f[i] = IF i = 0 THEN Outcome(TRUE, <<>>, bytes) ELSE NextFrame(f[i - 1])
  <2>1. f = [i \in 0 .. n |-> IF i = 0 THEN Outcome(TRUE, <<>>, bytes) ELSE NextFrame(f[i - 1])]
    BY <1>4 DEF AfterIter
  <2> QED
    BY <2>1
<1>6. Turns(f, n, bytes)
  <2>1. 0 \in 0 .. n /\ \A i \in 1 .. n : i \in 0 .. n /\ i # 0
    OBVIOUS
  <2> HIDE DEF n
  <2> QED
    BY <1>5, <2>1 DEF Turns
<1> QED
  BY <1>4, <1>6

LEMMA FramesTaken ==
    ASSUME sizes \in Seq(Sizes), NEW m \in 0 .. Len(sizes), NEW bytes \in Seq(ByteSet),
           NEW u \in Seq(ByteSet), ToRead(bytes \o u, m)
    PROVE  Taken(Frames(bytes), m, u) /\ Stuck(Frames(bytes))
<1> DEFINE n == Len(bytes)
<1>1. n \in Nat /\ HeaderLen \in Nat \ {0}
  BY FrameAssumption
<1>2. PICK f : Turns(f, n, bytes) /\ Frames(bytes) = f[n]
  BY <1>1, FramesAreTurns
<1>3. f[0] = Outcome(TRUE, <<>>, bytes) /\ \A i \in 1 .. n : f[i] = NextFrame(f[i - 1])
  BY <1>2 DEF Turns
<1> DEFINE Left(i) == Stuck(f[i]) \/ Len(f[i].rest) <= n - i
           S == {i \in 0 .. n : Taken(f[i], m, u) /\ Left(i)}
<1>4. 0 \in S
  <2>1. f[0].ok = TRUE /\ f[0].frames = <<>> /\ f[0].rest = bytes
    BY <1>3 DEF Outcome
  <2>2. Len(<<>>) = 0 /\ <<>> \in Seq(Seq(ByteSet)) /\ m + 0 = m /\ m <= Len(sizes) /\ 1 .. 0 = {}
    BY EmptySeq
  <2>3. Taken(f[0], m, u)
    BY <1>3, <2>1, <2>2 DEF Taken
  <2>4. Left(0)
    BY <1>1, <2>1
  <2>5. 0 \in 0 .. n
    BY <1>1
  <2> HIDE DEF n, Left
  <2> QED
    BY <2>3, <2>4, <2>5
<1> HIDE DEF n
<1>5. ASSUME NEW i \in 1 .. n, i - 1 \in S PROVE i \in S
  <2> DEFINE o == f[i - 1]
             p == NextFrame(o)
  <2>1. Taken(o, m, u) /\ (Stuck(o) \/ Len(o.rest) <= n - (i - 1))
    BY <1>5
  <2>2. f[i] = p
    BY <1>3
  <2> HIDE DEF o
  <2>3. /\ Taken(p, m, u) /\ (Stuck(o) => p = o)
        /\ Stuck(p) \/ Len(p.rest) < Len(o.rest)
    BY <2>1, NextTaken
  <2> HIDE DEF p
  <2>4. Len(p.rest) \in Nat /\ Len(o.rest) \in Nat
    <3>1. p.rest \in Seq(ByteSet) /\ o.rest \in Seq(ByteSet)
      BY <2>1, <2>3 DEF Taken
    <3> QED
      BY <3>1
  <2>5. Stuck(p) \/ Len(p.rest) <= n - i
    BY <1>1, <2>1, <2>3, <2>4
  <2>6. i \in 0 .. n
    BY <1>1
  <2> QED
    BY <2>2, <2>3, <2>5, <2>6
<1> HIDE DEF S
<1>6. \A i \in 0 .. n : i \in S
  BY <1>1, <1>4, <1>5, EveryPosition
<1>7. n \in S
  BY <1>1, <1>6
<1>8. Taken(f[n], m, u) /\ (Stuck(f[n]) \/ Len(f[n].rest) <= n - n)
  BY <1>7 DEF S
<1>9. Stuck(f[n])
  <2>1. f[n].rest \in Seq(ByteSet)
    BY <1>8 DEF Taken
  <2>2. Len(f[n].rest) \in Nat
    BY <2>1
  <2>3. CASE Len(f[n].rest) <= n - n
    <3>1. ~HasHeader(f[n].rest)
      BY <1>1, <2>2, <2>3 DEF HasHeader
    <3> QED
      BY <3>1 DEF Stuck
  <2> QED
    BY <1>8, <2>3
<1> QED
  BY <1>2, <1>8, <1>9

LEMMA ParserInitInv == ParserInit => ParserInv
<1> SUFFICES ASSUME ParserInit
             PROVE  ParserInv
  OBVIOUS
<1>1. Len(<<>>) = 0 /\ 1 .. 0 = {}
  OBVIOUS
<1>2. /\ sizes \in Seq(Sizes) /\ buffer \in Seq(ByteSet) /\ unread \in Seq(ByteSet)
      /\ Len(sizes) = 0 /\ Len(parsed) = 0 /\ broken \in BOOLEAN
  BY EmptySeq, <1>1 DEF ParserInit
<1>3. parsed = [k \in 1 .. Len(parsed) |-> Complete(k)]
  <2>1. [k \in 1 .. 0 |-> Complete(k)] = <<>>
    BY <1>1
  <2> QED
    BY <1>2, <2>1 DEF ParserInit
<1>4. ToRead(buffer \o unread, Len(parsed))
  <2> DEFINE w == FramesFrom(0)
  <2>1. w \in Seq(Seq(ByteSet)) /\ Len(w) = 0
    BY <1>2, FromSeq
  <2> HIDE DEF w
  <2>2. w = <<>>
    BY <2>1
  <2>3. FlattenSeq(w) = <<>>
    BY <2>2, FlatOfNone
  <2>4. buffer \o unread = <<>> /\ <<>> \in Seq(ByteSet)
    <3>1. <<>> \in Seq(ByteSet)
      BY EmptySeq
    <3> QED
      BY <3>1, ConcatEmptySeq DEF ParserInit
  <2> QED
    BY <1>2, <2>3, <2>4 DEF ToRead, w
<1> QED
  BY <1>2, <1>3, <1>4 DEF ParserInv

LEMMA SendFrameInv ==
    ASSUME ParserInv, NEW size \in Sizes, SendFrame(size)
    PROVE  ParserInv'
<1> DEFINE n == Len(sizes)
           m == Len(parsed)
           b == Bytes(n + 1, size)
           s == FramesFrom(m)
           t == FramesFrom(m)'
<1>1. /\ sizes \in Seq(Sizes) /\ broken \in BOOLEAN /\ n \in Nat /\ m \in 0 .. n
      /\ parsed = [k \in 1 .. m |-> Complete(k)]
  BY DEF ParserInv
<1>2. /\ sizes' = Append(sizes, size) /\ unread' = unread \o Bytes(Len(sizes'), size)
      /\ UNCHANGED <<buffer, parsed, broken>>
  BY DEF SendFrame
<1>3. /\ sizes' \in Seq(Sizes) /\ Len(sizes') = n + 1 /\ sizes'[n + 1] = size
      /\ \A k \in 1 .. n : sizes'[k] = sizes[k]
  BY <1>1, <1>2, AppendProperties
<1>4. m \in 0 .. n + 1 /\ m' = m
  BY <1>1, <1>2
<1>5. parsed' = [k \in 1 .. m |-> Complete(k)']
  <2>1. ASSUME NEW k \in 1 .. m PROVE Complete(k)' = Complete(k)
    <3>1. k \in 1 .. n
      BY <1>1
    <3> QED
      BY <1>3, <3>1 DEF Complete
  <2> QED
    BY <1>1, <1>2, <2>1
<1>6. ASSUME ~broken
      PROVE  /\ buffer' \in Seq(ByteSet) /\ unread' \in Seq(ByteSet)
             /\ ToRead(buffer \o unread, m)'
             /\ n + 1 > m => Len(buffer) < Room(sizes'[m + 1])
  <2>1. /\ buffer \in Seq(ByteSet) /\ unread \in Seq(ByteSet) /\ ToRead(buffer \o unread, m)
        /\ n > m => Len(buffer) < Room(sizes[m + 1])
    BY <1>6 DEF ParserInv
  <2>2. b \in Seq(ByteSet) /\ n + 1 \in Nat
    BY <1>1, BytesAre
  <2>3. unread' = unread \o b
    BY <1>2, <1>3
  <2>4. /\ s \in Seq(Seq(ByteSet)) /\ Len(s) = n - m
        /\ \A k \in 1 .. n - m : m + k \in 1 .. n /\ s[k] = Bytes(m + k, sizes[m + k])
    BY <1>1, FromSeq
  <2>5. /\ t \in Seq(Seq(ByteSet)) /\ Len(t) = n + 1 - m
        /\ \A k \in 1 .. n + 1 - m : t[k] = Bytes(m + k, sizes'[m + k])
    <3> DEFINE w == [k \in 1 .. n + 1 - m |-> Bytes(m + k, sizes'[m + k])]
               l == n + 1 - m
    <3>1. t = w
      BY <1>2, <1>3 DEF FramesFrom, Bytes, Sound
    <3>2. l \in Nat /\ \A k \in 1 .. l : m + k \in 1 .. n + 1 /\ m + k \in Nat
      BY <1>1
    <3>3. \A k \in 1 .. l : Bytes(m + k, sizes'[m + k]) \in Seq(ByteSet)
      <4> TAKE k \in 1 .. l
      <4> DEFINE j == m + k
      <4>1. j \in 1 .. n + 1 /\ j \in Nat
        BY <3>2
      <4> HIDE DEF j
      <4>2. sizes'[j] \in Sizes
        BY <1>3, <4>1
      <4>3. Bytes(j, sizes'[j]) \in Seq(ByteSet)
        BY <4>1, <4>2, BytesAre
      <4> QED
        BY <4>3 DEF j
    <3>4. w \in [1 .. l -> Seq(ByteSet)]
      BY <3>3
    <3>5. \A k \in 1 .. l : w[k] = Bytes(m + k, sizes'[m + k])
      OBVIOUS
    <3>6. l = n + 1 - m
      OBVIOUS
    <3> HIDE DEF t, w, l
    <3>7. w \in Seq(Seq(ByteSet))
      BY <3>2, <3>4, SeqDef
    <3>8. DOMAIN w = 1 .. l
      BY <3>4
    <3>9. Len(w) = l
      BY <3>2, <3>7, <3>8, LenProperties
    <3> QED
      BY <3>1, <3>5, <3>6, <3>7, <3>9
  <2> HIDE DEF s, t
  <2>6. Len(t) = Len(s) + 1
    BY <1>1, <2>4, <2>5
  <2>7. ASSUME NEW k \in 1 .. Len(s) PROVE t[k] = s[k]
    <3> DEFINE j == m + k
    <3>1. k \in 1 .. n - m /\ k \in 1 .. n + 1 - m
      BY <1>1, <2>4
    <3>2. j \in 1 .. n /\ s[k] = Bytes(j, sizes[j]) /\ t[k] = Bytes(j, sizes'[j])
      BY <2>4, <2>5, <3>1
    <3> HIDE DEF j
    <3>3. sizes'[j] = sizes[j]
      BY <1>3, <3>2
    <3> QED
      BY <3>2, <3>3
  <2>8. t[Len(t)] = b
    <3>1. Len(t) \in 1 .. n + 1 - m /\ m + Len(t) = n + 1
      BY <1>1, <2>5
    <3>2. t[Len(t)] = Bytes(m + Len(t), sizes'[m + Len(t)])
      BY <2>5, <3>1
    <3> QED
      BY <1>3, <3>1, <3>2
  <2>9. FlattenSeq(t) = FlattenSeq(s) \o t[Len(t)]
    BY <2>4, <2>5, <2>6, <2>7, FlatAppend
  <2>10. FlattenSeq(s) = buffer \o unread
    BY <2>1 DEF ToRead, s
  <2> HIDE DEF b
  <2>11. JoinsInside(buffer, unread, b)
    BY <2>1, <2>2, JoinedToConcat
  <2>12. buffer' \o unread' = FlattenSeq(t)
    BY <1>2, <2>3, <2>8, <2>9, <2>10, <2>11 DEF JoinsInside
  <2>13. unread' \in Seq(ByteSet) /\ buffer' \o unread' \in Seq(ByteSet)
    <3>1. unread' \in Seq(ByteSet)
      BY <2>1, <2>2, <2>3, ConcatProperties
    <3>2. buffer' = buffer
      BY <1>2
    <3> QED
      BY <2>1, <3>1, <3>2, ConcatProperties
  <2>14. n + 1 > m => Len(buffer) < Room(sizes'[m + 1])
    <3>1. CASE n > m
      <4>1. m + 1 \in 1 .. n
        BY <1>1, <3>1
      <4> QED
        BY <1>3, <2>1, <3>1, <4>1
    <3>2. CASE ~(n > m)
      <4>0. n \in Nat /\ m \in 0 .. n
        BY <1>1
      <4>00. Len(s) = n - m
        BY <2>4
      <4>1. m = n /\ Len(s) = 0
        <5> HIDE DEF n, m, s
        <5> QED
          BY <3>2, <4>0, <4>00
      <4>2. s = <<>>
        BY <2>4, <4>1
      <4>3. buffer \o unread = <<>>
        BY <2>10, <4>2, FlatOfNone
      <4>4. Len(buffer \o unread) = Len(buffer) + Len(unread) /\ Len(buffer) \in Nat /\ Len(unread) \in Nat
        BY <2>1, ConcatProperties
      <4>5. Len(buffer) = 0
        BY <4>3, <4>4
      <4>6. Room(size) >= HeaderLen /\ HeaderLen \in Nat \ {0} /\ Room(size) \in Nat
        BY SizesAre
      <4> QED
        BY <1>3, <4>1, <4>5, <4>6
    <3> QED
      BY <3>1, <3>2
  <2>15. ToRead(buffer \o unread, m)'
    BY <2>12, <2>13, <1>4 DEF ToRead, t
  <2> QED
    BY <1>2, <2>1, <2>13, <2>14, <2>15
<1> QED
  <2>1. m' \in 0 .. Len(sizes') /\ broken' \in BOOLEAN
    BY <1>1, <1>2, <1>3, <1>4
  <2>2. parsed' = [k \in 1 .. Len(parsed') |-> Complete(k)']
    BY <1>4, <1>5
  <2>3. ~broken' =>
          /\ buffer' \in Seq(ByteSet) /\ unread' \in Seq(ByteSet)
          /\ ToRead(buffer \o unread, Len(parsed))'
          /\ Len(sizes') > Len(parsed') => Len(buffer') < Room(sizes'[Len(parsed') + 1])
    BY <1>2, <1>3, <1>4, <1>6
  <2> QED
    BY <1>3, <2>1, <2>2, <2>3 DEF ParserInv, Room, Sound

LEMMA FeedInv ==
    ASSUME ParserInv, NEW n \in 1 .. Len(unread), Feed(n)
    PROVE  ParserInv'
<1> DEFINE m == Len(parsed)
           some == SubSeq(unread, 1, n)
           u == SubSeq(unread, n + 1, Len(unread))
           bytes == buffer \o some
           out == Frames(bytes)
<1>1. /\ ~broken /\ unread' = u /\ broken' = ~out.ok
      /\ buffer' = (IF out.ok THEN out.rest ELSE bytes)
      /\ parsed' = (IF out.ok THEN parsed \o out.frames ELSE parsed)
      /\ sizes' = sizes
  BY DEF Feed
<1>2. /\ sizes \in Seq(Sizes) /\ m \in 0 .. Len(sizes) /\ Len(sizes) \in Nat
      /\ parsed = [k \in 1 .. m |-> Complete(k)]
      /\ buffer \in Seq(ByteSet) /\ unread \in Seq(ByteSet) /\ ToRead(buffer \o unread, m)
  BY <1>1 DEF ParserInv
<1>3. some \in Seq(ByteSet) /\ u \in Seq(ByteSet) /\ some \o u = unread
  <2> DEFINE l == Len(unread)
  <2>1. l \in Nat /\ n \in 0 .. l /\ n \in 1 - 1 .. l /\ 1 \in 1 .. l + 1 /\ l \in n .. l
    BY <1>2
  <2>2. unread = SubSeq(unread, 1, l)
    BY <1>2, SubSeqFull
  <2> HIDE DEF l
  <2>3. SubSeq(unread, 1, n) \o SubSeq(unread, n + 1, l) = SubSeq(unread, 1, l)
    BY <1>2, <2>1, ConcatAdjacentSubSeq DEF l
  <2>4. \A i \in 1 .. l : unread[i] \in ByteSet
    BY <1>2 DEF l
  <2> DEFINE k == n + 1
  <2>5. 1 \in Int /\ n \in Int /\ k \in Int /\ l \in Int /\ (\A i \in 1 .. n : i \in 1 .. l) /\ \A i \in k .. l : i \in 1 .. l
    BY <2>1
  <2> HIDE DEF k
  <2>6. SubSeq(unread, 1, n) \in Seq(ByteSet)
    BY <2>4, <2>5, SubSeqProperties
  <2>7. SubSeq(unread, k, l) \in Seq(ByteSet)
    BY <2>4, <2>5, SubSeqProperties
  <2> QED
    BY <2>2, <2>3, <2>6, <2>7 DEF k, l
<1> HIDE DEF some, u
<1>4. bytes \in Seq(ByteSet) /\ ToRead(bytes \o u, m)
  <2>1. bytes \in Seq(ByteSet)
    BY <1>2, <1>3, ConcatProperties
  <2>2. JoinsInside(buffer, some, u)
    BY <1>2, <1>3, JoinedToConcat
  <2>3. bytes \o u = buffer \o unread
    BY <1>3, <2>2 DEF JoinsInside
  <2> QED
    BY <1>2, <2>1, <2>3
<1> HIDE DEF bytes
<1>5. Taken(out, m, u) /\ Stuck(out)
  BY <1>2, <1>3, <1>4, FramesTaken
<1> HIDE DEF out
<1>6. CASE ~out.ok
  <2>1. broken' = TRUE /\ parsed' = parsed
    BY <1>1, <1>6
  <2> QED
    BY <1>1, <1>2, <2>1 DEF ParserInv, Complete
<1>7. CASE out.ok
  <2> DEFINE frames == out.frames
             all == parsed \o frames
  <2>1. /\ frames \in Seq(Seq(ByteSet)) /\ out.rest \in Seq(ByteSet)
        /\ m + Len(frames) <= Len(sizes)
        /\ \A k \in 1 .. Len(frames) : frames[k] = Complete(m + k)
        /\ ToRead(out.rest \o u, m + Len(frames))
    BY <1>5, <1>7 DEF Taken
  <2>2. /\ broken' = FALSE /\ buffer' = out.rest /\ parsed' = all /\ unread' = u
    BY <1>1, <1>7
  <2>3. Len(frames) \in Nat
    BY <2>1
  <2> DEFINE q == m + Len(frames)
  <2>4. q \in 0 .. Len(sizes) /\ m \in Nat
    BY <1>2, <2>1, <2>3
  <2>5. Len(all) = q /\ all = [k \in 1 .. q |-> Complete(k)]
    <3> DEFINE X == {Complete(k) : k \in 1 .. q}
               g == [k \in 1 .. q |-> Complete(k)]
    <3>1. \A k \in 1 .. Len(frames) : m + k \in 1 .. q
      BY <2>3, <2>4
    <3>2. \A k \in 1 .. m : k \in 1 .. q
      BY <2>3, <2>4
    <3>3. parsed \in Seq(X)
      <4>1. parsed \in [1 .. m -> X]
        BY <1>2, <3>2
      <4> HIDE DEF X, q
      <4> QED
        BY <2>4, <4>1, SeqDef
    <3>4. frames \in Seq(X)
      <4>1. \A k \in 1 .. Len(frames) : frames[k] \in X
        BY <2>1, <3>1
      <4> HIDE DEF X, q
      <4>2. frames \in [1 .. Len(frames) -> X]
        BY <2>1, <4>1
      <4> QED
        BY <2>3, <4>2, SeqDef
    <3>5. g \in Seq(X) /\ Len(g) = q
      <4>1. g \in [1 .. q -> X] /\ q \in Nat
        BY <2>4
      <4> HIDE DEF X, q, g
      <4>2. g \in Seq(X) /\ DOMAIN g = 1 .. q
        BY <4>1, SeqDef
      <4> QED
        BY <4>1, <4>2, LenProperties
    <3>6. \A k \in 1 .. q : g[k] = Complete(k)
      OBVIOUS
    <3> HIDE DEF X, g
    <3>7. /\ all \in Seq(X) /\ Len(all) = q
          /\ \A k \in 1 .. q : all[k] = IF k <= m THEN parsed[k] ELSE frames[k - m]
      BY <3>3, <3>4, ConcatProperties
    <3> HIDE DEF all
    <3>8. ASSUME NEW k \in 1 .. q PROVE all[k] = g[k]
      <4>1. CASE k <= m
        <5>1. k \in 1 .. m
          BY <2>4, <4>1
        <5> QED
          BY <1>2, <3>6, <3>7, <4>1, <5>1
      <4>2. CASE ~(k <= m)
        <5>1. k - m \in 1 .. Len(frames) /\ m + (k - m) = k
          BY <2>3, <2>4, <4>2
        <5>2. frames[k - m] = Complete(m + (k - m))
          BY <2>1, <5>1
        <5> QED
          BY <3>6, <3>7, <4>2, <5>1, <5>2
      <4> QED
        BY <4>1, <4>2
    <3>9. all = g
      BY <3>5, <3>7, <3>8, SeqEqual
    <3> QED
      BY <3>7, <3>9 DEF g
  <2> HIDE DEF frames, all, q
  <2>6. ToRead(out.rest \o u, q)
    BY <2>1 DEF q
  <2>7. ASSUME Len(sizes) > q PROVE Len(out.rest) < Room(sizes[q + 1])
    <3>1. q + 1 \in 1 .. Len(sizes) /\ sizes[q + 1] \in Sizes
      <4>1. q + 1 \in 1 .. Len(sizes)
        BY <1>2, <2>4, <2>7
      <4> QED
        BY <1>2, <4>1
    <3>2. /\ Room(sizes[q + 1]) >= HeaderLen /\ Room(sizes[q + 1]) \in Nat /\ HeaderLen \in Nat
      BY <3>1, SizesAre
    <3>3. Len(out.rest) \in Nat
      BY <2>1
    <3>4. CASE ~HasHeader(out.rest)
      BY <3>2, <3>3, <3>4 DEF HasHeader
    <3>5. CASE HasHeader(out.rest)
      <4>1. Declared(out.rest) = sizes[q + 1]
        BY <1>2, <1>3, <2>1, <2>4, <2>6, <3>5, HeadFrame
      <4>2. Sound(sizes[q + 1]) /\ Len(out.rest) < HeaderLen + sizes[q + 1]
        BY <1>5, <1>7, <3>5, <4>1 DEF Stuck
      <4> QED
        BY <4>2 DEF Room
    <3> QED
      BY <3>4, <3>5
  <2>8. /\ Len(parsed') = q /\ parsed' = [k \in 1 .. q |-> Complete(k)]
    BY <2>2, <2>5
  <2>9. ToRead(buffer \o unread, Len(parsed))'
    BY <1>1, <2>2, <2>6, <2>8 DEF ToRead, FramesFrom, Bytes, Sound
  <2> QED
    BY <1>1, <1>2, <1>3, <2>1, <2>2, <2>4, <2>7, <2>8, <2>9 DEF ParserInv, Complete, Room, Sound
<1> QED
  BY <1>6, <1>7

\* frame.rs `feed`, for any frames, lengths and splits of the stream into reads: it returns whole
\* frames in the order they were sent, all that have been read in full, until a header with a
\* bad length has been read.
THEOREM ReadsMayCutAnywhere == ParserSpec => []SplitsDoNotMatter
<1>1. ParserInit => ParserInv
  BY ParserInitInv
<1>2. ParserInv /\ [ParserNext]_parser => ParserInv'
  <2> SUFFICES ASSUME ParserInv, [ParserNext]_parser
               PROVE  ParserInv'
    OBVIOUS
  <2>1. ASSUME NEW n \in 1 .. Len(unread), Feed(n) PROVE ParserInv'
    BY <2>1, FeedInv
  <2>2. ASSUME NEW size \in -1 .. MaxPayload, SendFrame(size) PROVE ParserInv'
    <3>1. size \in Sizes
      BY DEF Sizes
    <3> QED
      BY <2>2, <3>1, SendFrameInv
  <2>3. CASE UNCHANGED parser
    BY <2>3 DEF parser, ParserInv, ToRead, FramesFrom, Complete, Bytes, Sound, Room
  <2> QED
    BY <2>1, <2>2, <2>3 DEF ParserNext
<1>3. ParserInv => SplitsDoNotMatter
  BY DEF ParserInv, SplitsDoNotMatter, ToRead, FramesFrom, Room
<1> QED
  BY <1>1, <1>2, <1>3, PTL DEF ParserSpec

=============================================================================
