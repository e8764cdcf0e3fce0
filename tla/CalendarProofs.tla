--------------------------- MODULE CalendarProofs ---------------------------
(***************************************************************************)
(* The arithmetic of qtl_datetime.c agrees with the calendar on every walk *)
(* through the years 1 to 9999, not only on those that TLC takes.          *)
(*                                                                         *)
(* The invariant gives the count that each date has in closed form; the    *)
(* lemmas before it show that Baum's divisions take that form apart again. *)
(***************************************************************************)
EXTENDS Calendar, TLAPS

(* Days from 1 January of year 1 to that of year y. *)
DaysBefore(y) == 365 * (y - 1) + (y - 1) \div 4 - (y - 1) \div 100 + (y - 1) \div 400

(* Days from 1 March of year 0 to that of year y. *)
DaysBeforeMarch(y) == 365 * y + y \div 4 - y \div 100 + y \div 400

-----------------------------------------------------------------------------
(* Facts about the calendar. *)

(* The two definitions of a leap year agree. *)
LEMMA LeapIsLeap ==
    ASSUME NEW y \in Nat
    PROVE  leap_year(y) <=> IsLeap(y)
BY DEF leap_year, IsLeap

(* And so do those of the length of a month. *)
LEMMA MonthIsMonth ==
    ASSUME NEW y \in Nat, NEW m \in Nat, 1 <= m, m <= 12
    PROVE  /\ month_days(y, m) = DaysIn(y, m)
           /\ DaysIn(y, m) \in Nat /\ 28 <= DaysIn(y, m) /\ DaysIn(y, m) <= 31
BY LeapIsLeap DEF month_days, DaysIn

(* A month begins on some day of its year. *)
LEMMA MonthStart ==
    ASSUME NEW y \in Nat, NEW m \in Nat, 1 <= m, m <= 12
    PROVE  DaysPrecedingMonth(IsLeap(y))[m] \in Nat
<1>1. CASE m = 1 \/ m = 2 \/ m = 3 \/ m = 4 \/ m = 5 \/ m = 6
  BY <1>1 DEF DaysPrecedingMonth
<1>2. CASE m = 7 \/ m = 8 \/ m = 9 \/ m = 10 \/ m = 11 \/ m = 12
  BY <1>2 DEF DaysPrecedingMonth
<1> QED BY <1>1, <1>2

(* A month begins where the month before it ends. *)
LEMMA MonthFollows ==
    ASSUME NEW y \in Nat, NEW m \in Nat, 1 <= m, m < 12
    PROVE  DaysPrecedingMonth(IsLeap(y))[m + 1] = DaysPrecedingMonth(IsLeap(y))[m] + DaysIn(y, m)
<1>1. m = 1 \/ m = 2 \/ m = 3 \/ m = 4 \/ m = 5 \/ m = 6 \/ m = 7 \/ m = 8 \/ m = 9 \/ m = 10 \/ m = 11
  OBVIOUS
<1> QED BY <1>1 DEF DaysPrecedingMonth, DaysIn

LEMMA DecemberEnds ==
    ASSUME NEW y \in Nat
    PROVE  /\ DaysPrecedingMonth(IsLeap(y))[1] = 0
           /\ DaysPrecedingMonth(IsLeap(y))[12] + 31 = IF IsLeap(y) THEN 366 ELSE 365
BY DEF DaysPrecedingMonth

(* A year begins where the year before it ends. *)
LEMMA YearFollows ==
    ASSUME NEW y \in Nat, y >= 1
    PROVE  DaysBefore(y + 1) = DaysBefore(y) + (IF IsLeap(y) THEN 366 ELSE 365)
BY DEF DaysBefore, IsLeap

(* The years that begin in March: before March the year is the one before. *)
LEMMA MarchYear ==
    ASSUME NEW y \in Nat, y >= 1
    PROVE  /\ DaysBefore(y) = DaysBeforeMarch(y - 1)
           /\ DaysBefore(y) + 365 + (IF IsLeap(y) THEN 1 ELSE 0) = DaysBeforeMarch(y)
BY DEF DaysBefore, DaysBeforeMarch, IsLeap

-----------------------------------------------------------------------------
(* Baum's divisions. *)

(* A day of the year that begins in March of year y: 366 only before a     *)
(* leap day.                                                               *)
MarchDay(y, d) == d \in Nat /\ 1 <= d /\ d <= 366 /\ (d = 366 => IsLeap(y + 1))

(* The first division finds the century ... *)
LEMMA Century ==
    ASSUME NEW y \in Nat, y <= 9999, NEW d \in Nat, MarchDay(y, d)
    PROVE  (100 * (DaysBeforeMarch(y) + d) - 25) \div 3652425 = y \div 100
<1>1. PICK q \in Nat, r \in Nat : q <= 99 /\ r <= 99 /\ y = 100 * q + r
  <2>1. y \div 100 \in Nat /\ y % 100 \in Nat /\ y \div 100 <= 99 /\ y % 100 <= 99
        /\ y = 100 * (y \div 100) + (y % 100)
    OBVIOUS
  <2> QED BY <2>1
<1>2. y \div 4 = 25 * q + r \div 4 /\ y \div 100 = q /\ y \div 400 = q \div 4
  BY <1>1
<1>3. 100 * (DaysBeforeMarch(y) + d) - 25
        = 3652400 * q + 100 * (q \div 4) + 36500 * r + 100 * (r \div 4) + 100 * d - 25
  BY <1>1, <1>2 DEF DaysBeforeMarch
<1>4. r = 99 /\ d = 366 => q % 4 = 3
  BY <1>1 DEF MarchDay, IsLeap
<1>5. 100 * d >= 100
  BY DEF MarchDay
<1>6. 3652425 * q <= 100 * (DaysBeforeMarch(y) + d) - 25
  BY <1>1, <1>3, <1>5
<1>7. 100 * (DaysBeforeMarch(y) + d) - 25 < 3652425 * (q + 1)
  BY <1>1, <1>3, <1>4 DEF MarchDay
<1>8. DaysBeforeMarch(y) \in Nat
  BY <1>2 DEF DaysBeforeMarch
<1> QED BY <1>2, <1>6, <1>7, <1>8

(* ... the second the year ... *)
LEMMA YearOfCentury ==
    ASSUME NEW y \in Nat, NEW d \in Nat, MarchDay(y, d)
    PROVE  LET q == y \div 100
               B == q - q \div 4
           IN  (100 * B + 100 * (DaysBeforeMarch(y) + d) - 25) \div 36525 = y
<1>1. PICK N \in Int : N = 36500 * y + 100 * (y \div 4) + 100 * d - 25
  OBVIOUS
<1>2. N = 100 * (y \div 100 - (y \div 100) \div 4) + 100 * (DaysBeforeMarch(y) + d) - 25
  BY <1>1 DEF DaysBeforeMarch
<1>3. d = 366 => y % 4 = 3
  BY DEF MarchDay, IsLeap
<1>4. 36525 * y <= N /\ N < 36525 * (y + 1)
  BY <1>1, <1>3 DEF MarchDay
<1>5. N \div 36525 = y
  BY <1>4
<1> QED BY <1>2, <1>5

(* ... and what is left is the day. *)
LEMMA DayOfYear ==
    ASSUME NEW y \in Nat, NEW d \in Nat
    PROVE  LET q == y \div 100
               B == q - q \div 4
           IN  BaumDay(B, DaysBeforeMarch(y) + d, y) = d
<1>1. y \div 400 = (y \div 100) \div 4 /\ (1461 * y) \div 4 = 365 * y + y \div 4
  OBVIOUS
<1> QED BY <1>1 DEF BaumDay, DaysBeforeMarch

(* Months from March are numbered 3 to 14. *)
LEMMA MonthOfDay ==
    ASSUME NEW m \in Nat, 1 <= m, m <= 12, NEW day \in Nat, 1 <= day, day <= 31,
           m \in {4, 6, 9, 11} => day <= 30, m = 2 => day <= 29
    PROVE  (535 * (DayOffset[m] + day) + 48950) \div 16384 = IF m <= 2 THEN m + 12 ELSE m
<1>1. CASE m = 1 \/ m = 2 \/ m = 3 \/ m = 4 BY <1>1 DEF DayOffset
<1>2. CASE m = 5 \/ m = 6 \/ m = 7 \/ m = 8 BY <1>2 DEF DayOffset
<1>3. CASE m = 9 \/ m = 10 \/ m = 11 \/ m = 12 BY <1>3 DEF DayOffset
<1> QED BY <1>1, <1>2, <1>3

-----------------------------------------------------------------------------
(* A date and its count. *)

RealDate(y, m, d) ==
    /\ y \in Nat /\ 1 <= y /\ y <= 9999
    /\ m \in Nat /\ 1 <= m /\ m <= 12
    /\ d \in Nat /\ 1 <= d /\ d <= DaysIn(y, m)

YearDay(y, m, d) == DaysPrecedingMonth(IsLeap(y))[m] + d

CountOf(y, m, d) == DaysBefore(y) + YearDay(y, m, d) - 1

(* The same date in years that begin in March. *)
MarchYearOf(y, m) == IF m <= 2 THEN y - 1 ELSE y
MarchDayOf(m, d)  == DayOffset[m] + d

LEMMA RealDay ==
    ASSUME NEW y, NEW m, NEW d, RealDate(y, m, d)
    PROVE  /\ d <= 31 /\ (m \in {4, 6, 9, 11} => d <= 30) /\ (m = 2 => d <= 29)
           /\ (m = 2 /\ d = 29 => IsLeap(y))
<1>1. y \in Nat /\ m \in Nat /\ d \in Nat /\ d <= month_days(y, m)
  BY MonthIsMonth DEF RealDate
<1>2. leap_year(y) <=> IsLeap(y)
  BY <1>1, LeapIsLeap
<1> QED BY <1>1, <1>2 DEF month_days

LEMMA YearDayRange ==
    ASSUME NEW y, NEW m, NEW d, RealDate(y, m, d)
    PROVE  /\ YearDay(y, m, d) \in Nat /\ 1 <= YearDay(y, m, d)
           /\ YearDay(y, m, d) <= IF IsLeap(y) THEN 366 ELSE 365
<1>1. m \in Nat /\ d \in Nat /\ 1 <= d /\ d <= 31 /\ (m \in {4, 6, 9, 11} => d <= 30)
      /\ (m = 2 => d <= 29) /\ (m = 2 /\ d = 29 => IsLeap(y))
  BY RealDay DEF RealDate
<1>2. CASE m = 1 \/ m = 2 \/ m = 3 \/ m = 4 \/ m = 5 \/ m = 6
  BY <1>1, <1>2 DEF YearDay, DaysPrecedingMonth
<1>3. CASE m = 7 \/ m = 8 \/ m = 9 \/ m = 10 \/ m = 11 \/ m = 12
  BY <1>1, <1>3 DEF YearDay, DaysPrecedingMonth
<1> QED BY <1>1, <1>2, <1>3 DEF RealDate

LEMMA MarchDate ==
    ASSUME NEW y, NEW m, NEW d, RealDate(y, m, d)
    PROVE  /\ MarchYearOf(y, m) \in Nat /\ MarchYearOf(y, m) <= 9999
           /\ MarchDayOf(m, d) \in Nat
           /\ MarchDay(MarchYearOf(y, m), MarchDayOf(m, d))
           /\ CountOf(y, m, d) + 307 = DaysBeforeMarch(MarchYearOf(y, m)) + MarchDayOf(m, d)
<1>1. y \in Nat /\ 1 <= y /\ y <= 9999 /\ m \in Nat /\ d \in Nat /\ 1 <= d /\ d <= 31
      /\ (m = 2 => d <= 29) /\ (m = 2 /\ d = 29 => IsLeap(y))
  BY RealDay DEF RealDate
<1>2. DaysBefore(y) \in Nat /\ DaysBeforeMarch(y) \in Nat /\ DaysBeforeMarch(y - 1) \in Nat
  BY <1>1 DEF DaysBefore, DaysBeforeMarch
<1>3. /\ DaysBefore(y) = DaysBeforeMarch(y - 1)
      /\ DaysBefore(y) + 365 + (IF IsLeap(y) THEN 1 ELSE 0) = DaysBeforeMarch(y)
  BY <1>1, MarchYear
<1>4. CASE m = 1 \/ m = 2
  <2>1. MarchYearOf(y, m) = y - 1 /\ y - 1 \in Nat /\ (y - 1) + 1 = y
    BY <1>1, <1>4 DEF MarchYearOf
  <2>2. /\ MarchDayOf(m, d) \in Nat /\ 1 <= MarchDayOf(m, d) /\ MarchDayOf(m, d) <= 366
        /\ MarchDayOf(m, d) = 366 => IsLeap(y)
    BY <1>1, <1>4 DEF MarchDayOf, DayOffset
  <2>3. CountOf(y, m, d) + 307 = DaysBeforeMarch(y - 1) + MarchDayOf(m, d)
    BY <1>1, <1>2, <1>3, <1>4 DEF CountOf, YearDay, MarchDayOf, DayOffset, DaysPrecedingMonth
  <2> QED BY <1>1, <2>1, <2>2, <2>3 DEF MarchDay
<1>5. CASE m = 3 \/ m = 4 \/ m = 5 \/ m = 6 \/ m = 7 \/ m = 8 \/ m = 9 \/ m = 10 \/ m = 11 \/ m = 12
  <2>1. MarchYearOf(y, m) = y
    BY <1>1, <1>5 DEF MarchYearOf
  <2>2. MarchDayOf(m, d) \in Nat /\ 1 <= MarchDayOf(m, d) /\ MarchDayOf(m, d) <= 365
    BY <1>1, <1>5 DEF MarchDayOf, DayOffset
  <2>3. YearDay(y, m, d) = (IF IsLeap(y) THEN 60 ELSE 59) + MarchDayOf(m, d)
    BY <1>1, <1>5 DEF YearDay, MarchDayOf, DayOffset, DaysPrecedingMonth
  <2>4. CountOf(y, m, d) + 307 = DaysBeforeMarch(y) + MarchDayOf(m, d)
    BY <1>2, <1>3, <2>2, <2>3 DEF CountOf
  <2> QED BY <1>1, <2>1, <2>2, <2>4 DEF MarchDay
<1> QED BY <1>4, <1>5 DEF RealDate

(* rdn_to_ymd takes a count apart into its date. *)
LEMMA DateOfCount ==
    ASSUME NEW y, NEW m, NEW d, RealDate(y, m, d)
    PROVE  rdn_to_ymd(CountOf(y, m, d)) =
             [year |-> y, month |-> m, day |-> d, yday |-> YearDay(y, m, d)]
<1>1. PICK Y \in Nat, D \in Nat : Y = MarchYearOf(y, m) /\ D = MarchDayOf(m, d)
  BY MarchDate
<1>2. /\ Y <= 9999 /\ MarchDay(Y, D)
      /\ CountOf(y, m, d) + 1 + 306 = DaysBeforeMarch(Y) + D
  <2>1. CountOf(y, m, d) + 307 = DaysBeforeMarch(Y) + D
    BY <1>1, MarchDate
  <2>2. CountOf(y, m, d) \in Int
    BY YearDayRange DEF CountOf, DaysBefore, RealDate
  <2> QED BY <1>1, <2>1, <2>2, MarchDate
<1> DEFINE Z == CountOf(y, m, d) + 1 + 306
           H == 100 * Z - 25
           A == H \div 3652425
           B == A - A \div 4
           yy == (100 * B + H) \div 36525
           dd == BaumDay(B, Z, yy)
           mm == (535 * dd + 48950) \div 16384
<1>3. A = Y \div 100
  BY <1>2, Century
<1>4. yy = Y
  <2>1. (100 * (Y \div 100 - (Y \div 100) \div 4) + 100 * (DaysBeforeMarch(Y) + D) - 25) \div 36525 = Y
    BY <1>2, YearOfCentury
  <2>2. DaysBeforeMarch(Y) \in Int
    BY DEF DaysBeforeMarch
  <2>3. H = 100 * (DaysBeforeMarch(Y) + D) - 25
    BY <1>2
  <2> HIDE DEF A
  <2>4. B = Y \div 100 - (Y \div 100) \div 4
    BY <1>3
  <2>5. Y \div 100 - (Y \div 100) \div 4 \in Int
    OBVIOUS
  <2> HIDE DEF B, H
  <2>6. 100 * B + H = 100 * B + 100 * (DaysBeforeMarch(Y) + D) - 25
    BY <2>2, <2>3, <2>4, <2>5
  <2> QED BY <2>1, <2>4, <2>6
<1>5. dd = D
  BY <1>2, <1>3, <1>4, DayOfYear
<1>6. mm = IF m <= 2 THEN m + 12 ELSE m
  BY <1>1, <1>5, MonthOfDay, RealDay DEF MarchDayOf, RealDate
<1> HIDE DEF dd, mm, yy
<1>7. rdn_to_ymd(CountOf(y, m, d)) =
        IF mm > 12
        THEN [year |-> yy + 1, month |-> mm - 12, day |-> dd - DayOffset[mm - 12], yday |-> dd - 306]
        ELSE [year |-> yy, month |-> mm, day |-> dd - DayOffset[mm],
              yday |-> dd + 59 + (IF leap_year(yy) THEN 1 ELSE 0)]
  BY DEF rdn_to_ymd, dd, mm, yy
<1>8. y \in Nat /\ 1 <= y /\ m \in Nat /\ 1 <= m /\ m <= 12 /\ d \in Nat
  BY DEF RealDate
<1>9. CASE m = 1 \/ m = 2
  <2>1. mm = m + 12 /\ mm > 12 /\ mm - 12 = m /\ yy + 1 = y
    BY <1>1, <1>4, <1>6, <1>8, <1>9 DEF MarchYearOf
  <2>2. dd - DayOffset[m] = d /\ dd - 306 = YearDay(y, m, d)
    BY <1>1, <1>5, <1>8, <1>9 DEF MarchDayOf, DayOffset, YearDay, DaysPrecedingMonth
  <2> QED BY <1>7, <2>1, <2>2
<1>10. CASE m = 3 \/ m = 4 \/ m = 5 \/ m = 6 \/ m = 7 \/ m = 8 \/ m = 9 \/ m = 10 \/ m = 11 \/ m = 12
  <2>1. mm = m /\ ~(mm > 12) /\ yy = y
    BY <1>1, <1>4, <1>6, <1>8, <1>10 DEF MarchYearOf
  <2>2. leap_year(y) <=> IsLeap(y)
    BY <1>8, LeapIsLeap
  <2>3. dd - DayOffset[m] = d /\ dd + 59 + (IF leap_year(y) THEN 1 ELSE 0) = YearDay(y, m, d)
    BY <1>1, <1>5, <1>8, <1>10, <2>2 DEF MarchDayOf, DayOffset, YearDay, DaysPrecedingMonth
  <2> QED BY <1>7, <2>1, <2>3
<1> QED BY <1>8, <1>9, <1>10

(* yd_to_rdn puts the count together, ... *)
LEMMA CountOfYearDay ==
    ASSUME NEW y \in Nat, 1 <= y, y <= 9999, NEW n \in Nat, n <= 366
    PROVE  yd_to_rdn(y, n) = DaysBefore(y) + n
BY DEF yd_to_rdn, DaysBefore, Uint16

(* ... and so does ymd_to_rdn, whatever months have been carried. *)
LEMMA CountOfDate ==
    ASSUME NEW y, NEW m, NEW d, RealDate(y, m, d)
    PROVE  /\ ymd_to_rdn(y, m, d) = CountOf(y, m, d)
           /\ y > 1 => ymd_to_rdn(y - 1, m + 12, d) = CountOf(y, m, d)
           /\ m = 12 => ymd_to_rdn(y + 1, 0, d) = CountOf(y, m, d)
<1>1. y \in Nat /\ 1 <= y /\ y <= 9999 /\ m \in Nat /\ 1 <= m /\ m <= 12 /\ d \in Nat
  BY DEF RealDate
<1> DEFINE n == YearDay(y, m, d) - 1
<1>2. n \in Nat /\ n <= 366
  BY YearDayRange
<1>3. yd_to_rdn(y, n) = CountOf(y, m, d)
  <2>1. DaysBefore(y) \in Int /\ YearDay(y, m, d) \in Nat
    BY <1>1, YearDayRange DEF DaysBefore
  <2> QED BY <1>1, <1>2, <2>1, CountOfYearDay DEF CountOf
<1>4. n = DaysPrecedingMonth(leap_year(y))[m] + d - 1
  <2>1. DaysPrecedingMonth(leap_year(y)) = DaysPrecedingMonth(IsLeap(y))
    BY <1>1, LeapIsLeap DEF DaysPrecedingMonth
  <2>2. YearDay(y, m, d) = DaysPrecedingMonth(leap_year(y))[m] + d
    BY <2>1 DEF YearDay
  <2>3. DaysPrecedingMonth(leap_year(y))[m] \in Nat
    BY <1>1, <2>1, MonthStart
  <2> QED BY <1>1, <2>2, <2>3
<1>5. ymd_to_rdn(y, m, d) = yd_to_rdn(y, n)
  <2>1. ~(m # 12 /\ m % 12 = 0) /\ ~(m > 12)
    BY <1>1
  <2>2. y + 0 - 0 = y
    BY <1>1
  <2> QED BY <1>4, <2>1, <2>2 DEF ymd_to_rdn
<1>6. ASSUME y > 1 PROVE ymd_to_rdn(y - 1, m + 12, d) = yd_to_rdn(y, n)
  <2>1. CASE m = 12
    <3>1. m + 12 # 12 /\ (m + 12) % 12 = 0 /\ m + 12 > 12 /\ (m + 12) \div 12 = 2
      BY <2>1
    <3>2. (y - 1) + 2 - 1 = y
      BY <1>1
    <3> QED BY <1>4, <2>1, <3>1, <3>2 DEF ymd_to_rdn
  <2>2. CASE m < 12
    <3>1. (m + 12) % 12 # 0 /\ m + 12 > 12 /\ (m + 12) \div 12 = 1 /\ (m + 12) % 12 = m
      BY <1>1, <2>2
    <3>2. (y - 1) + 1 - 0 = y
      BY <1>1
    <3> QED BY <1>4, <3>1, <3>2 DEF ymd_to_rdn
  <2> QED BY <1>1, <2>1, <2>2
<1>7. ASSUME m = 12 PROVE ymd_to_rdn(y + 1, 0, d) = yd_to_rdn(y, n)
  <2>1. 0 # 12 /\ 0 % 12 = 0 /\ ~(0 > 12)
    OBVIOUS
  <2>2. (y + 1) + 0 - 1 = y
    BY <1>1
  <2> QED BY <1>4, <1>7, <2>1, <2>2 DEF ymd_to_rdn
<1> QED BY <1>3, <1>5, <1>6, <1>7

-----------------------------------------------------------------------------
(* The invariant. *)

Typed ==
    /\ walk \in Walks
    /\ date \in [year : Nat, month : Nat, day : Nat]
    /\ time \in [hour : 0 .. 23, min : 0 .. 59, sec : 0 .. 59]
    /\ dt \in [rdn : Nat, sod : Nat, usec : Nat]

DateIsReal == RealDate(date.year, date.month, date.day)

YdayIsDate == yday = YearDay(date.year, date.month, date.day)

DtIsDateAndTime ==
    /\ dt.rdn = CountOf(date.year, date.month, date.day)
    /\ dt.sod = 3600 * time.hour + 60 * time.min + time.sec
    /\ dt.usec = walk.usec

WeekdayIsCount == weekday = (dt.rdn + 1) % 7

IInv == Typed /\ DateIsReal /\ YdayIsDate /\ DtIsDateAndTime /\ WeekdayIsCount

(* Every year ends with 31 December. *)
LEMMA LastMonth ==
    ASSUME NEW y \in Nat
    PROVE  DaysIn(y, 12) = 31
<1>1. month_days(y, 12) = 31
  BY DEF month_days
<1> QED BY <1>1, MonthIsMonth

(* The date and the count of the next day. *)
LEMMA DayFollows ==
    ASSUME NEW y, NEW m, NEW d, RealDate(y, m, d), d # DaysIn(y, m)
    PROVE  /\ RealDate(y, m, d + 1)
           /\ YearDay(y, m, d + 1) = YearDay(y, m, d) + 1
           /\ CountOf(y, m, d + 1) = CountOf(y, m, d) + 1
<1>1. y \in Nat /\ m \in Nat /\ d \in Nat /\ DaysIn(y, m) \in Nat /\ d <= DaysIn(y, m)
  BY MonthIsMonth DEF RealDate
<1>2. RealDate(y, m, d + 1)
  BY <1>1 DEF RealDate
<1>3. DaysPrecedingMonth(IsLeap(y))[m] \in Nat /\ DaysBefore(y) \in Int
  BY <1>1, MonthStart DEF RealDate, DaysBefore
<1>4. YearDay(y, m, d + 1) = YearDay(y, m, d) + 1
  BY <1>1, <1>3 DEF YearDay
<1>5. CountOf(y, m, d + 1) = CountOf(y, m, d) + 1
  BY <1>2, <1>3, <1>4, YearDayRange DEF CountOf
<1> QED BY <1>2, <1>4, <1>5

LEMMA MonthTurns ==
    ASSUME NEW y, NEW m, NEW d, RealDate(y, m, d), d = DaysIn(y, m), m # 12
    PROVE  /\ RealDate(y, m + 1, 1)
           /\ YearDay(y, m + 1, 1) = YearDay(y, m, d) + 1
           /\ CountOf(y, m + 1, 1) = CountOf(y, m, d) + 1
<1>1. y \in Nat /\ m \in Nat /\ 1 <= m /\ m < 12 /\ d \in Nat
  BY DEF RealDate
<1>2. RealDate(y, m + 1, 1)
  BY <1>1, MonthIsMonth DEF RealDate
<1>3. /\ DaysPrecedingMonth(IsLeap(y))[m] \in Nat /\ DaysBefore(y) \in Int
      /\ DaysPrecedingMonth(IsLeap(y))[m + 1] = DaysPrecedingMonth(IsLeap(y))[m] + d
  BY <1>1, MonthStart, MonthFollows DEF RealDate, DaysBefore
<1>4. YearDay(y, m + 1, 1) = YearDay(y, m, d) + 1
  BY <1>1, <1>3 DEF YearDay
<1>5. CountOf(y, m + 1, 1) = CountOf(y, m, d) + 1
  BY <1>3, <1>4, YearDayRange DEF CountOf
<1> QED BY <1>2, <1>4, <1>5

LEMMA YearTurns ==
    ASSUME NEW y, NEW d, RealDate(y, 12, d), d = DaysIn(y, 12), y # 9999
    PROVE  /\ RealDate(y + 1, 1, 1)
           /\ YearDay(y + 1, 1, 1) = 1
           /\ CountOf(y + 1, 1, 1) = CountOf(y, 12, d) + 1
<1>1. y \in Nat /\ 1 <= y /\ y < 9999 /\ d = 31
  BY LastMonth DEF RealDate
<1>2. RealDate(y + 1, 1, 1)
  BY <1>1, MonthIsMonth DEF RealDate
<1>3. YearDay(y + 1, 1, 1) = 1
  BY <1>1, DecemberEnds DEF YearDay
<1>4. YearDay(y, 12, d) = IF IsLeap(y) THEN 366 ELSE 365
  BY <1>1, DecemberEnds DEF YearDay
<1>5. DaysBefore(y) \in Int /\ DaysBefore(y + 1) \in Int
  BY <1>1 DEF DaysBefore
<1>6. CountOf(y + 1, 1, 1) = CountOf(y, 12, d) + 1
  BY <1>1, <1>3, <1>4, <1>5, YearFollows DEF CountOf
<1> QED BY <1>2, <1>3, <1>6

(* The first day of a walk. *)
LEMMA CycleBegins ==
    ASSUME NEW c \in Nat, c <= 24
    PROVE  /\ RealDate(400 * c + 1, 1, 1)
           /\ YearDay(400 * c + 1, 1, 1) = 1
           /\ CountOf(400 * c + 1, 1, 1) = c * DaysPerCycle
<1>1. 400 * c + 1 \in Nat /\ 1 <= 400 * c + 1 /\ 400 * c + 1 <= 9999
  OBVIOUS
<1>2. RealDate(400 * c + 1, 1, 1)
  BY <1>1, MonthIsMonth DEF RealDate
<1>3. YearDay(400 * c + 1, 1, 1) = 1
  BY <1>1, DecemberEnds DEF YearDay
<1>4. DaysBefore(400 * c + 1) = c * DaysPerCycle
  BY DEF DaysBefore, DaysPerCycle
<1> QED BY <1>2, <1>3, <1>4 DEF CountOf, DaysPerCycle

(* What a walk may be. *)
LEMMA WalkTyped ==
    ASSUME walk \in Walks
    PROVE  /\ walk.cycle \in Nat /\ walk.cycle <= 24
           /\ walk.usec \in Nat /\ walk.usec <= 999999
           /\ walk.sizes \subseteq Nat
           /\ \A offset \in walk.offsets : offset \in Int /\ -1439 <= offset /\ offset <= 1439
BY CalendarAssumption

(* The initial states satisfy the invariant. *)
LEMMA InitIInv == Init => IInv
<1> SUFFICES ASSUME Init PROVE IInv
  OBVIOUS
<1>1. walk \in Walks /\ walk.cycle \in Nat /\ walk.cycle <= 24 /\ walk.usec \in Nat
  BY WalkTyped DEF Init
<1>2. /\ date = [year |-> 400 * walk.cycle + 1, month |-> 1, day |-> 1]
      /\ yday = 1 /\ weekday = 1 /\ time = [hour |-> 0, min |-> 0, sec |-> 0]
      /\ dt = [rdn |-> walk.cycle * DaysPerCycle, sod |-> 0, usec |-> walk.usec]
  BY DEF Init, first, DatetimeOf
<1>3. Typed
  BY <1>1, <1>2 DEF Typed, DaysPerCycle
<1>4. DateIsReal /\ YdayIsDate
  BY <1>1, <1>2, CycleBegins DEF DateIsReal, YdayIsDate
<1>5. DtIsDateAndTime
  BY <1>1, <1>2, CycleBegins DEF DtIsDateAndTime
<1>6. WeekdayIsCount
  <2>1. (walk.cycle * DaysPerCycle + 1) % 7 = 1
    BY <1>1 DEF DaysPerCycle
  <2> QED BY <1>2, <2>1 DEF WeekdayIsCount
<1> QED BY <1>3, <1>4, <1>5, <1>6 DEF IInv

(* The next day's date, however it carries, has the next count. *)
LEMMA NextDayCounts ==
    ASSUME Typed, DateIsReal, YdayIsDate, NextDay
    PROVE  /\ date' \in [year : Nat, month : Nat, day : Nat]
           /\ DateIsReal' /\ YdayIsDate'
           /\ CountOf(date'.year, date'.month, date'.day)
                = CountOf(date.year, date.month, date.day) + 1
<1>1. /\ date \in [year : Nat, month : Nat, day : Nat]
      /\ RealDate(date.year, date.month, date.day)
  BY DEF Typed, DateIsReal
<1>2. CASE EndOfYear
  <2>1. date.month = 12 /\ date.day = DaysIn(date.year, date.month) /\ date.year # 9999
    BY <1>2 DEF NextDay, EndOfYear, EndOfMonth
  <2>2. date' = [year |-> date.year + 1, month |-> 1, day |-> 1] /\ yday' = 1
    BY <1>2 DEF NextDay
  <2>3. /\ RealDate(date.year + 1, 1, 1) /\ YearDay(date.year + 1, 1, 1) = 1
        /\ CountOf(date.year + 1, 1, 1) = CountOf(date.year, date.month, date.day) + 1
    BY <1>1, <2>1, YearTurns
  <2> QED BY <1>1, <2>2, <2>3 DEF DateIsReal, YdayIsDate
<1>3. CASE EndOfMonth /\ ~EndOfYear
  <2>1. date.month # 12 /\ date.day = DaysIn(date.year, date.month)
    BY <1>3 DEF EndOfYear, EndOfMonth
  <2>2. date' = [year |-> date.year, month |-> date.month + 1, day |-> 1] /\ yday' = yday + 1
    BY <1>1, <1>3 DEF NextDay
  <2>3. /\ RealDate(date.year, date.month + 1, 1)
        /\ YearDay(date.year, date.month + 1, 1) = yday + 1
        /\ CountOf(date.year, date.month + 1, 1) = CountOf(date.year, date.month, date.day) + 1
    BY <1>1, <2>1, MonthTurns DEF YdayIsDate
  <2> QED BY <1>1, <2>2, <2>3 DEF DateIsReal, YdayIsDate
<1>4. CASE ~EndOfMonth
  <2>1. date.day # DaysIn(date.year, date.month) /\ ~EndOfYear
    BY <1>4 DEF EndOfYear, EndOfMonth
  <2>2. date' = [year |-> date.year, month |-> date.month, day |-> date.day + 1]
        /\ yday' = yday + 1
    BY <1>1, <1>4, <2>1 DEF NextDay
  <2>3. /\ RealDate(date.year, date.month, date.day + 1)
        /\ YearDay(date.year, date.month, date.day + 1) = yday + 1
        /\ CountOf(date.year, date.month, date.day + 1)
             = CountOf(date.year, date.month, date.day) + 1
    BY <1>1, <2>1, DayFollows DEF YdayIsDate
  <2> QED BY <1>1, <2>2, <2>3 DEF DateIsReal, YdayIsDate
<1> QED BY <1>2, <1>3, <1>4

(* The days of the week follow each other. *)
LEMMA NextWeekday ==
    ASSUME NEW rdn \in Nat
    PROVE  (rdn + 1 + 1) % 7 = (((rdn + 1) % 7) + 1) % 7
OBVIOUS

(* A day later. *)
LEMMA DayIInv == IInv /\ Day => IInv'
<1> SUFFICES ASSUME IInv, Day PROVE IInv'
  OBVIOUS
<1>1. /\ date' \in [year : Nat, month : Nat, day : Nat] /\ DateIsReal' /\ YdayIsDate'
      /\ CountOf(date'.year, date'.month, date'.day) = dt.rdn + 1
  BY NextDayCounts DEF IInv, Day, DtIsDateAndTime
<1>2. /\ dt' = [rdn |-> dt.rdn + 1, sod |-> dt.sod, usec |-> dt.usec] /\ time' = time /\ walk' = walk
      /\ weekday' = (weekday + 1) % 7
  BY DEF Day, NextDay, DatetimeOf
<1>3. dt' \in [rdn : Nat, sod : Nat, usec : Nat] /\ dt'.rdn = dt.rdn + 1 /\ dt'.sod = dt.sod /\ dt'.usec = dt.usec
      /\ dt.rdn \in Nat
  BY <1>2 DEF IInv, Typed
<1>4. Typed'
  BY <1>1, <1>2, <1>3 DEF IInv, Typed
<1>5. DtIsDateAndTime'
  BY <1>1, <1>2, <1>3 DEF IInv, DtIsDateAndTime
<1>6. WeekdayIsCount'
  BY <1>2, <1>3, NextWeekday DEF IInv, WeekdayIsCount
<1> QED BY <1>1, <1>4, <1>5, <1>6 DEF IInv

(* A second later, within the day. *)
LEMMA SecondIInv == IInv /\ Second => IInv'
<1> SUFFICES ASSUME IInv, Second PROVE IInv'
  OBVIOUS
<1>1. /\ dt' = [rdn |-> dt.rdn, sod |-> dt.sod + 1, usec |-> dt.usec] /\ UNCHANGED <<date, yday, weekday, walk>>
      /\ dt \in [rdn : Nat, sod : Nat, usec : Nat]
  BY DEF Second, IInv, Typed, DatetimeOf
<1>2. dt'.rdn = dt.rdn /\ dt'.sod = dt.sod + 1 /\ dt'.usec = dt.usec
      /\ dt' \in [rdn : Nat, sod : Nat, usec : Nat]
  BY <1>1
<1>3. /\ time.hour \in Nat /\ time.hour <= 23 /\ time.min \in Nat /\ time.min <= 59
      /\ time.sec \in Nat /\ time.sec <= 59
      /\ time = [hour |-> time.hour, min |-> time.min, sec |-> time.sec]
  BY DEF IInv, Typed
<1>4. /\ time' \in [hour : 0 .. 23, min : 0 .. 59, sec : 0 .. 59]
      /\ 3600 * time'.hour + 60 * time'.min + time'.sec
           = 3600 * time.hour + 60 * time.min + time.sec + 1
  <2>1. CASE time.sec < 59
    <3>1. time' = [hour |-> time.hour, min |-> time.min, sec |-> time.sec + 1]
      BY <1>3, <2>1 DEF Second, IInv, Typed
    <3> QED BY <1>3, <2>1, <3>1
  <2>2. CASE time.sec = 59 /\ time.min < 59
    <3>1. time' = [hour |-> time.hour, min |-> time.min + 1, sec |-> 0]
      BY <1>3, <2>2 DEF Second, IInv, Typed
    <3> QED BY <1>3, <2>2, <3>1
  <2>3. CASE time.sec = 59 /\ time.min = 59
    <3>1. time' = [hour |-> time.hour + 1, min |-> 0, sec |-> 0]
      BY <2>3 DEF Second
    <3>2. time.hour # 23
      BY <1>3, <2>3 DEF Second
    <3> QED BY <1>3, <2>3, <3>1, <3>2
  <2> QED BY <1>3, <2>1, <2>2, <2>3
<1>5. Typed'
  BY <1>1, <1>2, <1>4 DEF IInv, Typed
<1>6. DateIsReal' /\ YdayIsDate' /\ WeekdayIsCount'
  BY <1>1, <1>2 DEF IInv, DateIsReal, YdayIsDate, WeekdayIsCount
<1>7. DtIsDateAndTime'
  BY <1>1, <1>2, <1>3, <1>4 DEF IInv, DtIsDateAndTime
<1> QED BY <1>5, <1>6, <1>7 DEF IInv

(* A second later, at midnight. *)
LEMMA MidnightIInv == IInv /\ Midnight => IInv'
<1> SUFFICES ASSUME IInv, Midnight PROVE IInv'
  OBVIOUS
<1>1. /\ date' \in [year : Nat, month : Nat, day : Nat] /\ DateIsReal' /\ YdayIsDate'
      /\ CountOf(date'.year, date'.month, date'.day) = dt.rdn + 1
  BY NextDayCounts DEF IInv, Midnight, DtIsDateAndTime
<1>2. /\ dt' = [rdn |-> dt.rdn + 1, sod |-> 0, usec |-> dt.usec] /\ walk' = walk
      /\ time' = [hour |-> 0, min |-> 0, sec |-> 0]
      /\ weekday' = (weekday + 1) % 7
  BY DEF Midnight, NextDay, DatetimeOf
<1>3. dt' \in [rdn : Nat, sod : Nat, usec : Nat] /\ dt'.rdn = dt.rdn + 1 /\ dt'.sod = 0 /\ dt'.usec = dt.usec
      /\ dt.rdn \in Nat
  BY <1>2 DEF IInv, Typed
<1>4. Typed'
  BY <1>1, <1>2, <1>3 DEF IInv, Typed
<1>5. DtIsDateAndTime'
  BY <1>1, <1>2, <1>3 DEF IInv, DtIsDateAndTime
<1>6. WeekdayIsCount'
  BY <1>2, <1>3, NextWeekday DEF IInv, WeekdayIsCount
<1> QED BY <1>1, <1>4, <1>5, <1>6 DEF IInv

(* The invariant holds on every walk. *)
THEOREM Invariance == Spec => []IInv
<1>1. IInv /\ UNCHANGED vars => IInv'
  BY DEF IInv, Typed, DateIsReal, YdayIsDate, DtIsDateAndTime, WeekdayIsCount, vars
<1>2. IInv /\ [Next]_vars => IInv'
  BY <1>1, DayIInv, SecondIInv, MidnightIInv DEF Next
<1> QED BY InitIInv, <1>2, PTL DEF Spec

-----------------------------------------------------------------------------
(* What the invariant says of the functions. *)

LEMMA MonthNumber ==
    ASSUME NEW m \in Nat, 1 <= m, m <= 12
    PROVE  m \in 1 .. 12
OBVIOUS

LEMMA TakeNothing ==
    ASSUME NEW rdn \in Nat, NEW sod \in Nat, sod <= 86399, NEW usec
    PROVE  LessMinutes(DatetimeOf(rdn, sod, usec), 0) = DatetimeOf(rdn, sod, usec)
<1>1. sod - 60 * 0 = sod /\ sod \div 86400 = 0 /\ sod % 86400 = sod /\ rdn + 0 = rdn /\ ~(rdn < 0)
  OBVIOUS
<1> QED BY <1>1 DEF LessMinutes, DatetimeOf, SecondsPerDay

(* The date and the time of dt, as numbers. *)
LEMMA Fields ==
    ASSUME IInv
    PROVE  /\ RealDate(date.year, date.month, date.day)
           /\ rdn_to_ymd(dt.rdn) = [year |-> date.year, month |-> date.month, day |-> date.day,
                                    yday |-> yday]
           /\ dt.rdn = CountOf(date.year, date.month, date.day)
           /\ dt.rdn \in Nat /\ dt.sod \in Nat /\ dt.usec \in Nat /\ dt.usec <= 999999
           /\ dt.sod = 3600 * time.hour + 60 * time.min + time.sec
           /\ time.hour \in Nat /\ time.hour <= 23 /\ time.min \in Nat /\ time.min <= 59
           /\ time.sec \in Nat /\ time.sec <= 59
<1>1. RealDate(date.year, date.month, date.day)
  BY DEF IInv, DateIsReal
<1>2. /\ dt.rdn = CountOf(date.year, date.month, date.day)
      /\ dt.sod = 3600 * time.hour + 60 * time.min + time.sec /\ dt.usec = walk.usec
  BY DEF IInv, DtIsDateAndTime
<1>3. rdn_to_ymd(dt.rdn) = [year |-> date.year, month |-> date.month, day |-> date.day,
                           yday |-> yday]
  BY <1>1, <1>2, DateOfCount DEF IInv, YdayIsDate
<1>4. dt.rdn \in Nat /\ dt.sod \in Nat /\ dt.usec \in Nat
  BY DEF IInv, Typed
<1>5. dt.usec <= 999999
  BY <1>2, WalkTyped DEF IInv, Typed
<1>6. /\ time.hour \in Nat /\ time.hour <= 23 /\ time.min \in Nat /\ time.min <= 59
      /\ time.sec \in Nat /\ time.sec <= 59
  BY DEF IInv, Typed
<1> QED BY <1>1, <1>2, <1>3, <1>4, <1>5, <1>6

(* The second of the day comes apart into the time of day. *)
LEMMA ClockOfSecond ==
    ASSUME NEW h \in Nat, h <= 23, NEW m \in Nat, m <= 59, NEW s \in Nat, s <= 59
    PROVE  /\ 3600 * h + 60 * m + s <= 86399
           /\ HourOf(3600 * h + 60 * m + s) = h
           /\ MinuteOf(3600 * h + 60 * m + s) = m
           /\ SecondOf(3600 * h + 60 * m + s) = s
BY DEF HourOf, MinuteOf, SecondOf

LEMMA TimeOfDt ==
    ASSUME IInv
    PROVE  /\ dt.sod <= 86399
           /\ HourOf(dt.sod) = time.hour /\ MinuteOf(dt.sod) = time.min /\ SecondOf(dt.sod) = time.sec
BY Fields, ClockOfSecond

LEMMA IInvCountIsDate == IInv => CountIsDate
<1> SUFFICES ASSUME IInv PROVE CountIsDate
  OBVIOUS
<1>1. datetime_to_ymd(dt) = [year |-> date.year, month |-> date.month, day |-> date.day,
                             yday |-> yday]
  BY Fields DEF datetime_to_ymd
<1> QED BY <1>1, Fields, CountOfDate DEF CountIsDate

(* 1970 begins EpochRdn days after year 1. *)
LEMMA EpochIs1970 ==
    ASSUME NEW y, NEW m, NEW d, RealDate(y, m, d)
    PROVE  CountOf(y, m, d) >= EpochRdn <=> y >= 1970
<1>1. y \in Nat /\ YearDay(y, m, d) \in Nat /\ 1 <= YearDay(y, m, d)
      /\ YearDay(y, m, d) <= IF IsLeap(y) THEN 366 ELSE 365
  BY YearDayRange DEF RealDate
<1>2. CASE y >= 1970
  <2>1. DaysBefore(y) >= 719162
    BY <1>1, <1>2 DEF DaysBefore
  <2>2. DaysBefore(y) \in Int
    BY <1>1 DEF DaysBefore
  <2> QED BY <1>1, <1>2, <2>1, <2>2 DEF CountOf, EpochRdn
<1>3. CASE y < 1970
  <2>1. DaysBefore(y) + (IF IsLeap(y) THEN 366 ELSE 365) <= 719162
    BY <1>1, <1>3 DEF DaysBefore, IsLeap
  <2>2. DaysBefore(y) \in Int
    BY <1>1 DEF DaysBefore
  <2> QED BY <1>1, <1>3, <2>1, <2>2 DEF CountOf, EpochRdn
<1> QED BY <1>1, <1>2, <1>3

LEMMA IInvFieldsShowClock == IInv => FieldsShowClock
<1> SUFFICES ASSUME IInv PROVE FieldsShowClock
  OBVIOUS
<1>1. datetime_decode(dt) = [year |-> date.year, month |-> date.month, day |-> date.day,
                             hour |-> time.hour, minute |-> time.min, second |-> time.sec,
                             usec |-> dt.usec]
  BY Fields, TimeOfDt DEF datetime_decode
<1>2. TmOk(dt) <=> date.year >= 1970
  BY Fields, EpochIs1970 DEF TmOk
<1>3. dt.rdn % 7 = (weekday + 6) % 7
  <2>1. weekday = (dt.rdn + 1) % 7 /\ dt.rdn \in Nat
    BY Fields DEF IInv, WeekdayIsCount
  <2> QED BY <2>1
<1>4. datetime_to_tm(dt) = [mday |-> date.day, yday |-> yday - 1, mon |-> date.month - 1,
                            year |-> date.year - 1900, wday |-> (weekday + 6) % 7,
                            sec |-> time.sec, min |-> time.min, hour |-> time.hour]
  BY <1>3, Fields, TimeOfDt DEF datetime_to_tm
<1> QED BY <1>1, <1>2, <1>4 DEF FieldsShowClock

(* A date that is in the calendar fits its month, and no other day does. *)
LEMMA RealDayFits ==
    ASSUME NEW y, NEW m, NEW d, RealDate(y, m, d)
    PROVE  DayFits(y, m, d) /\ (d = DaysIn(y, m) => ~DayFits(y, m, d + 1))
<1>1. /\ month_days(y, m) = DaysIn(y, m) /\ d \in Nat /\ d <= DaysIn(y, m)
      /\ DaysIn(y, m) \in Nat /\ 28 <= DaysIn(y, m) /\ DaysIn(y, m) <= 31
  BY MonthIsMonth DEF RealDate
<1> QED BY <1>1 DEF DayFits

LEMMA IInvReadsRealDates == IInv => ReadsRealDates
<1> SUFFICES ASSUME IInv PROVE ReadsRealDates
  OBVIOUS
<1>1. date.year >= 1 /\ date.month \in 1 .. 12 /\ date.day >= 1
  <2>1. date.year \in Nat /\ 1 <= date.year /\ date.month \in Nat /\ 1 <= date.month
        /\ date.month <= 12 /\ date.day \in Nat /\ 1 <= date.day
    BY Fields DEF RealDate
  <2> QED BY <2>1, MonthNumber
<1>2. /\ DayFits(date.year, date.month, date.day)
      /\ EndOfMonth => ~DayFits(date.year, date.month, date.day + 1)
  BY Fields, RealDayFits DEF EndOfMonth
<1>3. Iso8601Ok(Text(date.day, NoZone))
  BY <1>1, <1>2, Fields DEF Iso8601Ok, Text
<1>4. EndOfMonth => ~Iso8601Ok(Text(date.day + 1, NoZone))
  BY <1>2 DEF Iso8601Ok, Text
<1>5. datetime_from_iso8601(Text(date.day, NoZone)) = dt
  <2>1. (dt.usec * Pow10(9 - 6)) \div 1000 = dt.usec
    BY Fields DEF Pow10
  <2>2. datetime_from_ymd(date.year, date.month, date.day).rdn = dt.rdn
    BY Fields, CountOfDate DEF datetime_from_ymd, DatetimeOf
  <2>3. time.hour * 3600 + time.min * 60 + time.sec = dt.sod
    BY Fields
  <2>4. /\ datetime_from_hmsu(time.hour, time.min, time.sec, dt.usec).sod = dt.sod
        /\ datetime_from_hmsu(time.hour, time.min, time.sec, dt.usec).usec = dt.usec
    BY <2>3 DEF datetime_from_hmsu, DatetimeOf
  <2>5. datetime_from_iso8601(Text(date.day, NoZone)) =
          LessMinutes(DatetimeOf(dt.rdn, dt.sod, dt.usec), 0)
    BY <2>1, <2>2, <2>4 DEF datetime_from_iso8601, Text, ZoneOffset
  <2>6. LessMinutes(DatetimeOf(dt.rdn, dt.sod, dt.usec), 0) = DatetimeOf(dt.rdn, dt.sod, dt.usec)
    BY Fields, TimeOfDt, TakeNothing
  <2>7. DatetimeOf(dt.rdn, dt.sod, dt.usec) = dt
    BY DEF DatetimeOf, IInv, Typed
  <2> QED BY <2>5, <2>6, <2>7
<1> QED BY <1>3, <1>4, <1>5 DEF ReadsRealDates

-----------------------------------------------------------------------------
(* Texts. *)

(* The precision is one of three: microseconds are less than a million. *)
LEMMA PrecisionOfMicroseconds ==
    ASSUME NEW f \in Nat, f <= 999999
    PROVE  \/ f = 0 /\ Precision(f) = 0
           \/ f # 0 /\ f % 1000 = 0 /\ Precision(f) = 6
           \/ f # 0 /\ Precision(f) = 9
<1>1. f # 0 => f % 1000000 # 0
  OBVIOUS
<1> QED BY <1>1 DEF Precision

LEMMA IInvFitsUnlessZone == IInv => FitsUnlessZone
<1> SUFFICES ASSUME IInv, NEW offset \in walk.offsets, NEW size \in walk.sizes
             PROVE  LET length == TextLength(datetime_format(dt, offset))
                        answer == FormatLength(dt, size)
                    IN  IF answer = 0 THEN length >= size
                        ELSE length < size \/ (offset # 0 /\ length < size + 5)
  BY DEF FitsUnlessZone
<1>1. size \in Nat /\ offset \in Int
  BY WalkTyped DEF IInv, Typed
<1> DEFINE text == datetime_format(dt, offset)
           dlen == 20 + (IF Precision(dt.usec) = 0 THEN 0 ELSE 1 + Precision(dt.usec))
<1>2. text.digits = Precision(dt.usec) /\ (offset = 0 => text.zone = NoZone)
  BY DEF datetime_format
<1>3. dlen \in Nat /\ dlen >= 20
  BY Fields, PrecisionOfMicroseconds
<1>4. FormatLength(dt, size) = IF dlen < size THEN dlen ELSE 0
  BY DEF FormatLength, Fits
<1>5. TextLength(text) = dlen + (IF text.zone = NoZone THEN 0 ELSE 5)
  BY <1>2 DEF TextLength
<1> HIDE DEF text, dlen
<1> QED BY <1>1, <1>2, <1>3, <1>4, <1>5 DEF text

(* A zone of less than a day comes apart into its hours and minutes. *)
LEMMA HoursAndMinutes ==
    ASSUME NEW v \in Nat, v <= 1439
    PROVE  /\ (v \div 60) % 100 <= 23 /\ v % 60 <= 59
           /\ ((v \div 60) % 100) * 60 + (v % 60) = v
OBVIOUS

(* The zone that is printed is the offset that is read. *)
LEMMA ZoneIsOffset ==
    ASSUME NEW o \in Int, -1439 <= o, o <= 1439
    PROVE  LET v == IF o < 0 THEN -o ELSE o
               zone == IF o = 0 THEN NoZone
                       ELSE [sign |-> IF o < 0 THEN -1 ELSE 1, hour |-> (v \div 60) % 100,
                             min |-> v % 60]
           IN  /\ zone # NoZone => zone.hour <= 23 /\ zone.min <= 59
               /\ ZoneOffset(zone) = o
<1> DEFINE v == IF o < 0 THEN -o ELSE o
           zone == [sign |-> IF o < 0 THEN -1 ELSE 1, hour |-> (v \div 60) % 100, min |-> v % 60]
<1>1. CASE o = 0
  BY <1>1 DEF ZoneOffset, NoZone
<1>2. CASE o # 0
  <2>1. zone # NoZone
    BY DEF NoZone
  <2>2. v \in Nat /\ v <= 1439
    OBVIOUS
  <2>3. /\ (v \div 60) % 100 <= 23 /\ v % 60 <= 59
        /\ ((v \div 60) % 100) * 60 + (v % 60) = v
    BY <2>2, HoursAndMinutes
  <2> HIDE DEF v
  <2>4. zone.sign * v = o
    BY <1>2 DEF v
  <2>5. zone.hour <= 23 /\ zone.min <= 59 /\ ZoneOffset(zone) = zone.sign * v
    BY <2>1, <2>3 DEF ZoneOffset
  <2> QED BY <1>2, <2>1, <2>4, <2>5 DEF v
<1> QED BY <1>1, <1>2

(* Where a zone leads from a second of a day: before that day, or not. *)
LEMMA DayOfZone ==
    ASSUME NEW sod \in Nat, sod <= 86399, NEW o \in Int, -1439 <= o, o <= 1439
    PROVE  LET s == sod - 60 * o
           IN  /\ s \in Int /\ s \div 86400 \in Int /\ s % 86400 \in Nat
               /\ (s \div 86400) * 86400 + (s % 86400) = s
               /\ s >= 0 => s \div 86400 >= 0
               /\ s < 0 => s \div 86400 = -1
OBVIOUS

(* Minutes that are taken off come off, whatever day that leads to, unless *)
(* it is before year 1.                                                    *)
LEMMA LessMinutesTakesOff ==
    ASSUME NEW rdn \in Nat, NEW sod \in Nat, sod <= 86399, NEW usec,
           NEW o \in Int, -1439 <= o, o <= 1439,
           ~(rdn = 0 /\ sod < 60 * o)
    PROVE  LET back == LessMinutes(DatetimeOf(rdn, sod, usec), o)
           IN  /\ (rdn - back.rdn) * 86400 + sod - back.sod = 60 * o
               /\ back.usec = usec
<1> DEFINE s == sod - 60 * o
<1>1. /\ s \in Int /\ s \div 86400 \in Int /\ s % 86400 \in Nat
      /\ (s \div 86400) * 86400 + (s % 86400) = s
      /\ s >= 0 => s \div 86400 >= 0
      /\ s < 0 => s \div 86400 = -1
  BY DayOfZone
<1>2. sod - s = 60 * o /\ (rdn = 0 => s >= 0)
  OBVIOUS
<1>3. LessMinutes(DatetimeOf(rdn, sod, usec), o) =
        IF rdn + (s \div 86400) < 0 THEN Wrapped(rdn + (s \div 86400), s % 86400, usec)
        ELSE [rdn |-> rdn + (s \div 86400), sod |-> s % 86400, usec |-> usec]
  BY DEF LessMinutes, DatetimeOf, SecondsPerDay
<1> HIDE DEF s
<1>4. ~(rdn + (s \div 86400) < 0)
  BY <1>1, <1>2
<1>5. (rdn - (rdn + (s \div 86400))) * 86400 + sod - (s % 86400) = 60 * o
  BY <1>1, <1>2
<1> QED BY <1>3, <1>4, <1>5

(* Minutes that lead before year 1 come off from the end of 64 bits. *)
LEMMA LessMinutesWraps ==
    ASSUME NEW sod \in Nat, sod <= 86399, NEW usec \in Nat, usec <= 999,
           NEW o \in Int, -1439 <= o, o <= 1439, sod < 60 * o
    PROVE  LET back == LessMinutes(DatetimeOf(0, sod, usec), o)
           IN  /\ (back.rdn - 213503982) * 86400 + back.sod - 28909 = sod - 60 * o
               /\ back.usec = 551616 + usec
<1> DEFINE s == sod - 60 * o
           u == usec + 551616
           t == (s % 86400) + 28909
<1>1. /\ s \in Int /\ s % 86400 \in Nat /\ s \div 86400 = -1
      /\ (s \div 86400) * 86400 + (s % 86400) = s
  <2>1. s < 0
    OBVIOUS
  <2> HIDE DEF s
  <2> QED BY <2>1, DayOfZone DEF s
<1>2. LessMinutes(DatetimeOf(0, sod, usec), o) = Wrapped(0 + (s \div 86400), s % 86400, usec)
  BY <1>1 DEF LessMinutes, DatetimeOf, SecondsPerDay
<1> HIDE DEF s
<1>3. u \div 1000000 = 0 /\ u % 1000000 = usec + 551616
  OBVIOUS
<1>4. t + (u \div 1000000) = t
  BY <1>1, <1>3
<1>5. t \in Nat /\ (t \div 86400) * 86400 + (t % 86400) = t /\ t \div 86400 \in Int /\ t % 86400 \in Int
  BY <1>1
<1>6. Wrapped(-1, s % 86400, usec) =
        [rdn |-> (-1 + 213503982) + (t \div 86400), sod |-> t % 86400, usec |-> u % 1000000]
  BY <1>4 DEF Wrapped, Wrap64, DatetimeOf, SecondsPerDay
<1>7. 0 + (s \div 86400) = -1
  BY <1>1
<1>8. (((-1 + 213503982) + (t \div 86400)) - 213503982) * 86400 + (t % 86400) - 28909 = s
  <2>1. t - 28909 - 86400 = s
    BY <1>1
  <2> HIDE DEF t
  <2> QED BY <1>5, <2>1
<1> QED BY <1>2, <1>3, <1>6, <1>7, <1>8 DEF s

(* No field is wider than the place it is printed in. *)
LEMMA FieldsFit ==
    ASSUME NEW y \in Nat, y <= 9999, NEW m \in Nat, m <= 12, NEW d \in Nat, d <= 31,
           NEW h \in Nat, h <= 23
    PROVE  y % 10000 = y /\ m % 100 = m /\ d % 100 = d /\ h % 100 = h
OBVIOUS

LEMMA IInvTextComesBack == IInv => TextComesBack
<1> SUFFICES ASSUME IInv, NEW offset \in walk.offsets
             PROVE  LET text == datetime_format(dt, offset)
                        back == datetime_from_iso8601(text)
                    IN  /\ Iso8601Ok(text)
                        /\ text.fraction * Pow10(9 - text.digits) = dt.usec
                        /\ IF BeforeYear1(offset)
                           THEN /\ SecondsTo(Wrap64, back) = dt.sod - 60 * offset
                                /\ back.usec = Wrap64.usec + dt.usec \div 1000
                           ELSE /\ SecondsTo(back, dt) = 60 * offset
                                /\ back.usec = dt.usec \div 1000
  BY DEF TextComesBack
<1>1. offset \in Int /\ -1439 <= offset /\ offset <= 1439
  BY WalkTyped DEF IInv, Typed
<1> DEFINE text == datetime_format(dt, offset)
           back == datetime_from_iso8601(text)
           precision == Precision(dt.usec)
           v == IF offset < 0 THEN -offset ELSE offset
           zone == IF offset = 0 THEN NoZone
                   ELSE [sign |-> IF offset < 0 THEN -1 ELSE 1, hour |-> (v \div 60) % 100,
                         min |-> v % 60]
           fraction == IF precision = 0 THEN 0 ELSE dt.usec \div Pow10(9 - precision)
<1>2. /\ date.year \in Nat /\ 1 <= date.year /\ date.year <= 9999
      /\ date.month \in Nat /\ 1 <= date.month /\ date.month <= 12
      /\ date.day \in Nat /\ 1 <= date.day /\ date.day <= 31
      /\ DayFits(date.year, date.month, date.day)
  BY Fields, RealDay, RealDayFits DEF RealDate
<1>3. /\ date.year % 10000 = date.year /\ date.month % 100 = date.month
      /\ date.day % 100 = date.day /\ time.hour % 100 = time.hour
  BY <1>2, Fields, FieldsFit
<1>4. /\ text.year = date.year /\ text.month = date.month /\ text.day = date.day
      /\ text.hour = time.hour /\ text.min = time.min /\ text.sec = time.sec
      /\ text.digits = precision /\ text.fraction = fraction /\ text.zone = zone
  BY <1>3, Fields, TimeOfDt DEF datetime_format
<1>5. (zone # NoZone => zone.hour <= 23 /\ zone.min <= 59) /\ ZoneOffset(zone) = offset
  BY <1>1, ZoneIsOffset
<1>6. fraction * Pow10(9 - precision) = dt.usec /\ precision \in 0 .. 9
  <2>1. dt.usec \in Nat /\ dt.usec <= 999999
    BY Fields
  <2>2. CASE dt.usec = 0 /\ precision = 0
    BY <2>2 DEF Pow10
  <2>3. CASE dt.usec # 0 /\ dt.usec % 1000 = 0 /\ precision = 6
    BY <2>1, <2>3 DEF Pow10
  <2>4. CASE dt.usec # 0 /\ precision = 9
    BY <2>1, <2>4 DEF Pow10
  <2> QED BY <2>1, <2>2, <2>3, <2>4, PrecisionOfMicroseconds
<1> HIDE DEF text, zone, fraction, precision
<1>7. Iso8601Ok(text)
  <2>1. date.month \in 1 .. 12
    BY <1>2, MonthNumber
  <2> QED BY <1>2, <1>4, <1>5, <1>6, <2>1, Fields DEF Iso8601Ok
<1>8. back = LessMinutes(DatetimeOf(dt.rdn, dt.sod, dt.usec \div 1000), offset)
  <2>1. datetime_from_ymd(date.year, date.month, date.day).rdn = dt.rdn
    BY Fields, CountOfDate DEF datetime_from_ymd, DatetimeOf
  <2>2. time.hour * 3600 + time.min * 60 + time.sec = dt.sod
    BY Fields
  <2>3. /\ datetime_from_hmsu(time.hour, time.min, time.sec, dt.usec \div 1000).sod = dt.sod
        /\ datetime_from_hmsu(time.hour, time.min, time.sec, dt.usec \div 1000).usec = dt.usec \div 1000
    BY <2>2 DEF datetime_from_hmsu, DatetimeOf
  <2> QED BY <1>4, <1>5, <1>6, <2>1, <2>3 DEF datetime_from_iso8601
<1>9. ASSUME ~BeforeYear1(offset)
      PROVE  SecondsTo(back, dt) = 60 * offset /\ back.usec = dt.usec \div 1000
  <2>1. dt.rdn \in Nat /\ dt.sod \in Nat /\ dt.sod <= 86399 /\ ~(dt.rdn = 0 /\ dt.sod < 60 * offset)
    BY <1>9, Fields, TimeOfDt DEF BeforeYear1
  <2> QED BY <1>1, <1>8, <2>1, LessMinutesTakesOff DEF SecondsTo, SecondsPerDay
<1>10. ASSUME BeforeYear1(offset)
       PROVE  /\ SecondsTo(Wrap64, back) = dt.sod - 60 * offset
              /\ back.usec = Wrap64.usec + dt.usec \div 1000
  <2>1. dt.rdn = 0 /\ dt.sod \in Nat /\ dt.sod <= 86399 /\ dt.sod < 60 * offset
    BY <1>10, Fields, TimeOfDt DEF BeforeYear1
  <2>2. dt.usec \div 1000 \in Nat /\ dt.usec \div 1000 <= 999
    BY Fields
  <2> QED BY <1>1, <1>8, <2>1, <2>2, LessMinutesWraps DEF SecondsTo, Wrap64, DatetimeOf, SecondsPerDay
<1> HIDE DEF back
<1>11. text.fraction * Pow10(9 - text.digits) = dt.usec
  BY <1>4, <1>6
<1> QED BY <1>7, <1>9, <1>10, <1>11 DEF text, back

-----------------------------------------------------------------------------
(* The theorems: what the run checks on some walks holds on every one. *)

(* rdn_to_ymd and ymd_to_rdn (qtl_datetime.c:52, :82) lead from the count  *)
(* to the calendar's date and back for every day of the years 1 to 9999.   *)
THEOREM SpecCountIsDate == Spec => []CountIsDate
BY Invariance, IInvCountIsDate, PTL

(* datetime_from_iso8601 (qtl_datetime.c:154) reads every date there is as *)
(* its count and refuses the day after the last of every month.            *)
THEOREM SpecReadsRealDates == Spec => []ReadsRealDates
BY Invariance, IInvReadsRealDates, PTL

(* datetime_decode and datetime_to_tm (qtl_datetime.c:113, :247) show what *)
(* the calendar and the clock show at every second, and the weekday from   *)
(* Monday.                                                                 *)
THEOREM SpecFieldsShowClock == Spec => []FieldsShowClock
BY Invariance, IInvFieldsShowClock, PTL

(* What datetime_format prints for any time with any zone of less than a   *)
(* day, datetime_from_iso8601 reads as that time less the zone, with the   *)
(* microseconds divided by a thousand; where the zone leads before year 1, *)
(* as 2^64 microseconds less what is missing.                              *)
THEOREM SpecTextComesBack == Spec => []TextComesBack
BY Invariance, IInvTextComesBack, PTL

(* For every time and size of the buffer, datetime_format refuses only     *)
(* what would not fit, and writes over the end only with a zone.           *)
THEOREM SpecFitsUnlessZone == Spec => []FitsUnlessZone
BY Invariance, IInvFitsUnlessZone, PTL
=============================================================================
