------------------------------ MODULE Datetime ------------------------------
(***************************************************************************)
(* The calendar and time arithmetic of qtl_datetime.c.  A datetime_t, the  *)
(* microseconds since 1 January of year 1, is the triple of its quotient   *)
(* by TICKS_PER_DAY, the whole seconds of the remainder and what is left.  *)
(* A text is the numbers its groups of digits spell, with the number of    *)
(* digits where it varies.                                                 *)
(***************************************************************************)
EXTENDS Integers, Sequences

SecondsPerDay == 86400
Uint16 == 65536

DatetimeOf(rdn, sod, usec) == [rdn |-> rdn, sod |-> sod, usec |-> usec]

(* EPOCH_DATE_TIME / TICKS_PER_DAY *)
EpochRdn == 719162

DaysPrecedingMonth(leap) ==
    IF leap THEN <<0, 31, 60, 91, 121, 152, 182, 213, 244, 274, 305, 335>>
            ELSE <<0, 31, 59, 90, 120, 151, 181, 212, 243, 273, 304, 334>>

DayOffset == <<306, 337, 0, 31, 61, 92, 122, 153, 184, 214, 245, 275>>

Pow10(n) == <<1, 10, 100, 1000, 10000, 100000, 1000000, 10000000, 100000000, 1000000000>>[n + 1]

leap_year(y) == y % 4 = 0 /\ (y % 100 # 0 \/ y % 400 = 0)

month_days(y, m) ==
    IF m = 2 THEN IF leap_year(y) THEN 29 ELSE 28
             ELSE IF m \in {4, 6, 9, 11} THEN 30 ELSE 31

(* Mutant: the quarter days of a year are rounded up. *)
BaumDayRoundedUp(B, Z, y) == B + Z - ((1461 * y + 3) \div 4)

(* The day of the year that begins in March. *)
BaumDay(B, Z, y) == B + Z - ((1461 * y) \div 4)

(* Rata Die algorithm by Peter Baum, in years that begin in March. *)
rdn_to_ymd(rdn) ==
    LET Z == rdn + 1 + 306
        H == 100 * Z - 25
        A == H \div 3652425
        B == A - A \div 4
        y == (100 * B + H) \div 36525
        d == BaumDay(B, Z, y)
        m == (535 * d + 48950) \div 16384
    IN  IF m > 12
        THEN [year |-> y + 1, month |-> m - 12, day |-> d - DayOffset[m - 12], yday |-> d - 306]
        ELSE [year |-> y, month |-> m, day |-> d - DayOffset[m],
              yday |-> d + 59 + (IF leap_year(y) THEN 1 ELSE 0)]

(* The day of the year is a 16-bit number, so day 0 of January is 65535.   *)
yd_to_rdn(y, d) ==
    LET before == (y - 1) % Uint16
    IN  365 * before + before \div 4 - before \div 100 + before \div 400 + (d % Uint16)

(* Months beyond 12 carry into the years, and month 0 borrows from them.   *)
ymd_to_rdn(year, month, day) ==
    LET borrow == month # 12 /\ month % 12 = 0
        y == year + (IF month > 12 THEN month \div 12 ELSE 0) - (IF borrow THEN 1 ELSE 0)
        m == IF borrow THEN 12 ELSE IF month > 12 THEN month % 12 ELSE month
    IN  yd_to_rdn(y, DaysPrecedingMonth(leap_year(y))[m] + day - 1)

datetime_from_ymd(year, month, day) == DatetimeOf(ymd_to_rdn(year, month, day), 0, 0)

datetime_to_ymd(dt) == rdn_to_ymd(dt.rdn)

(* Mutant: the hours are left in the minutes. *)
MinuteOfDay(sod) == sod \div 60

(* Hours, minutes and seconds of the second of the day. *)
HourOf(sod)   == sod \div 3600
MinuteOf(sod) == (sod \div 60) % 60
SecondOf(sod) == sod % 60

datetime_decode(dt) ==
    LET ymd == rdn_to_ymd(dt.rdn)
    IN  [year |-> ymd.year, month |-> ymd.month, day |-> ymd.day,
         hour |-> HourOf(dt.sod), minute |-> MinuteOf(dt.sod), second |-> SecondOf(dt.sod),
         usec |-> dt.usec]

(* The time of day as seconds and microseconds. *)
datetime_from_hmsu(hour, minute, second, usec) ==
    DatetimeOf(0, hour * 3600 + minute * 60 + second, usec)

(* Mutant: the date is not borrowed from. *)
LessMinutesSameDay(dt, offset) ==
    DatetimeOf(dt.rdn, (dt.sod - 60 * offset) % SecondsPerDay, dt.usec)

(* 2^64 microseconds, which a datetime_t wraps at. *)
Wrap64 == DatetimeOf(213503982, 28909, 551616)

(* The sum with a day that may be negative of what a datetime_t wraps at.  *)
Wrapped(rdn, sod, usec) ==
    LET u == usec + Wrap64.usec
        s == sod + Wrap64.sod + (u \div 1000000)
    IN  DatetimeOf(rdn + Wrap64.rdn + (s \div SecondsPerDay), s % SecondsPerDay, u % 1000000)

(* dt less an offset of minutes, without a sign: what would be before year *)
(* 1 wraps.                                                                *)
LessMinutes(dt, offset) ==
    LET s   == dt.sod - 60 * offset
        rdn == dt.rdn + (s \div SecondsPerDay)
        sod == s % SecondsPerDay
    IN  IF rdn < 0 THEN Wrapped(rdn, sod, dt.usec) ELSE DatetimeOf(rdn, sod, dt.usec)
-----------------------------------------------------------------------------
(* Texts: YYYY-MM-DDThh:mm:ss, a fraction of the given number of digits,   *)
(* none if it is 0, and Z or a zone.                                       *)
NoZone == <<>>

(* Mutant: the day is not checked against the month. *)
DayFitsAny(year, month, day) == day <= 31

DayFits(year, month, day) == day <= 31 /\ (day > 28 => day <= month_days(year, month))

(* The texts that datetime_from_iso8601 accepts, of those with this form.  *)
Iso8601Ok(t) ==
    /\ t.year >= 1
    /\ t.month \in 1 .. 12
    /\ t.day >= 1 /\ DayFits(t.year, t.month, t.day)
    /\ t.hour <= 23 /\ t.min <= 59 /\ t.sec <= 59
    /\ t.digits \in 0 .. 9
    /\ t.zone # NoZone => t.zone.hour <= 23 /\ t.zone.min <= 59

ZoneOffset(zone) ==
    IF zone = NoZone THEN 0 ELSE zone.sign * (zone.hour * 60 + zone.min)

(* What it makes of them: the fraction is cut to microseconds. *)
datetime_from_iso8601(t) ==
    LET nsec == t.fraction * Pow10(9 - t.digits)
        date == datetime_from_ymd(t.year, t.month, t.day)
        time == datetime_from_hmsu(t.hour, t.min, t.sec, nsec \div 1000)
    IN  LessMinutes(DatetimeOf(date.rdn, time.sod, time.usec), ZoneOffset(t.zone))

(* The precision that datetime_format chooses for its microseconds f.      *)
Precision(f) == IF f = 0 THEN 0
                ELSE IF f % 1000000 = 0 THEN 3
                ELSE IF f % 1000 = 0 THEN 6 ELSE 9

(* datetime_format prints them as if they were nanoseconds, and the zone   *)
(* next to a date and time that it does not shift by it.                   *)
datetime_format(dt, offset) ==
    LET ymd == rdn_to_ymd(dt.rdn)
        v == IF offset < 0 THEN -offset ELSE offset
        precision == Precision(dt.usec)
    IN  [year |-> ymd.year % 10000, month |-> ymd.month % 100, day |-> ymd.day % 100,
         hour |-> HourOf(dt.sod) % 100, min |-> MinuteOf(dt.sod), sec |-> SecondOf(dt.sod),
         digits |-> precision,
         fraction |-> IF precision = 0 THEN 0 ELSE dt.usec \div Pow10(9 - precision),
         zone |-> IF offset = 0 THEN NoZone
                  ELSE [sign |-> IF offset < 0 THEN -1 ELSE 1, hour |-> (v \div 60) % 100, min |-> v % 60]]

(* The characters of a text.  A zone takes five more than Z. *)
TextLength(text) ==
    20 + (IF text.digits = 0 THEN 0 ELSE 1 + text.digits) + (IF text.zone = NoZone THEN 0 ELSE 5)

(* Mutant: the character that ends a string is not counted. *)
FitsNoEnd(dlen, len) == dlen <= len

Fits(dlen, len) == dlen < len

(* The length that datetime_format returns, 0 if it says that the text     *)
(* does not fit into a buffer of len: it never counts the zone.            *)
FormatLength(dt, len) ==
    LET precision == Precision(dt.usec)
        dlen == 20 + (IF precision = 0 THEN 0 ELSE 1 + precision)
    IN  IF Fits(dlen, len) THEN dlen ELSE 0

(* datetime_to_tm, which refuses what is before 1970. *)
TmOk(dt) == dt.rdn >= EpochRdn

datetime_to_tm(dt) ==
    LET ymd == rdn_to_ymd(dt.rdn)
    IN  [mday |-> ymd.day, yday |-> ymd.yday - 1, mon |-> ymd.month - 1,
         year |-> ymd.year - 1900, wday |-> dt.rdn % 7,
         sec |-> SecondOf(dt.sod), min |-> MinuteOf(dt.sod), hour |-> HourOf(dt.sod)]
=============================================================================
