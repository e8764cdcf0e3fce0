------------------------------ MODULE Calendar ------------------------------
(***************************************************************************)
(* The proleptic Gregorian calendar as a clock that ticks: the reference   *)
(* for qtl_datetime.c.  The date and the time go forward by a day or by a  *)
(* second, each field carrying into the next, while the count that stands  *)
(* for a datetime_t goes forward alongside; the arithmetic of Datetime     *)
(* must lead from each to the other all the way.                           *)
(***************************************************************************)
EXTENDS Datetime

(* Bound of the model: the walks taken.  One begins cycle times 400 years  *)
(* after year 1, goes on for so many days, a step being a day or a second, *)
(* with so many microseconds on the clock all the way; on it the time is   *)
(* printed with these zone offsets (minutes), into buffers of these sizes. *)
CONSTANT Walks

DaysPerCycle == 146097

ASSUME CalendarAssumption ==
    \A w \in Walks :
       /\ w.cycle \in 0 .. 24 /\ w.days \in Nat /\ w.step \in {1, SecondsPerDay}
       /\ w.usec \in Nat /\ w.usec <= 999999
       /\ \A offset \in w.offsets : offset \in Int /\ -1439 <= offset /\ offset <= 1439
       /\ w.sizes \subseteq Nat

VARIABLES
    date,     (* year, month, day                                            *)
    yday,     (* day of the year, from 1                                     *)
    weekday,  (* day of the week: 0 is Sunday                                *)
    time,     (* hour, minute, second                                        *)
    dt,       (* the datetime_t that counts up to them                       *)
    walk      (* the walk being taken                                        *)

vars == <<date, yday, weekday, time, dt, walk>>

first == walk.cycle * DaysPerCycle

(* Thirty days hath September. *)
IsLeap(year) == year % 400 = 0 \/ (year % 4 = 0 /\ year % 100 # 0)
DaysIn(year, month) ==
    CASE month = 2 -> IF IsLeap(year) THEN 29 ELSE 28
      [] month \in {4, 6, 9, 11} -> 30
      [] OTHER -> 31

EndOfMonth == date.day = DaysIn(date.year, date.month)
EndOfYear  == EndOfMonth /\ date.month = 12

(* 1 January of year 1, and so of every 400th year after it, is a Monday.  *)
Init ==
    /\ walk \in Walks
    /\ date = [year |-> 400 * walk.cycle + 1, month |-> 1, day |-> 1]
    /\ yday = 1 /\ weekday = 1
    /\ time = [hour |-> 0, min |-> 0, sec |-> 0]
    /\ dt = DatetimeOf(first, 0, walk.usec)

NextDay ==
    /\ dt.rdn < first + walk.days
    /\ ~(date.year = 9999 /\ EndOfYear)
    /\ date' = IF EndOfYear  THEN [year |-> date.year + 1, month |-> 1, day |-> 1]
          ELSE IF EndOfMonth THEN [year |-> date.year, month |-> date.month + 1, day |-> 1]
                             ELSE [date EXCEPT !.day = @ + 1]
    /\ yday' = IF EndOfYear THEN 1 ELSE yday + 1
    /\ weekday' = (weekday + 1) % 7
    /\ UNCHANGED walk

(* A day later, at the same time. *)
Day ==
    /\ walk.step = SecondsPerDay
    /\ NextDay
    /\ dt' = DatetimeOf(dt.rdn + 1, dt.sod, dt.usec)
    /\ UNCHANGED time

(* A second later, within the day or at midnight. *)
Second ==
    /\ walk.step = 1
    /\ time # [hour |-> 23, min |-> 59, sec |-> 59]
    /\ time' = IF time.sec < 59 THEN [time EXCEPT !.sec = @ + 1]
               ELSE IF time.min < 59 THEN [hour |-> time.hour, min |-> time.min + 1, sec |-> 0]
               ELSE [hour |-> time.hour + 1, min |-> 0, sec |-> 0]
    /\ dt' = DatetimeOf(dt.rdn, dt.sod + 1, dt.usec)
    /\ UNCHANGED <<date, yday, weekday, walk>>

Midnight ==
    /\ walk.step = 1
    /\ time = [hour |-> 23, min |-> 59, sec |-> 59]
    /\ NextDay
    /\ time' = [hour |-> 0, min |-> 0, sec |-> 0]
    /\ dt' = DatetimeOf(dt.rdn + 1, 0, dt.usec)

Next == Day \/ Second \/ Midnight

Spec == Init /\ [][Next]_vars
-----------------------------------------------------------------------------
(* Properties. *)

(* rdn_to_ymd (qtl_datetime.c:52) yields the calendar's date and day of    *)
(* the year through every leap year and century, in one go from the count, *)
(* and ymd_to_rdn (qtl_datetime.c:82) leads back to the count, also from a *)
(* month beyond December of the year before and from month 0 of the next.  *)
CountIsDate ==
    /\ datetime_to_ymd(dt) = [year |-> date.year, month |-> date.month, day |-> date.day,
                              yday |-> yday]
    /\ ymd_to_rdn(date.year, date.month, date.day) = dt.rdn
    /\ date.year > 1 => ymd_to_rdn(date.year - 1, date.month + 12, date.day) = dt.rdn
    /\ date.month = 12 => ymd_to_rdn(date.year + 1, 0, date.day) = dt.rdn

Text(day, zone) == [year |-> date.year, month |-> date.month, day |-> day,
                    hour |-> time.hour, min |-> time.min, sec |-> time.sec,
                    digits |-> 6, fraction |-> dt.usec, zone |-> zone]

(* datetime_from_iso8601 (qtl_datetime.c:154) reads every date there is as *)
(* its count and accepts none there is not, such as 29 February of 1900.   *)
ReadsRealDates ==
    /\ Iso8601Ok(Text(date.day, NoZone))
    /\ datetime_from_iso8601(Text(date.day, NoZone)) = dt
    /\ EndOfMonth => ~Iso8601Ok(Text(date.day + 1, NoZone))

(* datetime_decode (qtl_datetime.c:113) shows what the clock shows, and so *)
(* does datetime_to_tm (qtl_datetime.c:247) from 1970 on, except that its  *)
(* days of the week begin on Monday where struct tm's begin on Sunday.     *)
FieldsShowClock ==
    /\ datetime_decode(dt) = [year |-> date.year, month |-> date.month, day |-> date.day,
                              hour |-> time.hour, minute |-> time.min, second |-> time.sec,
                              usec |-> dt.usec]
    /\ TmOk(dt) <=> date.year >= 1970
    /\ TmOk(dt) => datetime_to_tm(dt) =
                      [mday |-> date.day, yday |-> yday - 1, mon |-> date.month - 1,
                       year |-> date.year - 1900, wday |-> (weekday + 6) % 7,
                       sec |-> time.sec, min |-> time.min, hour |-> time.hour]

(* The offset of a zone leads from dt to before year 1. *)
BeforeYear1(offset) == dt.rdn = 0 /\ dt.sod < 60 * offset

(* The seconds from one day and second to another, not far from it. *)
SecondsTo(from, to) == (to.rdn - from.rdn) * SecondsPerDay + to.sod - from.sod

(* A time printed with a zone by datetime_format and read again comes back *)
(* earlier by the zone's offset, whichever day and year that leads to:     *)
(* format adds no offset, the reader takes it off.  Its microseconds come  *)
(* back as a thousandth of what they were, printed as if nanoseconds.  On  *)
(* the first day of year 1 the offset may be more than the count: what is  *)
(* read is then that much before the end of 64 bits, and not refused       *)
(* (qtl_datetime.c:217-243, 267-355).                                      *)
TextComesBack ==
    \A offset \in walk.offsets :
        LET text == datetime_format(dt, offset)
            back == datetime_from_iso8601(text)
        IN  /\ Iso8601Ok(text)
            /\ text.fraction * Pow10(9 - text.digits) = dt.usec
            /\ IF BeforeYear1(offset)
               THEN /\ SecondsTo(Wrap64, back) = dt.sod - 60 * offset
                    /\ back.usec = Wrap64.usec + dt.usec \div 1000
               ELSE /\ SecondsTo(back, dt) = 60 * offset
                    /\ back.usec = dt.usec \div 1000

(* A text that datetime_format writes fits into the buffer with its end,   *)
(* and one it refuses would not, but for a zone: with one, a buffer up to  *)
(* five characters too short is taken (qtl_datetime.c:277-283, 336-352).   *)
FitsUnlessZone ==
    \A offset \in walk.offsets, size \in walk.sizes :
        LET length == TextLength(datetime_format(dt, offset))
            answer == FormatLength(dt, size)
        IN  IF answer = 0 THEN length >= size
            ELSE length < size \/ (offset # 0 /\ length < size + 5)
=============================================================================
