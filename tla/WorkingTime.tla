----------------------------- MODULE WorkingTime -----------------------------
(***************************************************************************)
(* Calendar and window arithmetic: lib/calendar.ts and                     *)
(* lib/scheduling/windows.ts.                                              *)
(*                                                                         *)
(* Instants are integers (minutes).  Intervals are half-open [s, e).  A    *)
(* list that the code keeps sorted and free of overlaps is a set of        *)
(* intervals here.  Days are numbered, day 0 starts at local minute 0 and  *)
(* is a Sunday.                                                            *)
(***************************************************************************)
EXTENDS Integers, FiniteSetsExt

CONSTANTS
    MinutesPerDay,   \* 1440 in the code
    DaysPerWeek      \* 7 in the code

ASSUME WeekAssumption == MinutesPerDay \in Nat \ {0} /\ DaysPerWeek \in Nat \ {0}

Interval == [s : Int, e : Int]
Max2(a, b) == IF a >= b THEN a ELSE b
Min2(a, b) == IF a <= b THEN a ELSE b

\* Math.round of a / b for a >= 0 and b > 0.
RoundDiv(a, b) == (2 * a + b) \div (2 * b)

(***************************************************************************)
(* Intervals.                                                              *)
(***************************************************************************)
Overlap(a, b) == a.s < b.e /\ b.s < a.e
Minutes(I) == UNION {i.s .. (i.e - 1) : i \in I}

\* The maximal intervals made of the given minutes.
IntervalsOf(M) ==
    {i \in [s : {t \in M : t - 1 \notin M}, e : {t + 1 : t \in M} \ M] :
        i.s < i.e /\ i.s .. (i.e - 1) \subseteq M}

\* Overlapping and touching intervals merged, empty ones dropped.
NormalizeIntervals(I) == IntervalsOf(Minutes(I))

\* What is left of one window when busy is taken out of it.
Pieces(w, busy) ==
    IF w.e <= busy.s \/ w.s >= busy.e
    THEN {w}
    ELSE {p \in {[s |-> w.s, e |-> busy.s], [s |-> busy.e, e |-> w.e]} : p.s < p.e}

SubtractInterval(free, busy) ==
    IF busy.e <= busy.s THEN free ELSE UNION {Pieces(w, busy) : w \in free}

\* Several busy intervals, one after the other.
SubtractIntervals(free, busies) == IntervalsOf(Minutes(free) \ Minutes(busies))

\* Minutes of [s, e) that fall inside the intervals.
CoveredMinutes(I, s, e) == Cardinality(Minutes(I) \cap (s .. (e - 1)))
TotalMinutes(I) == Cardinality(Minutes(I))

CeilToMinutes(t, step) == ((t + step - 1) \div step) * step

(***************************************************************************)
(* Local time.  tz describes one clock change: from local time tz.at on    *)
(* the clock is tz.by minutes ahead of what it was.  Local times that the  *)
(* change skips resolve forward, of those that occur twice the first       *)
(* counts.                                                                 *)
(***************************************************************************)
ZonedToUtc(local, tz) == IF local < tz.at + Max2(tz.by, 0) THEN local ELSE local - tz.by

StartOfDay(day, tz) == ZonedToUtc(day * MinutesPerDay, tz)

\* Today's date for an instant, looked for among the given days.
TodayInTz(now, tz, days) ==
    CHOOSE d \in days : StartOfDay(d, tz) <= now /\ now < StartOfDay(d + 1, tz)

WeekdayOf(day) == day % DaysPerWeek

(***************************************************************************)
(* Shifts.  A shift has local start and end minutes, a break and the       *)
(* weekdays on which it starts; one that does not end after its start ends *)
(* on the next day.  A calendar is a sequence of shifts and a function     *)
(* from the exceptional days to "is working".                              *)
(***************************************************************************)
CrossesMidnight(shift) == shift.end <= shift.start

ShiftGrossMinutes(shift) ==
    shift.end - shift.start + (IF CrossesMidnight(shift) THEN MinutesPerDay ELSE 0)

ShiftNetMinutes(shift) == ShiftGrossMinutes(shift) - shift.break

\* Mutant: nothing wraps at the end of the week.
WeekIntervalsUnwrapped(shift) ==
    LET Of(day) == [s |-> day * MinutesPerDay + shift.start,
                    e |-> day * MinutesPerDay + shift.start + ShiftGrossMinutes(shift)]
    IN  {Of(day) : day \in shift.days}

\* Minute-of-week intervals of a shift; what runs past the end of the week
\* is put at its beginning.
WeekIntervals(shift) ==
    LET week == DaysPerWeek * MinutesPerDay
        Of(day) == LET start == day * MinutesPerDay + shift.start
                       end   == start + ShiftGrossMinutes(shift)
                   IN  IF end <= week
                       THEN {[s |-> start, e |-> end]}
                       ELSE {[s |-> start, e |-> week], [s |-> 0, e |-> end - week]}
    IN  UNION {Of(day) : day \in shift.days}

ValidShift(shift) ==
    /\ shift.days # {}
    /\ shift.days \subseteq 0 .. DaysPerWeek - 1
    /\ shift.break >= 0
    /\ ShiftNetMinutes(shift) > 0

\* validateShifts() returns no message.
ValidShifts(shifts) ==
    /\ \A i \in DOMAIN shifts : ValidShift(shifts[i])
    /\ \A i, j \in DOMAIN shifts :
          i < j => ~ \E a \in WeekIntervals(shifts[i]), b \in WeekIntervals(shifts[j]) : Overlap(a, b)

IsWorkingDay(cal, day) ==
    IF day \in DOMAIN cal.exceptions
    THEN cal.exceptions[day] /\ DOMAIN cal.shifts # {}
    ELSE \E i \in DOMAIN cal.shifts : WeekdayOf(day) \in cal.shifts[i].days

\* Shift instances that start on a day.  A non-working exception removes
\* them all, a working one runs all shifts whatever their weekdays.
ShiftsOn(cal, day, tz) ==
    LET runs == IF day \in DOMAIN cal.exceptions
                THEN {i \in DOMAIN cal.shifts : cal.exceptions[day]}
                ELSE {i \in DOMAIN cal.shifts : WeekdayOf(day) \in cal.shifts[i].days}
        Instance(i) ==
            LET shift  == cal.shifts[i]
                endDay == IF CrossesMidnight(shift) THEN day + 1 ELSE day
            IN  [shift |-> i, date |-> day, break |-> shift.break,
                 s |-> ZonedToUtc(day * MinutesPerDay + shift.start, tz),
                 e |-> ZonedToUtc(endDay * MinutesPerDay + shift.end, tz)]
    IN  {Instance(i) : i \in runs}

NetMinutes(inst) == Max2(0, inst.e - inst.s - inst.break)

\* An instance without its break, which lies in the middle.
WithoutBreak(inst) ==
    LET break    == Min2(inst.e - inst.s, inst.break)
        firstLen == (inst.e - inst.s - break) \div 2
    IN  IF break <= 0
        THEN {[s |-> inst.s, e |-> inst.e]}
        ELSE {[s |-> inst.s, e |-> inst.s + firstLen],
              [s |-> inst.s + firstLen + break, e |-> inst.e]}

DayWorkingWindows(cal, day, tz) == UNION {WithoutBreak(inst) : inst \in ShiftsOn(cal, day, tz)}

\* Gross windows of a day: breaks count as working time.
DayShiftWindows(cal, day, tz) == {[s |-> inst.s, e |-> inst.e] : inst \in ShiftsOn(cal, day, tz)}

Clip(I, lo, hi) == {[s |-> Max2(i.s, lo), e |-> Min2(i.e, hi)] : i \in I}

\* The windows of the days from .. to - 1 and of the day before (a night
\* shift that began the evening before still counts), clipped.
WorkingWindows(cal, tz, from, to, lo, hi) ==
    NormalizeIntervals(Clip(UNION {DayWorkingWindows(cal, d, tz) : d \in (from - 1) .. (to - 1)}, lo, hi))

GrossWindows(cal, tz, from, to, lo, hi) ==
    NormalizeIntervals(Clip(UNION {DayShiftWindows(cal, d, tz) : d \in (from - 1) .. (to - 1)}, lo, hi))

(***************************************************************************)
(* Capacity as the machine pages show it.                                  *)
(***************************************************************************)
DowntimeMinutesWithin(s, e, downtimes) == CoveredMinutes(downtimes, s, e)

\* Mutant: breaks count as available.
AvailableWithBreak(inst, efficiency, downtimes) ==
    Max2(0, inst.e - inst.s - Min2(inst.e - inst.s, DowntimeMinutesWithin(inst.s, inst.e, downtimes)))

AvailableInShift(inst, efficiency, downtimes) ==
    LET effective == RoundDiv(NetMinutes(inst) * efficiency, 100)
        lost      == Min2(inst.e - inst.s, DowntimeMinutesWithin(inst.s, inst.e, downtimes))
    IN  Max2(0, effective - lost)

AvailableMinutes(cal, day, tz, efficiency, downtimes) ==
    MapThenSumSet(LAMBDA inst : AvailableInShift(inst, efficiency, downtimes), ShiftsOn(cal, day, tz))
==============================================================================
