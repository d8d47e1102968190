----------------------------- MODULE DeliveryRisk -----------------------------
(***************************************************************************)
(* Delivery-risk classification, lib/scheduling/risk.ts.                   *)
(***************************************************************************)
EXTENDS WorkingTime

NoTime == -1

\* Steps back over non-working days, at most 14 of them.
PreviousWorkingDay(day, workingDays) ==
    LET stop == Min({k \in 0 .. 14 : k = 14 \/ day - 1 - k \in workingDays})
    IN  day - 1 - stop

\* end is the planned end of the last step, NoTime for an order without a
\* place.  Tight: in the last tenth of the remaining lead time, or on the due
\* date or the working day before it.
ClassifyRisk(end, due, now, today, tz, shortage, horizonEnd, workingDays) ==
    LET dueEnd == StartOfDay(due + 1, tz)
        tight  == \/ 10 * end >= 10 * dueEnd - Max2(0, dueEnd - now)
                  \/ end >= StartOfDay(PreviousWorkingDay(due, workingDays), tz)
        atRisk == shortage \/ IF end = NoTime THEN dueEnd <= horizonEnd ELSE tight
    IN  IF today > due THEN "LATE"
        ELSE IF end > dueEnd THEN "DELAYED"
        ELSE IF atRisk THEN "AT_RISK" ELSE "ON_TRACK"
==============================================================================
