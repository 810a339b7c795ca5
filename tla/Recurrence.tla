----------------------------- MODULE Recurrence -----------------------------
(***************************************************************************)
(* The dates of a series (recurrence.service.ts and the loop of            *)
(* replenishContinuousSlots), in days of its time zone.                    *)
(***************************************************************************)
EXTENDS Integers, FiniteSetsExt

CONSTANTS
    Null,
    MonthStarts,    \* the first days of the months
    MaxIterations   \* the 100 iterations of the loop

ASSUME RecurrenceAssumption == MaxIterations \in Nat /\ MonthStarts \subseteq Nat /\ 0 \in MonthStarts

\* RECURRENCE_FREQUENCIES
Frequencies == {"WEEKLY", "BI_WEEKLY", "MONTHLY", "TWICE_A_MONTH", "THRICE_A_WEEK"}

\* The first day of the month of a day, and of the month after
MonthOf(day) == Max({m \in MonthStarts : m <= day})
MonthAfter(day) == Min({m \in MonthStarts : m > day})

\* mutant: a day the next month does not have runs over into the month after it
SameDayOverflowing(day) == MonthAfter(day) + (day - MonthOf(day))

\* The same day of the next month, or the last one of a shorter month
SameDayNextMonth(day) ==
    LET next == MonthAfter(day)
    IN  Min({next + (day - MonthOf(day)), MonthAfter(next) - 1})

\* advanceRecurrenceFloating; the index only counts for THRICE_A_WEEK: +2, +2, +3
Advance(day, frequency, index) ==
    CASE frequency = "WEEKLY"                         -> day + 7
      [] frequency \in {"BI_WEEKLY", "TWICE_A_MONTH"} -> day + 14
      [] frequency = "MONTHLY"                        -> SameDayNextMonth(day)
      [] frequency = "THRICE_A_WEEK"                  -> day + (IF index % 3 = 2 THEN 3 ELSE 2)

\* The n-th date after start, when start is at the given place of its cycle
Occurrence(start, frequency, phase, n) ==
    LET date[i \in 0..n] == IF i = 0 THEN start ELSE Advance(date[i - 1], frequency, phase + i - 1)
    IN  date[n]

\* mutant: the second place of the cycle is forgotten
CyclePhaseOfTwo(days) == IF days % 7 = 4 THEN 2 ELSE 0

\* The place in the cycle of a date that many days after the anchor
CyclePhase(days) == CASE days % 7 = 4 -> 2 [] days % 7 = 2 -> 1 [] OTHER -> 0

\* mutant: advanced once before the first date is taken
UpcomingButNext(latest, frequency, phase, horizon) ==
    {d \in {Occurrence(latest, frequency, phase, n) : n \in 2..MaxIterations + 1} : d < horizon}

\* What is added after the latest slot, up to the horizon
Upcoming(latest, frequency, phase, horizon) ==
    {d \in {Occurrence(latest, frequency, phase, n) : n \in 1..MaxIterations} : d < horizon}
=============================================================================
