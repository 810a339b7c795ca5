SPECIFICATION Spec
CONSTANTS
    Null = Null
    ann = ann
    bob = bob
    b1 = b1
    b2 = b2
    r1 = r1
    r2 = r2
    r3 = r3
    Coaches = {ann, bob}
    Bookings = {b1, b2}
    Calls = {r1, r2, r3}
    Asks <- MCAsks
    Initial <- MCInitial
    FixedLead = ann
    Deferred = TRUE
    Ahead = 15
    MonthStarts <- MCMonthStarts
    Occurrences = 3
    MaxIterations = 2
    MaxSlots = 8
    MaxNow = 2
INVARIANTS
    TypeOK
    SeriesKeepsItsDays
    SeriesHasNoGaps
    RevealedCoachLeads
    AttendanceMatchesStatus
CHECK_DEADLOCK FALSE
