SPECIFICATION FairSpec
CONSTANTS
    Null = Null
    workshop = workshop
    lecture = lecture
    s1 = s1
    s2 = s2
    s3 = s3
    c1 = c1
    c2 = c2
    c3 = c3
    amy = amy
    bob = bob
    r1 = r1
    r2 = r2
    r3 = r3
    Events = {workshop, lecture}
    Slots = {s1, s2, s3}
    Coaches = {c1, c2, c3}
    Students = {amy, bob}
    Requests = {r1, r2, r3}
    Event <- MCEvent
    Order <- MCOrder
    Calendar <- MCCalendar
    SlotEvent <- MCSlotEvent
    SlotCapacity <- MCSlotCapacity
    InitialSlots <- MCInitialSlots
    Starts <- MCStarts
    Lookback = 2
    Calls <- MCCalls
    Grace = 0
    MaxNow = 1
    Zone <- MCZone
    Weekly <- MCWeekly
    Override <- MCOverride
    Exceptions <- MCExceptions
    Ranges <- MCRanges
    Margin = 0
INVARIANTS
    StudentNeverDoubleBooked
    SeatsNeverOversold
    OfferedIsBookable
    NoLockCycle
PROPERTIES
    KeepsLedger
    EveryCallAnswered
CHECK_DEADLOCK FALSE
