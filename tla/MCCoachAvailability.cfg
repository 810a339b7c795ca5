SPECIFICATION Spec
CONSTANTS
    Null = Null
    consult = consult
    panel = panel
    c1 = c1
    c2 = c2
    c3 = c3
    amy = amy
    bob = bob
    r1 = r1
    r2 = r2
    r3 = r3
    r4 = r4
    Events = {consult, panel}
    Slots = {}
    Coaches = {c1, c2, c3}
    Students = {amy, bob}
    Requests = {r1, r2, r3, r4}
    Event <- MCEvent
    Order <- MCOrder
    Calendar <- MCCalendar
    SlotEvent <- MCNoSlots
    SlotCapacity <- MCNoSlots
    InitialSlots <- MCNoSlots
    Starts <- MCStarts
    Lookback = 120
    Calls <- MCCalls
    Grace = 0
    MaxNow = 0
    Zone <- MCZone
    Weekly <- MCWeekly
    Override <- MCOverride
    Exceptions <- MCExceptions
    Ranges <- MCRanges
    Margin = 2
INVARIANTS
    TypeOK
    EventNeverDoubleBooksStaff
    TeamWellFormed
    BookedInsideHours
    OfferedIsBookable
PROPERTIES
    FollowUpOnlyWithActiveCoach
SYMMETRY OtherRequests
CHECK_DEADLOCK FALSE
