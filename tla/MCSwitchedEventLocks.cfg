SPECIFICATION Spec
CONSTANTS
    Null = Null
    panel = panel
    s1 = s1
    c1 = c1
    c2 = c2
    amy = amy
    bob = bob
    r1 = r1
    r2 = r2
    Events = {panel}
    Slots = {s1}
    Coaches = {c1, c2}
    Students = {amy, bob}
    Requests = {r1, r2}
    Event <- MCEvent
    Order <- MCOrder
    Calendar <- MCCalendar
    SlotEvent <- MCSlotEvent
    SlotCapacity <- MCSlotCapacity
    InitialSlots <- MCInitialSlots
    Starts <- MCStarts
    Lookback = 2
    Calls <- MCCalls
    Grace = 0
    MaxNow = 0
INVARIANT
    NoLockCycle
CHECK_DEADLOCK FALSE
