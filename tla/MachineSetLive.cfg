SPECIFICATION FairSpec
CONSTANTS
    m1 = m1
    m2 = m2
    toAll = toAll
    toBoth = toBoth
    Machines = {m1, m2}
    UserEvents = {toAll, toBoth}
    Targets <- AllOrBoth
    NoEvent = NoEvent
    MaxLog = 3
PROPERTIES
    StopReturns
    EventsAreServed
    TimersAreServed
CHECK_DEADLOCK FALSE
