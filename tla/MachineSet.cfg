SPECIFICATION TimedSpec
CONSTANTS
    m1 = m1
    m2 = m2
    toAll = toAll
    toBoth = toBoth
    Machines = {m1, m2}
    UserEvents = {toAll, toBoth}
    Targets <- AllOrBoth
    NoEvent = NoEvent
    MaxLog = 4
INVARIANTS
    TypeOK
    MembersFollowTheLog
    DeliveriesFollowTheLog
    MembersHaveOneUser
    ProcessDoesNotBlock
    AtMostOneLateEvent
    OneEventOvertakes
PROPERTIES
    ImplementsSet
CHECK_DEADLOCK FALSE
