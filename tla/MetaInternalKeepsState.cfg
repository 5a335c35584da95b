SPECIFICATION Spec
CONSTANTS
    a = a
    b = b
    go = go
    States = {a, b}
    Owned = {a}
    NoState = NoState
    UserEvents = {go}
    TimeoutEvent = TimeoutEvent
    NoEvent = NoEvent
    Predicates <- OnlyGo
    TimeoutOf <- PeriodOfA
    UserPeriods = {}
    MaxTransitions <- ThreeAndTwo
PROPERTIES
    MetaInternalKeepsState
CHECK_DEADLOCK FALSE
