SPECIFICATION FairSpec
CONSTANTS
    a = a
    b = b
    go = go
    States = {a, b}
    Owned = {a}
    NoState = NoState
    UserEvents = {go}
    TimeoutEvent = TimeoutEvent
    NoEvent = NoEvent
    Predicates <- OnlyGo
    TimeoutOf <- PeriodOfA
    UserPeriods = {}
    MaxTransitions <- ThreeAndTwo
PROPERTIES
    FollowsTheTable
    CallTerminates
    CallsGetShorter
CHECK_DEADLOCK FALSE
